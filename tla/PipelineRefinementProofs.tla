---------------------- MODULE PipelineRefinementProofs ----------------------
(***************************************************************************)
(* Pipeline implements TaskLifecycle, for any set of tasks, proposals,     *)
(* requests and run ids and any caps, as long as people submit no runs of  *)
(* mode auto themselves: the failure of such a run would fail an idea.     *)
(***************************************************************************)
EXTENDS PipelineProofs

NoAutoRequests == "auto" \notin UserModes

\* The transitions a run still has to make: none is a promotion, and only a run
\* of mode auto makes a task fail.
PathOK(rec) ==
    /\ rec.pc = "pause" => rec.mode = "auto"
    /\ rec.pc = "apply" =>
         \A i \in 1 .. Len(rec.path) :
            rec.path[i] # "planning" /\ (rec.path[i] = "failed" => rec.mode = "auto")

\* A run of mode auto is about a task that has been promoted.
RunBegun ==
    \A r \in RunIds :
        run[r].mode = "auto" /\ run[r].pc # "free" => status[run[r].target] # "idea"

\* What the driver has read stays true: dependencies that were done are done,
\* and a task that was promoted stays promoted.
DriverBegun ==
    /\ driver.phase = "promote" =>
         \A t \in driver.todo : \A d \in Deps[t] : status[d] = "done"
    /\ driver.phase # "promote" => \A t \in driver.todo : status[t] # "idea"
    /\ driver.pc = "submit" => status[driver.cur] # "idea"

\* So does what a request has read; one under way has a task.
Begun(q) ==
    /\ q.op # "idle" => q.task \in Tasks
    /\ q.op = "promoting" =>
         \A t \in q.todo : \A d \in Deps[t] : status[d] = "done"
    /\ q.op = "retry" => status[q.task] # "idea"
    /\ q.op = "toPlanning" => Deps[q.task] = {}

UserBegun == \A u \in Users : Begun(user[u])

LifecycleInv ==
    /\ TypeInv
    /\ \A r \in RunIds : PathOK(run[r])
    /\ RunBegun
    /\ DriverBegun
    /\ UserBegun

\* One task takes an edge of the table, an idea only once it is ready.
Advance(t, to) ==
    /\ CanMove(status[t], to)
    /\ status[t] = "idea" => to = "planning" /\ \A d \in Deps[t] : status[d] = "done"
    /\ status' = [status EXCEPT ![t] = to]

Advances == status' = status \/ \E t \in Tasks, to \in Status : Advance(t, to)

-----------------------------------------------------------------------------
\* Nothing becomes an idea again, and what is done stays done.
LEMMA AdvancesKeep ==
    ASSUME TypeOK, Advances
    PROVE  /\ \A t \in Tasks : status[t] # "idea" => status'[t] # "idea"
           /\ \A t \in Tasks : status[t] = "done" => status'[t] = "done"
<1>1. CASE status' = status
  BY <1>1
<1>2. ASSUME NEW t \in Tasks, NEW to \in Status, Advance(t, to)
      PROVE  /\ \A s \in Tasks : status[s] # "idea" => status'[s] # "idea"
             /\ \A s \in Tasks : status[s] = "done" => status'[s] = "done"
  <2>1. status[t] \in Status /\ to \in TRANSITIONS[status[t]]
    BY <1>2 DEF Advance, CanMove, TypeOK
  <2>2. to # "idea" /\ status[t] # "done"
    BY <2>1 DEF TRANSITIONS, Status
  <2>3. QED
    BY <1>2, <2>2 DEF Advance, TypeOK
<1>3. QED
  BY <1>1, <1>2 DEF Advances

\* An idea goes to planning or fails, nowhere else.
LEMMA IdeaMoves ==
    ASSUME NEW to, CanMove("idea", to)
    PROVE  to \in {"planning", "failed"}
BY DEF CanMove, TRANSITIONS, Status

\* A step that writes at most one status is an advance if it is one when the
\* task is an idea.
LEMMA AdvanceOne ==
    ASSUME TypeOK, NEW t \in Tasks, NEW to, CanMove(status[t], to),
           status' = [status EXCEPT ![t] = to],
           status[t] = "idea" => to = "planning" /\ \A d \in Deps[t] : status[d] = "done"
    PROVE  Advances
<1>1. to \in Status
  BY MoveType DEF TypeOK
<1>2. QED
  BY <1>1 DEF Advances, Advance

-----------------------------------------------------------------------------
\* Every step is an advance.
LEMMA RunStepAdvances ==
    ASSUME LifecycleInv, NEW r \in RunIds, RunStep(r)
    PROVE  Advances
<1>1. CASE ApplyNext(r)
  <2> DEFINE t == run[r].target
             path == run[r].path
             to == Head(path)
  <2>1. /\ run[r].pc = "apply" /\ path \in Seq(Status) /\ path # <<>>
        /\ t \in Tasks /\ TypeOK
    BY <1>1 DEF ApplyNext, LifecycleInv, TypeInv, TypeOK, RunOK, Run
  <2>2. to # "planning" /\ (to = "failed" => status[t] # "idea")
    <3>1. to = path[1] /\ 1 \in 1 .. Len(path)
      BY <2>1
    <3>2. path[1] # "planning" /\ (path[1] = "failed" => run[r].mode = "auto")
      BY <2>1, <3>1 DEF LifecycleInv, PathOK
    <3>3. QED
      BY <2>1, <3>1, <3>2 DEF LifecycleInv, RunBegun
  <2>3. CASE CanMove(status[t], to)
    <3>1. status' = [status EXCEPT ![t] = to]
      BY <1>1, <2>3 DEF ApplyNext
    <3>2. status[t] # "idea"
      BY <2>2, <2>3, IdeaMoves
    <3> HIDE DEF t, to
    <3>3. QED
      BY <2>1, <2>3, <3>1, <3>2, AdvanceOne
  <2>4. CASE ~CanMove(status[t], to)
    BY <1>1, <2>4 DEF ApplyNext, Advances
  <2>5. QED
    BY <2>3, <2>4
<1>2. CASE ~ApplyNext(r)
  BY <1>2 DEF RunStep, Register, GrantFiLock, RunnerReturns, FinishRow, ReadTask,
              PauseTarget, SnapshotSiblings, PauseSibling, PauseProposal,
              UnpauseTarget, Advances
<1>3. QED
  BY <1>1, <1>2

LEMMA DriverStepAdvances ==
    ASSUME LifecycleInv, DriverStep
    PROVE  Advances
<1>0. TypeOK /\ driver \in Driver
  BY DEF LifecycleInv, TypeInv, TypeOK
<1>1. ASSUME NEW t \in Tasks, DriverPromote(t)
      PROVE  Advances
  <2>1. CASE CanMove(status[t], "planning")
    <3>1. status' = [status EXCEPT ![t] = "planning"]
      BY <1>1, <2>1 DEF DriverPromote
    <3>2. \A d \in Deps[t] : status[d] = "done"
      BY <1>1 DEF DriverPromote, LifecycleInv, DriverBegun
    <3>3. QED
      BY <1>0, <2>1, <3>1, <3>2, AdvanceOne
  <2>2. CASE ~CanMove(status[t], "planning")
    BY <1>1, <2>2 DEF DriverPromote, Advances
  <2>3. QED
    BY <2>1, <2>2
<1>2. CASE DriverAssign
  <2>1. CASE CanMove(status[driver.cur], "assigned")
    <3>1. status' = [status EXCEPT ![driver.cur] = "assigned"]
      BY <1>2, <2>1 DEF DriverAssign
    <3>2. status[driver.cur] # "idea"
      BY <2>1, IdeaMoves
    <3>3. driver.cur \in Tasks
      BY <1>2 DEF DriverAssign, LifecycleInv, TypeInv, DriverOK
    <3>4. QED
      BY <1>0, <2>1, <3>1, <3>2, <3>3, AdvanceOne
  <2>2. CASE ~CanMove(status[driver.cur], "assigned")
    BY <1>2, <2>2 DEF DriverAssign, Advances
  <2>3. QED
    BY <2>1, <2>2
<1>3. CASE \/ DriverReadTasks \/ DriverReadRows
           \/ \E t \in Tasks : DriverCheckPlanned(t) \/ DriverCheckTask(t)
           \/ \E r \in RunIds : DriverSubmit(r)
  BY <1>3 DEF DriverReadTasks, DriverReadRows, DriverCheckPlanned, DriverCheckTask,
              DriverSubmit, Advances
<1>4. QED
  BY <1>1, <1>2, <1>3 DEF DriverStep

\* A transition of a request, unless it could promote an idea.
LEMMA RequestMoveAdvances ==
    ASSUME TypeOK, NEW u \in Users, NEW op, NEW to, NEW nextOp,
           RequestMove(u, op, to, nextOp), user[u].task \in Tasks,
           status[user[u].task] = "idea" =>
              /\ to # "failed"
              /\ \A d \in Deps[user[u].task] : status[d] = "done"
    PROVE  Advances
<1> DEFINE t == user[u].task
<1>1. CASE CanMove(status[t], to)
  <2>1. status' = [status EXCEPT ![t] = to]
    BY <1>1 DEF RequestMove
  <2>2. status[t] = "idea" => to = "planning" /\ \A d \in Deps[t] : status[d] = "done"
    BY <1>1, IdeaMoves
  <2>3. t \in Tasks
    OBVIOUS
  <2> HIDE DEF t
  <2>4. QED
    BY <1>1, <2>1, <2>2, <2>3, AdvanceOne
<1>2. CASE ~CanMove(status[t], to)
  BY <1>2 DEF RequestMove, Advances
<1>3. QED
  BY <1>1, <1>2

LEMMA RequestStepAdvances ==
    ASSUME LifecycleInv, NEW u \in Users, RequestStep(u)
    PROVE  Advances
<1>0. TypeOK /\ UserBegun
  BY DEF LifecycleInv, TypeInv
<1>1. CASE Accept(u) \/ MarkDone(u) \/ Reject(u) \/ Reassign(u)
  <2>1. PICK op \in {"accept", "merge", "reject", "reassign"},
             to \in {"accepted", "done", "rejected", "assigned"},
             nextOp \in {"merge", "promote", "reassign", "idle"} :
          RequestMove(u, op, to, nextOp)
    BY <1>1 DEF Accept, MarkDone, Reject, Reassign
  <2>2. user[u].op = op
    BY <2>1 DEF RequestMove
  <2>3. user[u].task \in Tasks
    BY <1>0, <2>2 DEF UserBegun, Begun
  <2>4. CASE CanMove(status[user[u].task], to)
    <3>1. status[user[u].task] # "idea"
      BY <2>4, IdeaMoves
    <3>2. QED
      BY <1>0, <2>1, <2>3, <3>1, RequestMoveAdvances
  <2>5. CASE ~CanMove(status[user[u].task], to)
    BY <2>1, <2>5 DEF RequestMove, Advances
  <2>6. QED
    BY <2>4, <2>5
<1>2. CASE RetryMove(u)
  <2>1. RequestMove(u, "retry", "planning", "resume") /\ user[u].op = "retry"
    BY <1>2 DEF RetryMove, RequestMove
  <2>2. user[u].task \in Tasks /\ status[user[u].task] # "idea"
    BY <1>0, <2>1 DEF UserBegun, Begun
  <2>3. QED
    BY <1>0, <2>1, <2>2, RequestMoveAdvances
<1>3. CASE FastForward(u)
  <2>1. CASE user[u].op = "toPlanning"
    <3>1. RequestMove(u, "toPlanning", "planning", "toPlanned")
      BY <1>3, <2>1 DEF FastForward, RequestMove
    <3>2. user[u].task \in Tasks /\ Deps[user[u].task] = {}
      BY <1>0, <2>1 DEF UserBegun, Begun
    <3>3. QED
      BY <1>0, <3>1, <3>2, RequestMoveAdvances
  <2>2. CASE user[u].op # "toPlanning"
    <3>1. PICK op \in {"toPlanned", "toAssigned", "toInProgress", "toImplemented"},
               to \in {"planned", "assigned", "in_progress", "implemented"},
               nextOp \in StandaloneOps :
            RequestMove(u, op, to, nextOp)
      BY <1>3, <2>2 DEF FastForward, RequestMove, StandaloneOps
    <3>2. user[u].op = op
      BY <3>1 DEF RequestMove
    <3>3. user[u].task \in Tasks
      BY <1>0, <3>2 DEF UserBegun, Begun
    <3>4. CASE CanMove(status[user[u].task], to)
      <4>1. status[user[u].task] # "idea"
        BY <3>4, IdeaMoves
      <4>2. QED
        BY <1>0, <3>1, <3>3, <4>1, RequestMoveAdvances
    <3>5. CASE ~CanMove(status[user[u].task], to)
      BY <3>1, <3>5 DEF RequestMove, Advances
    <3>6. QED
      BY <3>4, <3>5
  <2>3. QED
    BY <2>1, <2>2
<1>4. ASSUME NEW t \in Tasks, AcceptPromote(u, t)
      PROVE  Advances
  <2>1. CASE CanMove(status[t], "planning")
    <3>1. status' = [status EXCEPT ![t] = "planning"]
      BY <1>4, <2>1 DEF AcceptPromote
    <3>2. \A d \in Deps[t] : status[d] = "done"
      BY <1>0, <1>4 DEF AcceptPromote, UserBegun, Begun
    <3>3. QED
      BY <1>0, <2>1, <3>1, <3>2, AdvanceOne
  <2>2. CASE ~CanMove(status[t], "planning")
    BY <1>4, <2>2 DEF AcceptPromote, Advances
  <2>3. QED
    BY <2>1, <2>2
<1>5. CASE AcceptReadReady(u) \/ RetryResume(u) \/ NoBranch(u)
  BY <1>5 DEF AcceptReadReady, RetryResume, NoBranch, Advances
<1>6. QED
  BY <1>1, <1>2, <1>3, <1>4, <1>5 DEF RequestStep

LEMMA NextAdvances ==
    ASSUME LifecycleInv, [Next]_vars
    PROVE  Advances
<1>1. CASE \/ \E u \in Users : SubmitStep(u)
           \/ PeopleStep \/ Crash \/ UNCHANGED vars
  BY <1>1 DEF SubmitStep, StandaloneSubmit, PeopleStep, StartReview, StartRetry,
              StartStandalone, UserSubmit, UserCancel, UserUnpause, Crash, vars, Advances
<1>2. QED
  BY <1>1, RunStepAdvances, DriverStepAdvances, RequestStepAdvances DEF Next

-----------------------------------------------------------------------------
\* What the invariant says of one task stays true of it.
LEMMA Kept ==
    ASSUME LifecycleInv, [Next]_vars
    PROVE  /\ TypeOK
           /\ \A t \in Tasks : status[t] # "idea" => status'[t] # "idea"
           /\ \A t \in Tasks :
                (\A d \in Deps[t] : status[d] = "done")
                   => \A d \in Deps[t] : status'[d] = "done"
<1>1. TypeOK
  BY DEF LifecycleInv, TypeInv
<1>2. /\ \A t \in Tasks : status[t] # "idea" => status'[t] # "idea"
      /\ \A t \in Tasks : status[t] = "done" => status'[t] = "done"
  BY <1>1, NextAdvances, AdvancesKeep
<1>3. \A t \in Tasks : Deps[t] \subseteq Tasks
  BY PipelineAssumption
<1>4. QED
  BY <1>1, <1>2, <1>3

\* One run changes: it ends, or it goes on with the same task in the same mode,
\* or its task is no idea.
LEMMA RunChanges ==
    ASSUME LifecycleInv, [Next]_vars, NEW r \in RunIds, NEW rec, RunOK(rec), PathOK(rec),
           \/ rec.pc = "free" \/ rec.mode # "auto"
           \/ run[r].pc # "free" /\ rec.mode = run[r].mode /\ rec.target = run[r].target
           \/ status[rec.target] # "idea",
           run' = [run EXCEPT ![r] = rec]
    PROVE  (\A x \in RunIds : PathOK(run[x]))' /\ RunBegun'
<1>1. run \in [RunIds -> Run]
  BY DEF LifecycleInv, TypeInv, TypeOK
<1>2. \A x \in RunIds : PathOK(run'[x])
  BY <1>1 DEF LifecycleInv
<1>3. \A t \in Tasks : status[t] # "idea" => status'[t] # "idea"
  BY Kept
<1>4. \A x \in RunIds : run[x].pc # "free" => run[x].target \in Tasks
  BY DEF LifecycleInv, TypeInv, RunOK
<1>5. ASSUME NEW x \in RunIds, run'[x].mode = "auto", run'[x].pc # "free"
      PROVE  status'[run'[x].target] # "idea"
  <2>1. CASE x = r
    BY <1>1, <1>3, <1>4, <1>5, <2>1 DEF LifecycleInv, RunBegun, RunOK
  <2>2. CASE x # r
    BY <1>1, <1>3, <1>4, <1>5, <2>2 DEF LifecycleInv, RunBegun
  <2>3. QED
    BY <2>1, <2>2
<1>6. QED
  BY <1>2, <1>5 DEF RunBegun, PathOK

LEMMA NoRunPath == PathOK(NoRun) /\ NoRun.pc = "free"
BY DEF NoRun, PathOK

\* No path of a success promotes or fails a task.
LEMMA SuccessPathOK ==
    ASSUME NEW rec, NEW s, NEW i \in 1 .. Len(SuccessPath(rec, s))
    PROVE  SuccessPath(rec, s)[i] \notin {"planning", "failed"}
<1>1. \/ SuccessPath(rec, s) = <<"in_progress", "implemented">>
      \/ SuccessPath(rec, s) = <<"implemented">>
      \/ SuccessPath(rec, s) = <<"testing", "review", "rejected">>
      \/ SuccessPath(rec, s) = <<"testing", "review">>
      \/ SuccessPath(rec, s) = <<"review", "rejected">>
      \/ SuccessPath(rec, s) = <<"review">>
  BY Zenon DEF SuccessPath
<1>2. CASE SuccessPath(rec, s) = <<"in_progress", "implemented">>
  BY <1>2
<1>3. CASE SuccessPath(rec, s) = <<"implemented">>
  BY <1>3
<1>4. CASE SuccessPath(rec, s) = <<"testing", "review", "rejected">>
  BY <1>4
<1>5. CASE SuccessPath(rec, s) = <<"testing", "review">>
  BY <1>5
<1>6. CASE SuccessPath(rec, s) = <<"review", "rejected">>
  BY <1>6
<1>7. CASE SuccessPath(rec, s) = <<"review">>
  BY <1>7
<1>8. QED
  BY <1>1, <1>2, <1>3, <1>4, <1>5, <1>6, <1>7

\* The run after a step of its own: what it is about does not change.
LEMMA RunStepKeeps ==
    ASSUME LifecycleInv, [Next]_vars, NEW r \in RunIds, RunStep(r)
    PROVE  (\A x \in RunIds : PathOK(run[x]))' /\ RunBegun'
<1>0. /\ run[r] \in Run /\ RunOK(run[r]) /\ PathOK(run[r])
      /\ (\A x \in RunIds : RunOK(run[x])) /\ (\A x \in RunIds : PathOK(run[x])) /\ RunBegun
  BY DEF LifecycleInv, TypeInv, RunOK
<1>1. TypeInv'
  BY NextType DEF LifecycleInv
<1>2. ASSUME NEW rec, run[r].pc # "free", run' = [run EXCEPT ![r] = rec], PathOK(rec),
             rec.pc = "free" \/ (rec.mode = run[r].mode /\ rec.target = run[r].target)
      PROVE  (\A x \in RunIds : PathOK(run[x]))' /\ RunBegun'
  <2>1. run \in [RunIds -> Run] /\ \A x \in RunIds : RunOK(run'[x])
    BY <1>1 DEF LifecycleInv, TypeInv, TypeOK
  <2>2. RunOK(rec)
    BY <1>2, <2>1
  <2>3. QED
    BY <1>2, <2>2, RunChanges
<1>3. ASSUME NEW pc \in RunPC \ {"apply", "pause", "free"}
      PROVE  LET rec == [run[r] EXCEPT !.pc = pc]
             IN  PathOK(rec) /\ rec.mode = run[r].mode /\ rec.target = run[r].target
  BY <1>0 DEF Run, PathOK, RunPC
<1>4. CASE Register(r) \/ GrantFiLock(r)
  <2>1. PICK pc \in {"waiting", "running"} :
          run[r].pc # "free" /\ run' = [run EXCEPT ![r] = [run[r] EXCEPT !.pc = pc]]
    BY <1>4 DEF Register, GrantFiLock
  <2>2. pc \in RunPC \ {"apply", "pause", "free"}
    BY DEF RunPC
  <2>3. QED
    BY <1>2, <1>3, <2>1, <2>2
<1>5. ASSUME NEW o \in AllOutcomes, RunnerReturns(r, o)
      PROVE  (\A x \in RunIds : PathOK(run[x]))' /\ RunBegun'
  <2> DEFINE rec == [run[r] EXCEPT !.pc = "finish", !.outcome = o]
  <2>1. run' = [run EXCEPT ![r] = rec] /\ run[r].pc # "free"
    BY <1>5 DEF RunnerReturns
  <2>2. PathOK(rec) /\ rec.mode = run[r].mode /\ rec.target = run[r].target
    BY <1>0 DEF Run, PathOK
  <2> HIDE DEF rec
  <2>3. QED
    BY <1>2, <2>1, <2>2
<1>6. CASE FinishRow(r)
  <2> DEFINE p == <<"planned">>
             rec == [run[r] EXCEPT !.pc = "apply", !.path = p]
             waits == [run[r] EXCEPT !.pc = "pause"]
  <2>1. \A i \in 1 .. Len(p) : p[i] \notin {"planning", "failed"}
    OBVIOUS
  <2>2. /\ run[r].pc # "free" /\ run' = [run EXCEPT ![r] = AfterRow(run[r])]
        /\ \/ AfterRow(run[r]) = NoRun
           \/ AfterRow(run[r]) = rec
           \/ AfterRow(run[r]) = waits /\ run[r].mode = "auto"
           \/ \E pc \in {"read", "unpause"} : AfterRow(run[r]) = [run[r] EXCEPT !.pc = pc]
    BY <1>6 DEF FinishRow, AfterRow, AfterSuccess
  <2> HIDE DEF p
  <2>3. PathOK(rec) /\ rec.mode = run[r].mode /\ rec.target = run[r].target
    BY <1>0, <2>1 DEF Run, PathOK
  <2>4. /\ run[r].mode = "auto" => PathOK(waits)
        /\ waits.mode = run[r].mode /\ waits.target = run[r].target
    BY <1>0 DEF Run, PathOK
  <2>5. {"read", "unpause"} \subseteq RunPC \ {"apply", "pause", "free"}
    BY DEF RunPC
  <2> HIDE DEF rec, waits
  <2>6. QED
    BY <1>2, <1>3, <2>2, <2>3, <2>4, <2>5, NoRunPath
<1>7. CASE ReadTask(r)
  <2> DEFINE p == SuccessPath(run[r], status[run[r].target])
             rec == [run[r] EXCEPT !.pc = "apply", !.path = p]
  <2>1. \A i \in 1 .. Len(p) : p[i] \notin {"planning", "failed"}
    BY SuccessPathOK
  <2>2. run' = [run EXCEPT ![r] = rec] /\ run[r].pc # "free"
    BY <1>7 DEF ReadTask
  <2> HIDE DEF p
  <2>3. PathOK(rec) /\ rec.mode = run[r].mode /\ rec.target = run[r].target
    BY <1>0, <2>1 DEF Run, PathOK
  <2> HIDE DEF rec
  <2>4. QED
    BY <1>2, <2>2, <2>3
<1>8. CASE ApplyNext(r)
  <2> DEFINE path == run[r].path
             rest == Tail(path)
             rec == [run[r] EXCEPT !.path = rest]
             e == <<>>
             end == [run[r] EXCEPT !.pc = "siblings", !.path = e]
  <2>1. run[r].pc = "apply" /\ path \in Seq(Status) /\ path # <<>>
    BY <1>0, <1>8 DEF ApplyNext, RunOK, Run
  <2>2. /\ \A i \in 1 .. Len(rest) : i + 1 \in 1 .. Len(path) /\ rest[i] = path[i + 1]
    BY <2>1
  <2>3. \/ run' = [run EXCEPT ![r] = NoRun]
        \/ run' = [run EXCEPT ![r] = end]
        \/ run' = [run EXCEPT ![r] = rec]
    BY <1>8 DEF ApplyNext, AfterPath
  <2> HIDE DEF rest, e
  <2>4. PathOK(rec) /\ rec.mode = run[r].mode /\ rec.target = run[r].target
    BY <1>0, <2>1, <2>2 DEF Run, PathOK
  <2>5. PathOK(end) /\ end.mode = run[r].mode /\ end.target = run[r].target
    BY <1>0 DEF Run, PathOK
  <2> HIDE DEF rec, end
  <2>6. QED
    BY <1>2, <2>1, <2>3, <2>4, <2>5, NoRunPath
<1>9. CASE PauseTarget(r)
  <2> DEFINE p == <<"failed">>
             rec == [run[r] EXCEPT !.pc = "apply", !.path = p]
  <2>1. \A i \in 1 .. Len(p) : p[i] = "failed"
    OBVIOUS
  <2>2. /\ run[r].pc = "pause"
        /\ \/ run' = [run EXCEPT ![r] = rec]
           \/ run' = [run EXCEPT ![r] = NoRun]
    BY <1>9 DEF PauseTarget
  <2> HIDE DEF p
  <2>3. PathOK(rec) /\ rec.mode = run[r].mode /\ rec.target = run[r].target
    BY <1>0, <2>1, <2>2 DEF Run, PathOK
  <2> HIDE DEF rec
  <2>4. QED
    BY <1>2, <2>2, <2>3, NoRunPath
<1>10. CASE SnapshotSiblings(r)
  <2> DEFINE sibs == {s \in Siblings(run[r].target) : status[s] \in NotStarted}
             rec == [run[r] EXCEPT !.pc = "cascade", !.sibs = sibs]
  <2>1. /\ run[r].pc = "siblings"
        /\ \/ run' = [run EXCEPT ![r] = rec]
           \/ run' = [run EXCEPT ![r] = NoRun]
    BY <1>10 DEF SnapshotSiblings
  <2> HIDE DEF sibs
  <2>2. PathOK(rec) /\ rec.mode = run[r].mode /\ rec.target = run[r].target
    BY <1>0 DEF Run, PathOK
  <2> HIDE DEF rec
  <2>3. QED
    BY <1>2, <2>1, <2>2, NoRunPath
<1>11. ASSUME NEW s \in Tasks, PauseSibling(r, s)
       PROVE  (\A x \in RunIds : PathOK(run[x]))' /\ RunBegun'
  <2> DEFINE sibs == run[r].sibs \ {s}
             rec == [run[r] EXCEPT !.sibs = sibs]
  <2>1. run[r].pc = "cascade" /\ run' = [run EXCEPT ![r] = rec]
    BY <1>11 DEF PauseSibling
  <2> HIDE DEF sibs
  <2>2. PathOK(rec) /\ rec.mode = run[r].mode /\ rec.target = run[r].target
    BY <1>0, <2>1 DEF Run, PathOK
  <2> HIDE DEF rec
  <2>3. QED
    BY <1>2, <2>1, <2>2
<1>12. CASE PauseProposal(r) \/ UnpauseTarget(r)
  <2>1. run[r].pc # "free" /\ run' = [run EXCEPT ![r] = NoRun]
    BY <1>12 DEF PauseProposal, UnpauseTarget
  <2>2. QED
    BY <1>2, <2>1, NoRunPath
<1>13. QED
  BY <1>4, <1>5, <1>6, <1>7, <1>8, <1>9, <1>10, <1>11, <1>12 DEF RunStep

\* A new run is about to be registered; one of mode auto is the driver's.
LEMMA AddKeeps ==
    ASSUME LifecycleInv, [Next]_vars, NEW r \in RunIds, NEW role \in Roles, NEW t \in Tasks,
           NEW mode \in Modes, NEW by \in {"driver", "user"},
           AddAgentRun(r, role, t, mode, by),
           mode = "auto" => status[t] # "idea"
    PROVE  (\A x \in RunIds : PathOK(run[x]))' /\ RunBegun'
<1> DEFINE rec == [NoRun EXCEPT !.pc = "row", !.role = role, !.target = t,
                                !.mode = mode, !.by = by]
<1>1. run' = [run EXCEPT ![r] = rec]
  BY DEF AddAgentRun
<1>2. PathOK(rec) /\ rec.mode = mode /\ rec.target = t
  BY DEF NoRun, PathOK
<1>3. run \in [RunIds -> Run] /\ \A x \in RunIds : RunOK(run'[x])
  BY AddOK DEF LifecycleInv, TypeInv, TypeOK
<1> HIDE DEF rec
<1>4. RunOK(rec)
  BY <1>1, <1>3
<1>5. QED
  BY <1>1, <1>2, <1>4, RunChanges

LEMMA NextKeepsRuns ==
    ASSUME NoAutoRequests, LifecycleInv, [Next]_vars
    PROVE  (\A x \in RunIds : PathOK(run[x]))' /\ RunBegun'
<1>0. /\ run \in [RunIds -> Run] /\ (\A x \in RunIds : RunOK(run[x]))
      /\ (\A x \in RunIds : PathOK(run[x])) /\ DriverOK
  BY DEF LifecycleInv, TypeInv, TypeOK
<1>1. ASSUME run' = run
      PROVE  (\A x \in RunIds : PathOK(run[x]))' /\ RunBegun'
  <2>1. \A x \in RunIds : run[x].pc # "free" => run[x].target \in Tasks
    BY <1>0 DEF RunOK
  <2>2. QED
    BY <1>0, <1>1, <2>1, Kept DEF LifecycleInv, RunBegun, PathOK
<1>2. ASSUME NEW r \in RunIds, DriverSubmit(r)
      PROVE  (\A x \in RunIds : PathOK(run[x]))' /\ RunBegun'
  <2>1. /\ driver.phase \in Roles /\ driver.cur \in Tasks
        /\ AddAgentRun(r, driver.phase, driver.cur, "auto", "driver")
        /\ status[driver.cur] # "idea"
    BY <1>0, <1>2 DEF DriverSubmit, DriverOK, LifecycleInv, DriverBegun
  <2>2. QED
    BY <2>1, AddKeeps DEF Modes
<1>3. ASSUME NEW u \in Users, SubmitStep(u)
      PROVE  (\A x \in RunIds : PathOK(run[x]))' /\ RunBegun'
  <2>1. PICK r \in RunIds, t \in Tasks, role \in {"fr", "fi"} : StandaloneSubmit(u, r, t, role)
    BY <1>3 DEF SubmitStep
  <2>2. role \in Roles /\ "standalone" \in Modes
    BY DEF Roles, Modes
  <2>3. QED
    BY <2>1, <2>2, AddKeeps DEF StandaloneSubmit
<1>4. ASSUME NEW r \in RunIds, NEW t \in Tasks, NEW role \in Roles,
             NEW mode \in UserModes \cup {"manual"}, UserSubmit(r, role, t, mode)
      PROVE  (\A x \in RunIds : PathOK(run[x]))' /\ RunBegun'
  <2>1. mode \in Modes /\ mode # "auto"
    BY PipelineAssumption DEF Modes, NoAutoRequests
  <2>2. QED
    BY <1>4, <2>1, AddKeeps DEF UserSubmit
<1>5. ASSUME NEW r \in RunIds, UserCancel(r)
      PROVE  (\A x \in RunIds : PathOK(run[x]))' /\ RunBegun'
  <2> DEFINE rec == [run[r] EXCEPT !.cancel = TRUE]
  <2>1. run' = [run EXCEPT ![r] = rec] /\ run[r].pc # "free"
    BY <1>5 DEF UserCancel, Registered
  <2>2. /\ RunOK(rec) /\ PathOK(rec)
        /\ rec.mode = run[r].mode /\ rec.target = run[r].target
    BY <1>0 DEF RunOK, Run, PathOK
  <2> HIDE DEF rec
  <2>3. QED
    BY <2>1, <2>2, RunChanges
<1>6. CASE Crash
  <2> DEFINE lost(r) == [run[r] EXCEPT !.pc = "lost", !.cancel = FALSE, !.outcome = "none"]
  <2>1. ASSUME NEW r \in RunIds, RowRunning(r)
        PROVE  /\ PathOK(lost(r)) /\ run[r].pc # "free" /\ run[r].target \in Tasks
               /\ lost(r).mode = run[r].mode /\ lost(r).target = run[r].target
    BY <1>0, <2>1 DEF RowRunning, Run, PathOK, RunOK
  <2>2. run' = [r \in RunIds |-> IF RowRunning(r) THEN lost(r) ELSE NoRun]
    BY <1>6 DEF Crash
  <2> HIDE DEF lost
  <2>3. \A x \in RunIds : PathOK(run'[x])
    BY <2>1, <2>2, NoRunPath
  <2>4. ASSUME NEW x \in RunIds, run'[x].mode = "auto", run'[x].pc # "free"
        PROVE  status'[run'[x].target] # "idea"
    BY <2>1, <2>2, <2>4, NoRunPath, Kept DEF LifecycleInv, RunBegun
  <2>5. QED
    BY <2>3, <2>4 DEF RunBegun, PathOK
<1>7. CASE DriverStep /\ ~(\E r \in RunIds : DriverSubmit(r))
  <2>1. run' = run
    BY <1>7 DEF DriverStep, DriverReadTasks, DriverReadRows, DriverPromote,
                DriverCheckPlanned, DriverCheckTask, DriverAssign
  <2>2. QED
    BY <1>1, <2>1
<1>8. CASE \E u \in Users : RequestStep(u)
  <2>1. run' = run
    BY <1>8 DEF RequestStep, Accept, MarkDone, Reject, Reassign, RetryMove, RequestMove,
                FastForward, AcceptReadReady, AcceptPromote, RetryResume, NoBranch
  <2>2. QED
    BY <1>1, <2>1
<1>9. CASE PeopleStep
  <2>1. CASE run' = run
    BY <1>1, <2>1
  <2>2. CASE run' # run
    BY <1>4, <1>5, <1>9, <2>2 DEF PeopleStep, StartReview, StartRetry, StartStandalone,
                                  UserUnpause
  <2>3. QED
    BY <2>1, <2>2
<1>10. CASE UNCHANGED vars
  BY <1>1, <1>10 DEF vars
<1>11. QED
  BY <1>2, <1>3, <1>6, <1>7, <1>8, <1>9, <1>10, RunStepKeeps DEF Next

-----------------------------------------------------------------------------
LEMMA NextKeepsDriver ==
    ASSUME LifecycleInv, [Next]_vars
    PROVE  DriverBegun'
<1>0. /\ driver.todo \subseteq Tasks /\ driver.phase \in Phases /\ DriverOK /\ DriverBegun
      /\ driver \in Driver
  BY DEF LifecycleInv, TypeInv, TypeOK, Driver
<1>1. ASSUME driver'.phase = driver.phase, driver'.todo \subseteq driver.todo,
             driver'.pc = "submit" =>
                driver'.cur \in Tasks /\ status[driver'.cur] # "idea"
      PROVE  DriverBegun'
  BY <1>0, <1>1, Kept DEF DriverBegun
<1>2. ASSUME NEW p, driver' = AtPhase(p)
      PROVE  DriverBegun'
  BY <1>2 DEF AtPhase, DriverBegun
<1>3. ASSUME NEW todo \in SUBSET driver.todo, driver' = Continue(todo)
      PROVE  DriverBegun'
  <2>1. CASE todo = {}
    BY <1>2, <1>3, <2>1 DEF Continue
  <2>2. CASE todo # {}
    BY <1>0, <1>1, <1>3, <2>2 DEF Continue, Driver
  <2>3. QED
    BY <2>1, <2>2
<1>4. CASE driver' = driver
  BY <1>0, <1>1, <1>4 DEF DriverOK, DriverBegun
<1>5. CASE DriverReadTasks
  <2> DEFINE snap == Snapshot(driver.phase)
             pc == IF driver.phase \in Roles THEN "rows" ELSE "each"
  <2>1. CASE snap = {}
    BY <1>2, <1>5, <2>1 DEF DriverReadTasks
  <2>2. CASE snap # {}
    <3>1. /\ driver' = [driver EXCEPT !.pc = pc, !.todo = snap]
          /\ status' = status /\ pc # "submit"
      BY <1>5, <2>2 DEF DriverReadTasks
    <3>2. IF driver.phase = "promote"
            THEN \A t \in snap : \A d \in Deps[t] : status[d] = "done"
            ELSE \A t \in snap : status[t] # "idea"
      BY <1>0 DEF Snapshot, Ready, WithStatus, Phases
    <3> HIDE DEF snap, pc
    <3>3. QED
      BY <1>0, <3>1, <3>2 DEF DriverBegun, Driver
  <2>3. QED
    BY <2>1, <2>2
<1>6. CASE DriverReadRows
  BY <1>3, <1>6 DEF DriverReadRows
<1>7. ASSUME NEW t \in Tasks, DriverPromote(t)
      PROVE  DriverBegun'
  BY <1>2, <1>3, <1>7 DEF DriverPromote
<1>8. ASSUME NEW t \in Tasks, DriverCheckPlanned(t)
      PROVE  DriverBegun'
  <2>1. CASE driver' = Continue(driver.todo \ {t})
    BY <1>3, <2>1
  <2>2. CASE driver' = [driver EXCEPT !.pc = "move", !.cur = t, !.todo = @ \ {t}]
    BY <1>0, <1>1, <2>2 DEF Driver
  <2>3. QED
    BY <1>8, <2>1, <2>2 DEF DriverCheckPlanned
<1>9. CASE DriverAssign
  BY <1>2, <1>3, <1>9 DEF DriverAssign
<1>10. ASSUME NEW t \in Tasks, DriverCheckTask(t)
       PROVE  DriverBegun'
  <2>1. CASE driver' = Continue(driver.todo \ {t})
    BY <1>3, <2>1
  <2>2. CASE driver' = AtPhase(NextPhase[driver.phase])
    BY <1>2, <2>2
  <2>3. CASE driver' = [driver EXCEPT !.pc = "submit", !.cur = t, !.todo = @ \ {t}]
    <3>1. status[t] # "idea"
      BY <1>0, <1>10 DEF DriverCheckTask, DriverBegun, Roles
    <3>2. QED
      BY <1>0, <1>1, <2>3, <3>1 DEF Driver
  <2>4. QED
    BY <1>10, <2>1, <2>2, <2>3 DEF DriverCheckTask
<1>11. ASSUME NEW r \in RunIds, DriverSubmit(r)
       PROVE  DriverBegun'
  BY <1>0, <1>1, <1>11 DEF DriverSubmit, Driver
<1>12. ASSUME NEW r \in RunIds, RunStep(r)
       PROVE  DriverBegun'
  <2>1. driver' = driver \/ driver' = Continue(driver.todo)
    BY <1>12 DEF RunStep, Register, GrantFiLock, RunnerReturns, FinishRow, ReadTask,
                 ApplyNext, PauseTarget, SnapshotSiblings, PauseSibling,
                 PauseProposal, UnpauseTarget
  <2>2. QED
    BY <1>3, <1>4, <2>1
<1>13. CASE \E u \in Users : RequestStep(u) \/ SubmitStep(u)
  <2>1. driver' = driver
    BY <1>13 DEF RequestStep, Accept, MarkDone, Reject, Reassign, RetryMove, RequestMove,
                 FastForward, AcceptReadReady, AcceptPromote, RetryResume, NoBranch,
                 SubmitStep, StandaloneSubmit
  <2>2. QED
    BY <1>4, <2>1
<1>14. CASE PeopleStep
  <2>1. driver' = driver
    BY <1>14 DEF PeopleStep, StartReview, StartRetry, StartStandalone, UserSubmit,
                 UserCancel, UserUnpause
  <2>2. QED
    BY <1>4, <2>1
<1>15. CASE Crash
  BY <1>2, <1>15 DEF Crash
<1>16. CASE UNCHANGED vars
  BY <1>4, <1>16 DEF vars
<1>17. QED
  BY <1>5, <1>6, <1>7, <1>8, <1>9, <1>10, <1>11, <1>12, <1>13, <1>14, <1>15, <1>16
     DEF Next, DriverStep

-----------------------------------------------------------------------------
\* One request changes, to one whose reading holds now.
LEMMA RequestChanges ==
    ASSUME LifecycleInv, [Next]_vars, NEW u \in Users, NEW q \in Request, Begun(q),
           user' = [user EXCEPT ![u] = q]
    PROVE  UserBegun'
<1>1. user \in [Users -> Request] /\ UserBegun
  BY DEF LifecycleInv, TypeInv, TypeOK
<1>2. ASSUME NEW p \in Request, Begun(p)
      PROVE  /\ p.op # "idle" => p.task \in Tasks
             /\ p.op = "promoting" =>
                  \A t \in p.todo : \A d \in Deps[t] : status'[d] = "done"
             /\ p.op = "retry" => status'[p.task] # "idea"
             /\ p.op = "toPlanning" => Deps[p.task] = {}
  BY <1>2, Kept DEF Begun, Request
<1>3. ASSUME NEW v \in Users
      PROVE  \E p \in Request : Begun(p) /\ user'[v] = p
  BY <1>1 DEF UserBegun
<1>4. QED
  BY <1>2, <1>3 DEF UserBegun, Begun

LEMMA IdleBegun == Idle \in Request /\ Begun(Idle)
BY IdleType DEF Idle, Begun

\* A request that makes a transition goes on to one of these steps or ends.
LEMMA RequestMoveBegun ==
    ASSUME LifecycleInv, [Next]_vars, NEW u \in Users, NEW op, NEW to, NEW nextOp,
           nextOp \in {"idle", "merge", "promote", "reassign", "resume", "toPlanned",
                      "toAssigned", "toInProgress", "toImplemented", "submit"},
           op # "idle", RequestMove(u, op, to, nextOp)
    PROVE  UserBegun'
<1> DEFINE q == [user[u] EXCEPT !.op = nextOp]
<1>1. user[u] \in Request /\ user[u].op = op /\ user[u].task \in Tasks
  BY DEF RequestMove, LifecycleInv, TypeInv, TypeOK, UserBegun, Begun
<1>2. q \in Request /\ Begun(q)
  BY <1>1 DEF Request, StandaloneOps, Begun
<1>3. user' = [user EXCEPT ![u] = q] \/ user' = [user EXCEPT ![u] = Idle]
  BY DEF RequestMove
<1> HIDE DEF q
<1>4. QED
  BY <1>2, <1>3, IdleBegun, RequestChanges

LEMMA RequestStepBegun ==
    ASSUME LifecycleInv, [Next]_vars, NEW u \in Users, RequestStep(u)
    PROVE  UserBegun'
<1>0. user[u] \in Request /\ Begun(user[u])
  BY DEF LifecycleInv, TypeInv, TypeOK, UserBegun
<1>1. CASE Accept(u) \/ MarkDone(u) \/ Reject(u) \/ Reassign(u) \/ RetryMove(u)
  BY <1>1, RequestMoveBegun DEF Accept, MarkDone, Reject, Reassign, RetryMove
<1>2. CASE FastForward(u)
  <2>1. PICK op \in {"toPlanning", "toPlanned", "toAssigned", "toInProgress", "toImplemented"},
             to \in Status,
             nextOp \in {"toPlanned", "toAssigned", "toInProgress", "toImplemented", "submit"} :
          RequestMove(u, op, to, nextOp)
    BY <1>2 DEF FastForward, Status
  <2>2. QED
    BY <2>1, RequestMoveBegun
<1>3. CASE AcceptReadReady(u)
  <2> DEFINE q == [user[u] EXCEPT !.op = "promoting", !.todo = Ready]
  <2>1. q \in Request /\ Begun(q)
    BY <1>0, <1>3 DEF AcceptReadReady, Request, Begun, Ready
  <2>2. user' = [user EXCEPT ![u] = q] \/ user' = [user EXCEPT ![u] = Idle]
    BY <1>3 DEF AcceptReadReady
  <2> HIDE DEF q
  <2>3. QED
    BY <2>1, <2>2, IdleBegun, RequestChanges
<1>4. ASSUME NEW t \in Tasks, AcceptPromote(u, t)
      PROVE  UserBegun'
  <2> DEFINE q == [user[u] EXCEPT !.todo = @ \ {t}]
  <2>1. q \in Request /\ Begun(q)
    BY <1>0, <1>4 DEF AcceptPromote, Request, Begun
  <2>2. user' = [user EXCEPT ![u] = q] \/ user' = [user EXCEPT ![u] = Idle]
    BY <1>4 DEF AcceptPromote
  <2> HIDE DEF q
  <2>3. QED
    BY <2>1, <2>2, IdleBegun, RequestChanges
<1>5. CASE RetryResume(u) \/ NoBranch(u)
  BY <1>5, IdleBegun, RequestChanges DEF RetryResume, NoBranch
<1>6. QED
  BY <1>1, <1>2, <1>3, <1>4, <1>5 DEF RequestStep

\* A request that a person starts.
LEMMA BeginBegun ==
    ASSUME LifecycleInv, [Next]_vars, NEW u \in Users, NEW t \in Tasks,
           NEW op \in {"accept", "reject", "retry", "toPlanning"},
           NEW role \in {"fr", "fi", "none"}, Begin(u, op, t, role),
           op = "retry" => status[t] # "idea",
           op = "toPlanning" => Deps[t] = {}
    PROVE  UserBegun'
<1> DEFINE q == [op |-> op, task |-> t, todo |-> {}, role |-> role]
<1>1. q \in Request /\ Begun(q)
  BY DEF Request, StandaloneOps, Begun
<1>2. user' = [user EXCEPT ![u] = q]
  BY DEF Begin
<1> HIDE DEF q
<1>3. QED
  BY <1>1, <1>2, RequestChanges

LEMMA NextKeepsUsers ==
    ASSUME LifecycleInv, [Next]_vars
    PROVE  UserBegun'
<1>1. CASE user' = user
  <2>1. CASE Users = {}
    BY <2>1 DEF UserBegun
  <2>2. ASSUME NEW u \in Users
        PROVE  UserBegun'
    <3>1. user[u] \in Request /\ Begun(user[u]) /\ user' = [user EXCEPT ![u] = user[u]]
      BY <1>1 DEF LifecycleInv, TypeInv, TypeOK, UserBegun
    <3>2. QED
      BY <3>1, RequestChanges
  <2>3. QED
    BY <2>1, <2>2
<1>2. CASE \/ \E r \in RunIds : RunStep(r)
           \/ DriverStep \/ UNCHANGED vars
  <2>1. user' = user
    BY <1>2 DEF RunStep, Register, GrantFiLock, RunnerReturns, FinishRow, ReadTask,
                ApplyNext, PauseTarget, SnapshotSiblings, PauseSibling,
                PauseProposal, UnpauseTarget, DriverStep, DriverReadTasks,
                DriverReadRows, DriverPromote, DriverCheckPlanned, DriverCheckTask,
                DriverAssign, DriverSubmit, vars
  <2>2. QED
    BY <1>1, <2>1
<1>3. ASSUME NEW u \in Users, SubmitStep(u)
      PROVE  UserBegun'
  BY <1>3, IdleBegun, RequestChanges DEF SubmitStep, StandaloneSubmit
<1>4. ASSUME NEW u \in Users, NEW t \in Tasks, NEW op \in UserOps, StartReview(u, t, op)
      PROVE  UserBegun'
  BY <1>4, BeginBegun DEF StartReview
<1>5. ASSUME NEW u \in Users, NEW t \in Tasks, StartRetry(u, t)
      PROVE  UserBegun'
  BY <1>5, BeginBegun DEF StartRetry
<1>6. ASSUME NEW u \in Users, NEW t \in Tasks, NEW role \in {"fr", "fi"},
             StartStandalone(u, t, role)
      PROVE  UserBegun'
  BY <1>6, BeginBegun DEF StartStandalone
<1>7. CASE \/ \E r \in RunIds, t \in Tasks, role \in Roles, mode \in UserModes \cup {"manual"} :
                UserSubmit(r, role, t, mode)
           \/ \E r \in RunIds : UserCancel(r)
           \/ \E x \in Tasks \cup Proposals : UserUnpause(x)
  <2>1. user' = user
    BY <1>7 DEF UserSubmit, UserCancel, UserUnpause
  <2>2. QED
    BY <1>1, <2>1
<1>8. CASE Crash
  BY <1>8, IdleBegun DEF Crash, UserBegun, Begun, Idle
<1>9. QED
  BY <1>2, <1>3, <1>4, <1>5, <1>6, <1>7, <1>8, RequestStepBegun DEF Next, PeopleStep

-----------------------------------------------------------------------------
LEMMA InitLifecycle == Init => LifecycleInv
<1> SUFFICES ASSUME Init PROVE LifecycleInv
  OBVIOUS
<1>1. (\A r \in RunIds : PathOK(run[r])) /\ RunBegun
  BY NoRunPath DEF Init, RunBegun
<1>2. DriverBegun /\ UserBegun
  BY IdleBegun DEF Init, AtPhase, DriverBegun, UserBegun, Idle
<1>3. QED
  BY <1>1, <1>2, InitType DEF LifecycleInv

LEMMA NextLifecycle == NoAutoRequests /\ LifecycleInv /\ [Next]_vars => LifecycleInv'
<1> SUFFICES ASSUME NoAutoRequests, LifecycleInv, [Next]_vars PROVE LifecycleInv'
  OBVIOUS
<1>1. TypeInv'
  BY NextType DEF LifecycleInv
<1>2. QED
  BY <1>1, NextKeepsRuns, NextKeepsDriver, NextKeepsUsers DEF LifecycleInv

\* An advance is a step of the lifecycle.
LEMMA AdvancesMoves == Advances => [Lifecycle!Next]_status
BY DEF Advances, Advance, Lifecycle!Next, Lifecycle!Move, Lifecycle!CanMove,
       Lifecycle!DepsDone, Lifecycle!TRANSITIONS, Lifecycle!Status,
       CanMove, TRANSITIONS, Status

\* Pipeline implements TaskLifecycle when people submit no auto runs: for any
\* number of runs, requests and restarts, a task takes one edge of the table at
\* a time and leaves the idea state only for planning and only when everything
\* it depends on is done, although the driver, accept requests, retries and
\* standalone requests all act on what they read earlier.
THEOREM Refinement ==
    ASSUME NoAutoRequests
    PROVE  Spec => LifecycleSpec
<1>1. Init => Lifecycle!Init
  BY DEF Init, Lifecycle!Init
<1>2. LifecycleInv /\ [Next]_vars => [Lifecycle!Next]_status
  BY NextAdvances, AdvancesMoves
<1>3. LifecycleInv /\ [Next]_vars => LifecycleInv'
  BY NextLifecycle
<1>4. QED
  BY <1>1, <1>2, <1>3, InitLifecycle, PTL DEF Spec, LifecycleSpec, Lifecycle!Spec

=============================================================================
