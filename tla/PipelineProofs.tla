--------------------------- MODULE PipelineProofs ---------------------------
(***************************************************************************)
(* Theorems about Pipeline, for any set of tasks, proposals, requests and  *)
(* run ids and any caps.                                                   *)
(***************************************************************************)
EXTENDS PipelineProperties, TLAPS

\* What the types leave out: an unfinished run has a task, one that is about to
\* make a transition has one to make, one that pauses a proposal has a proposal.
RunOK(rec) ==
    /\ rec \in Run
    /\ rec.pc # "free" => rec.target \in Tasks
    /\ rec.pc = "apply" => rec.path # <<>>
    /\ rec.pc = "cascade" => ProposalOf[rec.target] \in Proposals

\* Between its check and its call the driver has a task, in a phase for it.
DriverOK ==
    /\ driver.pc \in {"move", "submit"} => driver.cur \in Tasks
    /\ driver.pc \in {"rows", "submit", "register"} => driver.phase \in Roles

TypeInv ==
    /\ TypeOK
    /\ \A r \in RunIds : RunOK(run[r])
    /\ DriverOK

-----------------------------------------------------------------------------
\* The table only leads to statuses.
LEMMA MoveType ==
    ASSUME NEW s \in Status, NEW to, CanMove(s, to)
    PROVE  to \in Status
BY DEF CanMove, TRANSITIONS, Status

LEMMA NoRunOK == RunOK(NoRun)
<1>1. NoRun \in Run
  BY DEF NoRun, Run, RunPC, Roles, Modes, AllOutcomes
<1>2. NoRun.pc = "free"
  BY DEF NoRun
<1>3. QED
  BY <1>1, <1>2 DEF RunOK

LEMMA AtPhaseType ==
    ASSUME NEW p \in Phases
    PROVE  AtPhase(p) \in Driver /\ AtPhase(p).pc = "tasks" /\ NextPhase[p] \in Phases
BY DEF AtPhase, Driver, Phases, NextPhase

LEMMA ContinueType ==
    ASSUME TypeOK, NEW todo \in SUBSET Tasks
    PROVE  Continue(todo) \in Driver /\ Continue(todo).pc \in {"tasks", "each"}
BY AtPhaseType DEF Continue, Driver, TypeOK

\* What _finish does next is a run again, and has a transition to make if it
\* is one that makes transitions.
LEMMA AfterRowOK ==
    ASSUME NEW rec, RunOK(rec), rec.pc = "finish"
    PROVE  RunOK(AfterRow(rec))
<1> DEFINE p == <<"planned">>
           planned == [rec EXCEPT !.pc = "apply", !.path = p]
<1>1. p \in Seq(Status) /\ p # <<>>
  BY DEF Status
<1>2. AfterRow(rec) \in {planned, [rec EXCEPT !.pc = "read"],
                         [rec EXCEPT !.pc = "unpause"], [rec EXCEPT !.pc = "pause"], NoRun}
  BY DEF AfterRow, AfterSuccess
<1> HIDE DEF p
<1>3. {"apply", "read", "unpause", "pause"} \subseteq RunPC
  BY DEF RunPC
<1>5. RunOK(planned)
  BY <1>1, <1>3 DEF RunOK, Run
<1>6. ASSUME NEW pc \in {"read", "unpause", "pause"}
      PROVE  RunOK([rec EXCEPT !.pc = pc])
  BY <1>3 DEF RunOK, Run
<1> HIDE DEF planned
<1>7. QED
  BY <1>2, NoRunOK, <1>5, <1>6

\* The transitions a success leads to are statuses, and there is at least one.
LEMMA SuccessPathType ==
    ASSUME NEW rec \in Run, NEW s \in Status
    PROVE  SuccessPath(rec, s) \in Seq(Status) /\ SuccessPath(rec, s) # <<>>
<1>1. \/ SuccessPath(rec, s) = <<"in_progress", "implemented">>
      \/ SuccessPath(rec, s) = <<"implemented">>
      \/ SuccessPath(rec, s) = <<"testing", "review", "rejected">>
      \/ SuccessPath(rec, s) = <<"testing", "review">>
      \/ SuccessPath(rec, s) = <<"review", "rejected">>
      \/ SuccessPath(rec, s) = <<"review">>
  BY Zenon DEF SuccessPath
<1>2. CASE SuccessPath(rec, s) = <<"in_progress", "implemented">>
  BY <1>2 DEF Status
<1>3. CASE SuccessPath(rec, s) = <<"implemented">>
  BY <1>3 DEF Status
<1>4. CASE SuccessPath(rec, s) = <<"testing", "review", "rejected">>
  BY <1>4 DEF Status
<1>5. CASE SuccessPath(rec, s) = <<"testing", "review">>
  BY <1>5 DEF Status
<1>6. CASE SuccessPath(rec, s) = <<"review", "rejected">>
  BY <1>6 DEF Status
<1>7. CASE SuccessPath(rec, s) = <<"review">>
  BY <1>7 DEF Status
<1>8. QED
  BY <1>1, <1>2, <1>3, <1>4, <1>5, <1>6, <1>7

\* After its last transition a run is done or goes on to the cascade.
LEMMA AfterPathOK ==
    ASSUME NEW rec, RunOK(rec), rec.pc = "apply"
    PROVE  RunOK(AfterPath(rec))
<1> DEFINE p == <<>>
           rest == [rec EXCEPT !.pc = "siblings", !.path = p]
<1>1. p \in Seq(Status)
  OBVIOUS
<1>2. AfterPath(rec) \in {rest, NoRun}
  BY DEF AfterPath
<1> HIDE DEF p
<1>3. "siblings" \in RunPC
  BY DEF RunPC
<1>4. RunOK(rest)
  BY <1>1, <1>3 DEF RunOK, Run
<1> HIDE DEF rest
<1>5. QED
  BY <1>2, <1>4, NoRunOK

\* A run that moves on without its record changing otherwise.
LEMMA PCOK ==
    ASSUME NEW rec, RunOK(rec), rec.pc # "free",
           NEW pc \in RunPC \ {"apply", "cascade"}
    PROVE  RunOK([rec EXCEPT !.pc = pc])
BY DEF RunOK, Run

-----------------------------------------------------------------------------
\* One run changes, to a record that is a run.
LEMMA RunUpdate ==
    ASSUME TypeInv, NEW r \in RunIds, NEW rec, RunOK(rec),
           run' = [run EXCEPT ![r] = rec]
    PROVE  run' \in [RunIds -> Run] /\ \A x \in RunIds : RunOK(run'[x])
BY DEF TypeInv, TypeOK, RunOK

\* The row of a new run.
LEMMA AddOK ==
    ASSUME TypeInv, NEW r \in RunIds, NEW role \in Roles, NEW t \in Tasks,
           NEW mode \in Modes, NEW by \in {"driver", "user"},
           AddAgentRun(r, role, t, mode, by)
    PROVE  /\ run' \in [RunIds -> Run] /\ \A x \in RunIds : RunOK(run'[x])
           /\ planRun' \subseteq Tasks
<1> DEFINE rec == [NoRun EXCEPT !.pc = "row", !.role = role, !.target = t,
                                !.mode = mode, !.by = by]
<1>1. RunOK(rec)
  <2>1. "row" \in RunPC
    BY DEF RunPC
  <2>2. NoRun \in Run
    BY NoRunOK DEF RunOK
  <2> HIDE DEF NoRun
  <2>3. QED
    BY <2>1, <2>2 DEF Run, RunOK
<1>2. run' = [run EXCEPT ![r] = rec]
  BY DEF AddAgentRun
<1> HIDE DEF rec
<1>3. run' \in [RunIds -> Run] /\ \A x \in RunIds : RunOK(run'[x])
  BY <1>1, <1>2, RunUpdate
<1>4. QED
  BY <1>3 DEF AddAgentRun, TypeInv, TypeOK

-----------------------------------------------------------------------------
\* A step of a run keeps the types.
LEMMA RunStepType ==
    ASSUME TypeInv, NEW r \in RunIds, RunStep(r)
    PROVE  TypeInv'
<1>0. /\ status \in [Tasks -> Status] /\ paused \subseteq Tasks \cup Proposals
      /\ planRun \subseteq Tasks /\ run \in [RunIds -> Run]
      /\ fiLock \in RunIds \cup {NoRunId} /\ fiWaiters \in Seq(RunIds)
      /\ driver \in Driver /\ user \in [Users -> Request]
      /\ RunOK(run[r]) /\ DriverOK /\ TypeOK
  BY DEF TypeInv, TypeOK
<1>1. CASE Register(r)
  <2>1. ASSUME NEW pc \in {"waiting", "running"}
        PROVE  RunOK([run[r] EXCEPT !.pc = pc])
    BY <1>0, <1>1, PCOK DEF Register, RunPC
  <2>2. \E pc \in {"waiting", "running"} : run' = [run EXCEPT ![r] = [run[r] EXCEPT !.pc = pc]]
    BY <1>1 DEF Register
  <2>3. run' \in [RunIds -> Run] /\ \A x \in RunIds : RunOK(run'[x])
    BY <2>1, <2>2, RunUpdate
  <2>4. fiWaiters' \in Seq(RunIds) /\ fiLock' \in RunIds \cup {NoRunId}
    <3>1. fiWaiters' \in {fiWaiters, Append(fiWaiters, r)} /\ fiLock' \in {fiLock, r}
      BY <1>1 DEF Register
    <3>2. Append(fiWaiters, r) \in Seq(RunIds) /\ fiWaiters \in Seq(RunIds)
      BY <1>0
    <3>3. QED
      BY <1>0, <3>1, <3>2
  <2>5. driver' \in Driver /\ DriverOK'
    <3>1. driver.todo \in SUBSET Tasks
      BY <1>0 DEF Driver
    <3>2. CASE driver' = driver
      BY <1>0, <3>2 DEF DriverOK
    <3>3. CASE driver' = Continue(driver.todo)
      BY <1>0, <3>1, <3>3, ContinueType DEF DriverOK
    <3>4. QED
      BY <1>1, <3>2, <3>3 DEF Register
  <2>6. QED
    BY <1>0, <1>1, <2>3, <2>4, <2>5 DEF Register, TypeOK, TypeInv
<1>2. CASE GrantFiLock(r)
  <2>1. RunOK([run[r] EXCEPT !.pc = "running"])
    BY <1>0, <1>2, PCOK DEF GrantFiLock, RunPC
  <2>2. run' \in [RunIds -> Run] /\ \A x \in RunIds : RunOK(run'[x])
    BY <1>2, <2>1, RunUpdate DEF GrantFiLock
  <2>3. fiWaiters' \in Seq(RunIds) /\ fiLock' \in RunIds
    BY <1>0, <1>2 DEF GrantFiLock
  <2>4. QED
    BY <1>0, <1>2, <2>2, <2>3 DEF GrantFiLock, TypeOK, TypeInv, DriverOK
<1>3. ASSUME NEW o \in AllOutcomes, RunnerReturns(r, o)
      PROVE  TypeInv'
  <2> DEFINE rec == [run[r] EXCEPT !.pc = "finish", !.outcome = o]
  <2>1. RunOK(rec)
    <3>1. "finish" \in RunPC /\ run[r].pc = "running"
      BY <1>3 DEF RunPC, RunnerReturns
    <3>2. QED
      BY <1>0, <3>1 DEF Run, RunOK
  <2>2. run' = [run EXCEPT ![r] = rec]
    BY <1>3 DEF RunnerReturns
  <2> HIDE DEF rec
  <2>3. run' \in [RunIds -> Run] /\ \A x \in RunIds : RunOK(run'[x])
    BY <2>1, <2>2, RunUpdate
  <2>4. QED
    BY <1>0, <1>3, <2>3 DEF RunnerReturns, TypeOK, TypeInv, DriverOK
<1>4. CASE FinishRow(r)
  <2>1. run' \in [RunIds -> Run] /\ \A x \in RunIds : RunOK(run'[x])
    BY <1>0, <1>4, AfterRowOK, RunUpdate DEF FinishRow
  <2>2. QED
    BY <1>0, <1>4, <2>1 DEF FinishRow, TypeOK, TypeInv, DriverOK
<1>5. CASE ReadTask(r)
  <2> DEFINE p == SuccessPath(run[r], status[run[r].target])
             rec == [run[r] EXCEPT !.pc = "apply", !.path = p]
  <2>1. p \in Seq(Status) /\ p # <<>>
    BY <1>0, <1>5, SuccessPathType DEF ReadTask, RunOK
  <2>2. RunOK(rec)
    <3>1. "apply" \in RunPC /\ run[r].pc = "read"
      BY <1>5 DEF RunPC, ReadTask
    <3> HIDE DEF p
    <3>2. QED
      BY <1>0, <2>1, <3>1 DEF Run, RunOK
  <2>3. run' = [run EXCEPT ![r] = rec]
    BY <1>5 DEF ReadTask
  <2> HIDE DEF rec
  <2>4. run' \in [RunIds -> Run] /\ \A x \in RunIds : RunOK(run'[x])
    BY <2>2, <2>3, RunUpdate
  <2>5. QED
    BY <1>0, <1>5, <2>4 DEF ReadTask, TypeOK, TypeInv, DriverOK
<1>6. CASE ApplyNext(r)
  <2> DEFINE path == run[r].path
             rec == [run[r] EXCEPT !.path = Tail(path)]
  <2>1. run[r].pc = "apply" /\ path \in Seq(Status) /\ path # <<>>
    BY <1>0, <1>6 DEF ApplyNext, RunOK, Run
  <2>2. Head(path) \in Status /\ Tail(path) \in Seq(Status)
    BY <2>1
  <2>3. status' \in [Tasks -> Status]
    BY <1>0, <1>6, <2>2 DEF ApplyNext
  <2>4. ASSUME Tail(path) # <<>>
        PROVE  RunOK(rec)
    BY <1>0, <2>1, <2>2, <2>4 DEF RunOK, Run
  <2>5. RunOK(AfterPath(run[r]))
    BY <1>0, <2>1, AfterPathOK
  <2>6. \/ run' = [run EXCEPT ![r] = NoRun]
        \/ run' = [run EXCEPT ![r] = AfterPath(run[r])]
        \/ Tail(path) # <<>> /\ run' = [run EXCEPT ![r] = rec]
    BY <1>6 DEF ApplyNext
  <2> HIDE DEF rec
  <2>7. run' \in [RunIds -> Run] /\ \A x \in RunIds : RunOK(run'[x])
    BY <2>4, <2>5, <2>6, NoRunOK, RunUpdate
  <2>8. QED
    BY <1>0, <1>6, <2>3, <2>7 DEF ApplyNext, TypeOK, TypeInv, DriverOK
<1>7. CASE PauseTarget(r)
  <2> DEFINE p == <<"failed">>
             rec == [run[r] EXCEPT !.pc = "apply", !.path = p]
  <2>1. p \in Seq(Status) /\ p # <<>>
    BY DEF Status
  <2>2. run' = [run EXCEPT ![r] = rec] \/ run' = [run EXCEPT ![r] = NoRun]
    BY <1>7 DEF PauseTarget
  <2> HIDE DEF p
  <2>3. "apply" \in RunPC /\ run[r].pc = "pause"
    BY <1>7 DEF RunPC, PauseTarget
  <2>4. RunOK(rec) /\ run[r].target \in Tasks
    BY <1>0, <2>1, <2>3 DEF RunOK, Run
  <2> HIDE DEF rec
  <2>5. run' \in [RunIds -> Run] /\ \A x \in RunIds : RunOK(run'[x])
    BY <2>2, <2>4, NoRunOK, RunUpdate
  <2>6. QED
    BY <1>0, <1>7, <2>4, <2>5 DEF PauseTarget, TypeOK, TypeInv, DriverOK
<1>8. CASE SnapshotSiblings(r)
  <2> DEFINE sibs == {s \in Siblings(run[r].target) : status[s] \in NotStarted}
             rec == [run[r] EXCEPT !.pc = "cascade", !.sibs = sibs]
  <2>1. sibs \in SUBSET Tasks
    BY DEF Siblings
  <2>2. \/ run' = [run EXCEPT ![r] = NoRun]
        \/ ProposalOf[run[r].target] # NoProposal /\ run' = [run EXCEPT ![r] = rec]
    BY <1>8 DEF SnapshotSiblings
  <2> HIDE DEF sibs
  <2>3. "cascade" \in RunPC /\ run[r].pc = "siblings"
    BY <1>8 DEF RunPC, SnapshotSiblings
  <2>4. ASSUME ProposalOf[run[r].target] # NoProposal
        PROVE  RunOK(rec)
    BY <1>0, <2>1, <2>3, <2>4, PipelineAssumption DEF RunOK, Run
  <2> HIDE DEF rec
  <2>5. run' \in [RunIds -> Run] /\ \A x \in RunIds : RunOK(run'[x])
    BY <2>2, <2>4, NoRunOK, RunUpdate
  <2>6. QED
    BY <1>0, <1>8, <2>5 DEF SnapshotSiblings, TypeOK, TypeInv, DriverOK
<1>9. ASSUME NEW s \in Tasks, PauseSibling(r, s)
      PROVE  TypeInv'
  <2> DEFINE sibs == run[r].sibs \ {s}
             rec == [run[r] EXCEPT !.sibs = sibs]
  <2>1. sibs \in SUBSET Tasks
    BY <1>0 DEF RunOK, Run
  <2>2. run' = [run EXCEPT ![r] = rec]
    BY <1>9 DEF PauseSibling
  <2> HIDE DEF sibs
  <2>3. RunOK(rec)
    BY <1>0, <2>1 DEF RunOK, Run
  <2> HIDE DEF rec
  <2>4. run' \in [RunIds -> Run] /\ \A x \in RunIds : RunOK(run'[x])
    BY <2>2, <2>3, RunUpdate
  <2>5. QED
    BY <1>0, <1>9, <2>4 DEF PauseSibling, TypeOK, TypeInv, DriverOK
<1>10. CASE PauseProposal(r)
  <2>1. run' \in [RunIds -> Run] /\ \A x \in RunIds : RunOK(run'[x])
    BY <1>10, NoRunOK, RunUpdate DEF PauseProposal
  <2>2. QED
    BY <1>0, <1>10, <2>1 DEF PauseProposal, TypeOK, TypeInv, DriverOK, RunOK
<1>11. CASE UnpauseTarget(r)
  <2>1. run' \in [RunIds -> Run] /\ \A x \in RunIds : RunOK(run'[x])
    BY <1>11, NoRunOK, RunUpdate DEF UnpauseTarget
  <2>2. QED
    BY <1>0, <1>11, <2>1 DEF UnpauseTarget, TypeOK, TypeInv, DriverOK
<1>12. QED
  BY <1>1, <1>2, <1>3, <1>4, <1>5, <1>6, <1>7, <1>8, <1>9, <1>10, <1>11 DEF RunStep

\* A step of the driver keeps the types.
LEMMA DriverStepType ==
    ASSUME TypeInv, DriverStep
    PROVE  TypeInv'
<1>0. /\ status \in [Tasks -> Status] /\ paused \subseteq Tasks \cup Proposals
      /\ planRun \subseteq Tasks /\ run \in [RunIds -> Run]
      /\ driver \in Driver /\ user \in [Users -> Request]
      /\ (\A x \in RunIds : RunOK(run[x])) /\ DriverOK /\ TypeOK
      /\ driver.todo \in SUBSET Tasks /\ driver.phase \in Phases
  BY DEF TypeInv, TypeOK, Driver
<1>1. \A p \in Phases : AtPhase(p) \in Driver /\ AtPhase(p).pc = "tasks"
  BY AtPhaseType
<1>2. NextPhase[driver.phase] \in Phases /\ "promote" \in Phases
  BY <1>0, AtPhaseType DEF Phases
<1>3. ASSUME NEW todo \in SUBSET Tasks
      PROVE  Continue(todo) \in Driver /\ Continue(todo).pc \in {"tasks", "each"}
  BY <1>0, ContinueType
<1>4. ASSUME NEW t \in Tasks, NEW pc \in {"move", "submit"}, pc = "submit" => driver.phase \in Roles
      PROVE  LET d == [driver EXCEPT !.pc = pc, !.cur = t, !.todo = @ \ {t}]
             IN  /\ d \in Driver /\ d.cur \in Tasks
                 /\ d.pc = pc /\ d.phase = driver.phase
  BY <1>0 DEF Driver
<1>5. CASE DriverReadTasks
  <2> DEFINE pc == IF driver.phase \in Roles THEN "rows" ELSE "each"
             snap == Snapshot(driver.phase)
             d == [driver EXCEPT !.pc = pc, !.todo = snap]
  <2>1. snap \in SUBSET Tasks
    BY <1>0 DEF Snapshot, Ready, WithStatus, Phases
  <2>2. pc \in {"rows", "each"} /\ (pc = "rows" => driver.phase \in Roles)
    OBVIOUS
  <2>3. driver' \in {AtPhase(NextPhase[driver.phase]), d}
    BY <1>5 DEF DriverReadTasks
  <2> HIDE DEF pc, snap
  <2>4. d \in Driver /\ d.pc = pc /\ d.phase = driver.phase
    BY <1>0, <2>1, <2>2 DEF Driver
  <2> HIDE DEF d
  <2>5. driver' \in Driver /\ DriverOK'
    BY <1>1, <1>2, <2>2, <2>3, <2>4 DEF DriverOK
  <2>6. QED
    BY <1>0, <1>5, <2>5 DEF DriverReadTasks, TypeOK, TypeInv
<1>6. CASE DriverReadRows
  <2>1. PICK todo \in SUBSET Tasks : driver' = Continue(todo)
    BY <1>0, <1>6 DEF DriverReadRows
  <2>2. driver' \in Driver /\ DriverOK'
    BY <1>3, <2>1 DEF DriverOK
  <2>3. QED
    BY <1>0, <1>6, <2>2 DEF DriverReadRows, TypeOK, TypeInv
<1>7. ASSUME NEW t \in Tasks, DriverPromote(t)
      PROVE  TypeInv'
  <2>1. driver' \in {Continue(driver.todo \ {t}), AtPhase("promote")}
    BY <1>7 DEF DriverPromote
  <2>2. driver' \in Driver /\ DriverOK'
    BY <1>0, <1>1, <1>2, <1>3, <2>1 DEF DriverOK
  <2>3. status' \in [Tasks -> Status]
    BY <1>0, <1>7 DEF DriverPromote, Status
  <2>4. QED
    BY <1>0, <1>7, <2>2, <2>3 DEF DriverPromote, TypeOK, TypeInv
<1>8. ASSUME NEW t \in Tasks, DriverCheckPlanned(t)
      PROVE  TypeInv'
  <2>1. driver' \in Driver /\ DriverOK'
    BY <1>0, <1>3, <1>4, <1>8 DEF DriverCheckPlanned, DriverOK
  <2>2. QED
    BY <1>0, <1>8, <2>1 DEF DriverCheckPlanned, TypeOK, TypeInv
<1>9. CASE DriverAssign
  <2>1. driver' \in {Continue(driver.todo), AtPhase("promote")}
    BY <1>9 DEF DriverAssign
  <2>2. driver' \in Driver /\ DriverOK'
    BY <1>0, <1>1, <1>2, <1>3, <2>1 DEF DriverOK
  <2>3. status' \in [Tasks -> Status]
    BY <1>0, <1>9 DEF DriverAssign, Status
  <2>4. QED
    BY <1>0, <1>9, <2>2, <2>3 DEF DriverAssign, TypeOK, TypeInv
<1>10. ASSUME NEW t \in Tasks, DriverCheckTask(t)
       PROVE  TypeInv'
  <2> DEFINE d == [driver EXCEPT !.pc = "submit", !.cur = t, !.todo = @ \ {t}]
  <2>1. /\ driver.phase \in Roles
        /\ driver' \in {Continue(driver.todo \ {t}), AtPhase(NextPhase[driver.phase]), d}
    BY <1>10 DEF DriverCheckTask
  <2>2. d \in Driver /\ d.cur \in Tasks /\ d.pc = "submit" /\ d.phase = driver.phase
    BY <1>4, <2>1
  <2> HIDE DEF d
  <2>3. driver' \in Driver /\ DriverOK'
    BY <1>0, <1>1, <1>2, <1>3, <2>1, <2>2 DEF DriverOK
  <2>4. QED
    BY <1>0, <1>10, <2>3 DEF DriverCheckTask, TypeOK, TypeInv
<1>11. ASSUME NEW r \in RunIds, DriverSubmit(r)
       PROVE  TypeInv'
  <2>1. driver.phase \in Roles /\ driver.cur \in Tasks
    BY <1>0, <1>11 DEF DriverSubmit, DriverOK
  <2>2. AddAgentRun(r, driver.phase, driver.cur, "auto", "driver")
    BY <1>11 DEF DriverSubmit
  <2>3. /\ run' \in [RunIds -> Run] /\ \A x \in RunIds : RunOK(run'[x])
        /\ planRun' \subseteq Tasks
    BY <2>1, <2>2, AddOK DEF Modes
  <2>4. driver' \in Driver /\ DriverOK'
    BY <1>0, <1>11, <2>1 DEF DriverSubmit, Driver, DriverOK
  <2>5. QED
    BY <1>0, <1>11, <2>3, <2>4 DEF DriverSubmit, TypeOK, TypeInv
<1>12. QED
  BY <1>5, <1>6, <1>7, <1>8, <1>9, <1>10, <1>11 DEF DriverStep

-----------------------------------------------------------------------------
\* One request changes.
LEMMA RequestUpdate ==
    ASSUME TypeInv, NEW u \in Users, NEW q \in Request,
           user' = [user EXCEPT ![u] = q]
    PROVE  user' \in [Users -> Request]
BY DEF TypeInv, TypeOK

LEMMA IdleType == Idle \in Request
BY DEF Idle, Request

\* A transition of a request keeps the types.
LEMMA RequestMoveType ==
    ASSUME TypeInv, NEW u \in Users, NEW op, NEW to \in Status, NEW nextOp,
           nextOp \in {"idle", "merge", "promote", "reassign", "resume"} \cup StandaloneOps,
           RequestMove(u, op, to, nextOp)
    PROVE  TypeInv'
<1>0. /\ status \in [Tasks -> Status] /\ user \in [Users -> Request]
      /\ user[u] \in Request
  BY DEF TypeInv, TypeOK
<1>1. status' \in [Tasks -> Status]
  BY <1>0 DEF RequestMove
<1> DEFINE q == [user[u] EXCEPT !.op = nextOp]
<1>2. q \in Request
  BY <1>0 DEF Request
<1>3. user' = [user EXCEPT ![u] = q] \/ user' = [user EXCEPT ![u] = Idle]
  BY DEF RequestMove
<1> HIDE DEF q
<1>4. user' \in [Users -> Request]
  BY <1>2, <1>3, IdleType, RequestUpdate
<1>5. QED
  BY <1>1, <1>4 DEF RequestMove, TypeInv, TypeOK, DriverOK

\* A step of a request keeps the types.
LEMMA RequestStepType ==
    ASSUME TypeInv, NEW u \in Users, RequestStep(u)
    PROVE  TypeInv'
<1>0. /\ status \in [Tasks -> Status] /\ user \in [Users -> Request]
      /\ user[u] \in Request /\ TypeOK /\ DriverOK
      /\ \A x \in RunIds : RunOK(run[x])
  BY DEF TypeInv, TypeOK
<1>1. CASE Accept(u) \/ MarkDone(u) \/ Reject(u) \/ Reassign(u) \/ RetryMove(u)
  BY <1>1, RequestMoveType DEF Accept, MarkDone, Reject, Reassign, RetryMove, Status
<1>2. CASE FastForward(u)
  <2> DEFINE after == IF user[u].role = "fr" THEN "submit" ELSE "toInProgress"
  <2>1. after \in StandaloneOps
    BY DEF StandaloneOps
  <2>2. /\ {"toPlanned", "toAssigned", "toImplemented", "submit"} \subseteq StandaloneOps
        /\ {"planning", "planned", "assigned", "in_progress", "implemented"} \subseteq Status
    BY DEF StandaloneOps, Status
  <2>3. \/ RequestMove(u, "toPlanning", "planning", "toPlanned")
        \/ RequestMove(u, "toPlanned", "planned", "toAssigned")
        \/ RequestMove(u, "toAssigned", "assigned", after)
        \/ RequestMove(u, "toInProgress", "in_progress", "toImplemented")
        \/ RequestMove(u, "toImplemented", "implemented", "submit")
    BY <1>2 DEF FastForward
  <2> HIDE DEF after
  <2>4. QED
    BY <2>1, <2>2, <2>3, RequestMoveType
<1>3. CASE AcceptReadReady(u)
  <2> DEFINE q == [user[u] EXCEPT !.op = "promoting", !.todo = Ready]
  <2>1. q \in Request
    BY <1>0 DEF Request, Ready
  <2>2. user' = [user EXCEPT ![u] = q] \/ user' = [user EXCEPT ![u] = Idle]
    BY <1>3 DEF AcceptReadReady
  <2> HIDE DEF q
  <2>3. user' \in [Users -> Request]
    BY <2>1, <2>2, IdleType, RequestUpdate
  <2>4. QED
    BY <1>0, <1>3, <2>3 DEF AcceptReadReady, TypeInv, TypeOK, DriverOK
<1>4. ASSUME NEW t \in Tasks, AcceptPromote(u, t)
      PROVE  TypeInv'
  <2> DEFINE q == [user[u] EXCEPT !.todo = @ \ {t}]
  <2>1. q \in Request
    BY <1>0 DEF Request
  <2>2. user' = [user EXCEPT ![u] = q] \/ user' = [user EXCEPT ![u] = Idle]
    BY <1>4 DEF AcceptPromote
  <2> HIDE DEF q
  <2>3. user' \in [Users -> Request]
    BY <2>1, <2>2, IdleType, RequestUpdate
  <2>4. status' \in [Tasks -> Status]
    BY <1>0, <1>4 DEF AcceptPromote, Status
  <2>5. QED
    BY <1>0, <1>4, <2>3, <2>4 DEF AcceptPromote, TypeInv, TypeOK, DriverOK
<1>5. CASE RetryResume(u)
  <2>1. user' \in [Users -> Request]
    BY <1>5, IdleType, RequestUpdate DEF RetryResume
  <2>2. QED
    BY <1>0, <1>5, <2>1 DEF RetryResume, TypeInv, TypeOK, DriverOK
<1>6. CASE NoBranch(u)
  <2>1. user' \in [Users -> Request]
    BY <1>6, IdleType, RequestUpdate DEF NoBranch
  <2>2. QED
    BY <1>0, <1>6, <2>1 DEF NoBranch, TypeInv, TypeOK, DriverOK
<1>7. QED
  BY <1>1, <1>2, <1>3, <1>4, <1>5, <1>6 DEF RequestStep

\* A request that begins has its type.
LEMMA BeginType ==
    ASSUME TypeInv, NEW u \in Users, NEW t \in Tasks,
           NEW op \in {"accept", "reject", "retry", "toPlanning"},
           NEW role \in {"fr", "fi", "none"}, Begin(u, op, t, role)
    PROVE  user' \in [Users -> Request]
<1> DEFINE q == [op |-> op, task |-> t, todo |-> {}, role |-> role]
<1>1. q \in Request
  BY DEF Request, StandaloneOps
<1>2. user' = [user EXCEPT ![u] = q]
  BY DEF Begin
<1> HIDE DEF q
<1>3. QED
  BY <1>1, <1>2, RequestUpdate

\* A run that a person starts, with or without a change of the request.
LEMMA UserRunType ==
    ASSUME TypeInv, NEW r \in RunIds, NEW t \in Tasks, NEW role \in Roles,
           NEW mode \in Modes, AddAgentRun(r, role, t, mode, "user"),
           user' \in [Users -> Request],
           UNCHANGED <<status, paused, fiLock, fiWaiters, driver>>
    PROVE  TypeInv'
<1>1. /\ run' \in [RunIds -> Run] /\ \A x \in RunIds : RunOK(run'[x])
      /\ planRun' \subseteq Tasks
  BY AddOK
<1>2. QED
  BY <1>1 DEF TypeInv, TypeOK, DriverOK

\* What people start keeps the types.
LEMMA PeopleStepType ==
    ASSUME TypeInv, PeopleStep
    PROVE  TypeInv'
<1>0. /\ paused \subseteq Tasks \cup Proposals /\ TypeOK /\ DriverOK
      /\ run \in [RunIds -> Run]
      /\ \A x \in RunIds : RunOK(run[x])
  BY DEF TypeInv, TypeOK
<1>1. ASSUME NEW u \in Users, NEW t \in Tasks, NEW op \in UserOps, StartReview(u, t, op)
      PROVE  TypeInv'
  <2>1. user' \in [Users -> Request]
    BY <1>1, BeginType DEF StartReview
  <2>2. QED
    BY <1>0, <1>1, <2>1 DEF StartReview, TypeInv, TypeOK, DriverOK
<1>2. ASSUME NEW u \in Users, NEW t \in Tasks, StartRetry(u, t)
      PROVE  TypeInv'
  <2>1. user' \in [Users -> Request]
    BY <1>2, BeginType DEF StartRetry
  <2>2. QED
    BY <1>0, <1>2, <2>1 DEF StartRetry, TypeInv, TypeOK, DriverOK
<1>3. ASSUME NEW u \in Users, NEW t \in Tasks, NEW role \in {"fr", "fi"},
             StartStandalone(u, t, role)
      PROVE  TypeInv'
  <2>1. user' \in [Users -> Request]
    BY <1>3, BeginType DEF StartStandalone
  <2>2. QED
    BY <1>0, <1>3, <2>1 DEF StartStandalone, TypeInv, TypeOK, DriverOK
<1>4. ASSUME NEW r \in RunIds, NEW t \in Tasks, NEW role \in Roles,
             NEW mode \in UserModes \cup {"manual"}, UserSubmit(r, role, t, mode)
      PROVE  TypeInv'
  <2>1. mode \in Modes
    BY PipelineAssumption DEF Modes
  <2>2. AddAgentRun(r, role, t, mode, "user") /\ user' = user
    BY <1>4 DEF UserSubmit
  <2>3. QED
    BY <1>0, <1>4, <2>1, <2>2, UserRunType DEF UserSubmit, TypeOK
<1>5. ASSUME NEW r \in RunIds, UserCancel(r)
      PROVE  TypeInv'
  <2> DEFINE rec == [run[r] EXCEPT !.cancel = TRUE]
  <2>1. RunOK(rec)
    BY <1>0 DEF RunOK, Run
  <2>2. run' = [run EXCEPT ![r] = rec]
    BY <1>5 DEF UserCancel
  <2> HIDE DEF rec
  <2>3. run' \in [RunIds -> Run] /\ \A x \in RunIds : RunOK(run'[x])
    BY <2>1, <2>2, RunUpdate
  <2>4. QED
    BY <1>0, <1>5, <2>3 DEF UserCancel, TypeInv, TypeOK, DriverOK
<1>6. ASSUME NEW x \in Tasks \cup Proposals, UserUnpause(x)
      PROVE  TypeInv'
  BY <1>0, <1>6 DEF UserUnpause, TypeInv, TypeOK, DriverOK
<1>7. QED
  BY <1>1, <1>2, <1>3, <1>4, <1>5, <1>6 DEF PeopleStep

\* So does the run of a standalone request.
LEMMA SubmitStepType ==
    ASSUME TypeInv, NEW u \in Users, SubmitStep(u)
    PROVE  TypeInv'
<1>1. PICK r \in RunIds, t \in Tasks, role \in {"fr", "fi"} : StandaloneSubmit(u, r, t, role)
  BY DEF SubmitStep
<1>2. user' \in [Users -> Request]
  BY <1>1, IdleType, RequestUpdate DEF StandaloneSubmit
<1>3. role \in Roles /\ "standalone" \in Modes
  BY DEF Roles, Modes
<1>4. QED
  BY <1>1, <1>2, <1>3, UserRunType DEF StandaloneSubmit

\* A restart keeps the types.
LEMMA CrashType ==
    ASSUME TypeInv, Crash
    PROVE  TypeInv'
<1>0. /\ run \in [RunIds -> Run] /\ TypeOK
      /\ \A x \in RunIds : RunOK(run[x])
  BY DEF TypeInv, TypeOK
<1> DEFINE lost(r) == [run[r] EXCEPT !.pc = "lost", !.cancel = FALSE, !.outcome = "none"]
<1>1. ASSUME NEW r \in RunIds, RowRunning(r)
      PROVE  RunOK(lost(r))
  <2>1. "lost" \in RunPC /\ run[r].pc # "free"
    BY <1>1 DEF RunPC, RowRunning
  <2>2. QED
    BY <1>0, <2>1 DEF RunOK, Run
<1>2. run' = [r \in RunIds |-> IF RowRunning(r) THEN lost(r) ELSE NoRun]
  BY DEF Crash
<1> HIDE DEF lost
<1>3. \A r \in RunIds : RunOK(run'[r])
  BY <1>1, <1>2, NoRunOK
<1>4. run' \in [RunIds -> Run]
  BY <1>2, <1>3 DEF RunOK
<1>5. driver' \in Driver /\ DriverOK'
  <2>1. "promote" \in Phases
    BY DEF Phases
  <2>2. QED
    BY <2>1, AtPhaseType DEF Crash, DriverOK
<1>6. user' \in [Users -> Request]
  BY IdleType DEF Crash
<1>7. fiWaiters' \in Seq(RunIds) /\ fiLock' \in RunIds \cup {NoRunId}
  <2>1. fiWaiters' = <<>> /\ fiLock' = NoRunId
    BY DEF Crash
  <2>2. <<>> \in Seq(RunIds)
    OBVIOUS
  <2>3. QED
    BY <2>1, <2>2
<1>8. QED
  BY <1>0, <1>3, <1>4, <1>5, <1>6, <1>7 DEF Crash, TypeInv, TypeOK

LEMMA InitType == Init => TypeInv
<1> SUFFICES ASSUME Init PROVE TypeInv
  OBVIOUS
<1>1. driver \in Driver /\ DriverOK
  <2>1. "promote" \in Phases
    BY DEF Phases
  <2>2. QED
    BY <2>1, AtPhaseType DEF Init, DriverOK
<1>2. run \in [RunIds -> Run] /\ \A r \in RunIds : RunOK(run[r])
  BY NoRunOK DEF Init, RunOK
<1>3. user \in [Users -> Request]
  BY IdleType DEF Init
<1>4. status \in [Tasks -> Status]
  BY DEF Init, Status
<1>5. fiWaiters \in Seq(RunIds)
  BY DEF Init
<1>6. QED
  BY <1>1, <1>2, <1>3, <1>4, <1>5 DEF Init, TypeInv, TypeOK

LEMMA NextType == TypeInv /\ [Next]_vars => TypeInv'
<1> SUFFICES ASSUME TypeInv, [Next]_vars PROVE TypeInv'
  OBVIOUS
<1>1. CASE UNCHANGED vars
  BY <1>1 DEF vars, TypeInv, TypeOK, DriverOK
<1>2. QED
  BY <1>1, RunStepType, DriverStepType, RequestStepType, SubmitStepType,
     PeopleStepType, CrashType DEF Next

\* Every variable always holds a value of its type, whatever the numbers of
\* tasks, runs and requests and the caps: in particular no run ever acts on a
\* task, a transition or a proposal that is not there.
THEOREM TypeInvariant == Spec => []TypeInv
BY InitType, NextType, PTL DEF Spec

THEOREM TypeCorrect == Spec => []TypeOK
<1>1. TypeInv => TypeOK
  BY DEF TypeInv
<1>2. QED
  BY <1>1, TypeInvariant, PTL

=============================================================================
