------------------------ MODULE PipelineSafetyProofs ------------------------
(***************************************************************************)
(* The safety invariants of the execution core, for any instance.          *)
(***************************************************************************)
EXTENDS PipelineProofs, FiniteSetTheorems

\* The steps of run r after its runner has returned: they change no other run,
\* leave r with a row that no longer says "running", and touch neither the
\* interpreter lock nor the driver.
Settles(r) ==
    /\ ~ RowRunning(r)'
    /\ \A x \in RunIds \ {r} : run'[x] = run[x]
    /\ UNCHANGED <<fiLock, driver>>

LEMMA SettlingSteps ==
    ASSUME TypeInv, NEW r \in RunIds,
           \/ FinishRow(r) \/ ReadTask(r) \/ ApplyNext(r) \/ PauseTarget(r)
           \/ SnapshotSiblings(r) \/ (\E s \in Tasks : PauseSibling(r, s))
           \/ PauseProposal(r) \/ UnpauseTarget(r)
    PROVE  Settles(r)
<1> DEFINE settled == {"free", "read", "apply", "pause", "siblings", "cascade", "unpause"}
<1>0. run \in [RunIds -> Run] /\ run[r] \in Run
  BY DEF TypeInv, TypeOK
<1>1. NoRun.pc \in settled
  BY DEF NoRun
<1> SUFFICES /\ \E rec : run' = [run EXCEPT ![r] = rec] /\ rec.pc \in settled
             /\ UNCHANGED <<fiLock, driver>>
  BY <1>0 DEF Settles, RowRunning
<1>2. CASE FinishRow(r)
  <2>1. AfterRow(run[r]).pc \in settled
    BY <1>0, <1>1 DEF AfterRow, AfterSuccess, Run
  <2>2. QED
    BY <1>2, <2>1 DEF FinishRow
<1>3. CASE ReadTask(r)
  <2> DEFINE rec == [run[r] EXCEPT !.pc = "apply",
                        !.path = SuccessPath(run[r], status[run[r].target])]
  <2>1. rec.pc \in settled
    BY <1>0 DEF Run
  <2>2. run' = [run EXCEPT ![r] = rec]
    BY <1>3 DEF ReadTask
  <2> HIDE DEF rec
  <2>3. QED
    BY <1>3, <2>1, <2>2 DEF ReadTask
<1>4. CASE ApplyNext(r)
  <2> DEFINE rec == [run[r] EXCEPT !.path = Tail(run[r].path)]
  <2>1. AfterPath(run[r]).pc \in settled
    BY <1>0, <1>1 DEF AfterPath, Run
  <2>2. rec.pc \in settled
    BY <1>0, <1>4 DEF ApplyNext, Run
  <2>3. \/ run' = [run EXCEPT ![r] = NoRun]
        \/ run' = [run EXCEPT ![r] = AfterPath(run[r])]
        \/ run' = [run EXCEPT ![r] = rec]
    BY <1>4 DEF ApplyNext
  <2> HIDE DEF rec
  <2>4. QED
    BY <1>1, <1>4, <2>1, <2>2, <2>3 DEF ApplyNext
<1>5. CASE PauseTarget(r)
  <2> DEFINE rec == [run[r] EXCEPT !.pc = "apply", !.path = <<"failed">>]
  <2>1. rec.pc \in settled
    BY <1>0 DEF Run
  <2>2. run' = [run EXCEPT ![r] = rec] \/ run' = [run EXCEPT ![r] = NoRun]
    BY <1>5 DEF PauseTarget
  <2> HIDE DEF rec
  <2>3. QED
    BY <1>1, <1>5, <2>1, <2>2 DEF PauseTarget
<1>6. CASE SnapshotSiblings(r)
  <2> DEFINE rec == [run[r] EXCEPT !.pc = "cascade",
                        !.sibs = {s \in Siblings(run[r].target) : status[s] \in NotStarted}]
  <2>1. rec.pc \in settled
    BY <1>0 DEF Run
  <2>2. run' = [run EXCEPT ![r] = rec] \/ run' = [run EXCEPT ![r] = NoRun]
    BY <1>6 DEF SnapshotSiblings
  <2> HIDE DEF rec
  <2>3. QED
    BY <1>1, <1>6, <2>1, <2>2 DEF SnapshotSiblings
<1>7. ASSUME NEW s \in Tasks, PauseSibling(r, s)
      PROVE  /\ \E rec : run' = [run EXCEPT ![r] = rec] /\ rec.pc \in settled
             /\ UNCHANGED <<fiLock, driver>>
  <2> DEFINE rec == [run[r] EXCEPT !.sibs = @ \ {s}]
  <2>1. rec.pc \in settled
    BY <1>0, <1>7 DEF PauseSibling, Run
  <2>2. run' = [run EXCEPT ![r] = rec]
    BY <1>7 DEF PauseSibling
  <2> HIDE DEF rec
  <2>3. QED
    BY <1>7, <2>1, <2>2 DEF PauseSibling
<1>8. CASE PauseProposal(r)
  BY <1>1, <1>8 DEF PauseProposal
<1>9. CASE UnpauseTarget(r)
  BY <1>1, <1>9 DEF UnpauseTarget
<1>10. QED
  BY <1>2, <1>3, <1>4, <1>5, <1>6, <1>7, <1>8, <1>9

\* A new row belongs to a run that was not there, and changes no other run.
LEMMA AddFrame ==
    ASSUME TypeInv, NEW r \in RunIds, NEW role, NEW t, NEW mode, NEW by,
           AddAgentRun(r, role, t, mode, by)
    PROVE  /\ \A x \in RunIds \ {r} : run'[x] = run[x]
           /\ run[r].pc = "free" /\ run'[r].pc = "row" /\ run'[r].role = role
           /\ run'[r].target = t /\ run'[r].by = by
<1> DEFINE rec == [NoRun EXCEPT !.pc = "row", !.role = role, !.target = t,
                                !.mode = mode, !.by = by]
<1>1. /\ rec.pc = "row" /\ rec.role = role /\ rec.target = t /\ rec.by = by
  BY DEF NoRun
<1>2. run' = [run EXCEPT ![r] = rec] /\ run[r].pc = "free"
  BY DEF AddAgentRun
<1> HIDE DEF rec
<1>3. run \in [RunIds -> Run]
  BY DEF TypeInv, TypeOK
<1>4. QED
  BY <1>1, <1>2, <1>3

\* The requests under way and the reviews and retries people start leave the
\* runs, the lock and the driver alone; so does the lifting of a pause.
LEMMA RequestFrame ==
    ASSUME NEW u \in Users, RequestStep(u)
    PROVE  UNCHANGED <<run, fiLock, driver>>
BY DEF RequestStep, Accept, MarkDone, Reject, Reassign, RetryMove, RequestMove,
       AcceptReadReady, AcceptPromote, RetryResume, FastForward,
       NoBranch

\* A person's run, of POST /api/runs or of a standalone request, is one more row
\* that the driver did not write.
UserRun ==
    \E r \in RunIds : \E role, t, mode : AddAgentRun(r, role, t, mode, "user")

LEMMA SubmitFrame ==
    ASSUME NEW u \in Users, SubmitStep(u)
    PROVE  UserRun /\ UNCHANGED <<fiLock, driver>>
BY DEF SubmitStep, StandaloneSubmit, UserRun

-----------------------------------------------------------------------------
\* The interpreter that executes is the one that holds the lock.
Interprets(r) == run[r].pc = "running" /\ run[r].role = "fi"
LockHeld == \A r \in RunIds : Interprets(r) => fiLock = r

\* Nobody else starts while the lock stays with its holder.
LEMMA LockKept ==
    ASSUME LockHeld, fiLock' = fiLock,
           \A x \in RunIds : Interprets(x)' => Interprets(x)
    PROVE  LockHeld'
BY DEF LockHeld

LEMMA LockHeldRun ==
    ASSUME TypeInv, LockHeld, NEW r \in RunIds, RunStep(r)
    PROVE  LockHeld'
<1>0. run \in [RunIds -> Run] /\ run[r] \in Run /\ NoRunId \notin RunIds
  BY PipelineAssumption DEF TypeInv, TypeOK
<1>1. CASE Register(r)
  <2>1. CASE run[r].role # "fi"
    BY <1>0, <1>1, <2>1, LockKept DEF Register, Interprets, Run
  <2>2. CASE run[r].role = "fi" /\ (fiLock # NoRunId \/ fiWaiters # <<>>)
    BY <1>0, <1>1, <2>2, LockKept DEF Register, Interprets, Run
  <2>3. CASE run[r].role = "fi" /\ fiLock = NoRunId /\ fiWaiters = <<>>
    BY <1>0, <1>1, <2>3 DEF Register, LockHeld, Interprets, Run
  <2>4. QED
    BY <2>1, <2>2, <2>3
<1>2. CASE GrantFiLock(r)
  BY <1>0, <1>2 DEF GrantFiLock, LockHeld, Interprets, Run
<1>3. ASSUME NEW o \in AllOutcomes, RunnerReturns(r, o)
      PROVE  LockHeld'
  BY <1>0, <1>3 DEF RunnerReturns, LockHeld, Interprets, Run
<1>4. CASE Settles(r)
  BY <1>4, LockKept DEF Settles, Interprets, RowRunning
<1>5. QED
  BY <1>1, <1>2, <1>3, <1>4, SettlingSteps DEF RunStep

LEMMA LockHeldNext == TypeInv /\ LockHeld /\ [Next]_vars => LockHeld'
<1> SUFFICES ASSUME TypeInv, LockHeld, [Next]_vars PROVE LockHeld'
  OBVIOUS
<1>0. run \in [RunIds -> Run]
  BY DEF TypeInv, TypeOK
<1>1. CASE UNCHANGED <<run, fiLock>>
  BY <1>1 DEF LockHeld, Interprets
<1>2. ASSUME NEW r \in RunIds, NEW role, NEW t, NEW mode, NEW by,
             AddAgentRun(r, role, t, mode, by), fiLock' = fiLock
      PROVE  LockHeld'
  BY <1>2, AddFrame, LockKept DEF Interprets
<1>3. CASE DriverStep
  <2>1. ASSUME NEW r \in RunIds, DriverSubmit(r)
        PROVE  LockHeld'
    BY <1>2, <2>1 DEF DriverSubmit
  <2>2. QED
    BY <1>1, <1>3, <2>1 DEF DriverStep, DriverReadTasks, DriverReadRows, DriverPromote,
       DriverCheckPlanned, DriverAssign, DriverCheckTask
<1>4. CASE PeopleStep
  <2>1. ASSUME NEW r \in RunIds, NEW t \in Tasks, NEW role \in Roles,
               NEW mode \in UserModes \cup {"manual"}, UserSubmit(r, role, t, mode)
        PROVE  LockHeld'
    BY <1>2, <2>1 DEF UserSubmit
  <2>2. ASSUME NEW r \in RunIds, UserCancel(r)
        PROVE  LockHeld'
    BY <1>0, <2>2, LockKept DEF UserCancel, Interprets, TypeInv, RunOK, Run
  <2>3. QED
    BY <1>1, <1>4, <2>1, <2>2 DEF PeopleStep, StartReview, StartRetry,
       StartStandalone, UserUnpause
<1>5. CASE Crash
  <2>1. \A r \in RunIds : run'[r].pc # "running"
    BY <1>0, <1>5 DEF Crash, NoRun, Run
  <2>2. QED
    BY <2>1 DEF LockHeld, Interprets
<1>6. CASE UNCHANGED vars
  BY <1>1, <1>6 DEF vars
<1>7. ASSUME NEW u \in Users, SubmitStep(u)
      PROVE  LockHeld'
  BY <1>2, <1>7, SubmitFrame DEF UserRun
<1>8. QED
  BY <1>1, <1>3, <1>4, <1>5, <1>6, <1>7, LockHeldRun, RequestFrame DEF Next

\* At most one interpreter executes at a time (_fi_lock in _drive), for any
\* number of runs, whoever submits them and whenever they are cancelled.
THEOREM FiSerializedCorrect == Spec => []FiSerialized
<1>1. Init => LockHeld
  BY DEF Init, LockHeld, Interprets, NoRun
<1>2. LockHeld => FiSerialized
  BY DEF LockHeld, Interprets, FiSerialized
<1>3. QED
  BY <1>1, <1>2, TypeInvariant, LockHeldNext, PTL DEF Spec

-----------------------------------------------------------------------------
\* The rows of the driver's runs that say "running", and the one it has just
\* inserted.
DriverRow(r) == RowRunning(r) /\ run[r].by = "driver"
NewRow(r) == run[r].pc = "row" /\ run[r].by = "driver"

\* The tasks the driver may still submit a run for in this phase.
Pending == driver.todo \cup (IF driver.pc = "submit" THEN {driver.cur} ELSE {})

\* Once the driver has read the rows of its phase, none of its runs is on a task
\* it may still submit; it inserts one row at a time.
SnapshotCurrent ==
    /\ driver.phase \in Roles /\ driver.pc \in {"each", "submit", "register"}
         => \A r \in RunIds : DriverRow(r) /\ run[r].role = driver.phase
                               => run[r].target \notin Pending
    /\ driver.pc = "submit" => driver.cur \notin driver.todo
    /\ driver.pc = "move" => driver.phase \notin Roles

OneNewRow ==
    /\ \A r \in RunIds : NewRow(r) => driver.pc = "register" /\ run[r].role = driver.phase
    /\ \A r1, r2 \in RunIds : NewRow(r1) /\ NewRow(r2) => r1 = r2

AutoInv == OneAutoRun /\ SnapshotCurrent /\ OneNewRow

\* No row becomes one of the driver's.
RowsKept ==
    \A x \in RunIds :
        /\ DriverRow(x)' => /\ DriverRow(x)
                           /\ run'[x].role = run[x].role
                           /\ run'[x].target = run[x].target
        /\ NewRow(x)' => NewRow(x)

LEMMA AutoKept ==
    ASSUME AutoInv, RowsKept, driver' = driver
    PROVE  AutoInv'
<1>1. OneAutoRun'
  BY DEF AutoInv, OneAutoRun, RowsKept, DriverRow
<1>2. SnapshotCurrent'
  BY DEF AutoInv, SnapshotCurrent, RowsKept, Pending
<1>3. OneNewRow'
  BY DEF AutoInv, OneNewRow, RowsKept, DriverRow, NewRow, RowRunning
<1>4. QED
  BY <1>1, <1>2, <1>3 DEF AutoInv

\* The driver moves on without a row of its own to register.
LEMMA AutoMoves ==
    ASSUME AutoInv, driver.pc # "register", UNCHANGED run, SnapshotCurrent'
    PROVE  AutoInv'
<1>1. \A r \in RunIds : ~NewRow(r) /\ ~NewRow(r)'
  BY DEF AutoInv, OneNewRow, NewRow
<1>2. OneAutoRun' /\ OneNewRow'
  BY <1>1 DEF AutoInv, OneAutoRun, OneNewRow, RowRunning
<1>3. QED
  BY <1>2 DEF AutoInv

\* At the start of a phase there is nothing pending.
LEMMA AtPhaseCurrent ==
    ASSUME NEW p, driver' = AtPhase(p)
    PROVE  SnapshotCurrent'
BY DEF SnapshotCurrent, AtPhase

\* Going on with part of what is pending.
LEMMA ContinueCurrent ==
    ASSUME TypeInv, NEW todo, driver' = Continue(todo),
           driver.phase \in Roles =>
             \A r \in RunIds : DriverRow(r)' /\ run'[r].role = driver.phase
                               => run'[r].target \notin todo
    PROVE  SnapshotCurrent'
<1>1. driver \in Driver
  BY DEF TypeInv, TypeOK
<1>2. CASE todo = {}
  BY <1>2, AtPhaseCurrent DEF Continue
<1>3. CASE todo # {}
  <2>1. driver'.phase = driver.phase /\ driver'.pc = "each" /\ driver'.todo = todo
    BY <1>1, <1>3 DEF Continue, Driver
  <2>2. QED
    BY <2>1 DEF SnapshotCurrent, Pending
<1>4. QED
  BY <1>2, <1>3

LEMMA AutoInvRun ==
    ASSUME TypeInv, AutoInv, NEW r \in RunIds, RunStep(r)
    PROVE  AutoInv'
<1>0. run \in [RunIds -> Run] /\ run[r] \in Run /\ driver \in Driver
  BY DEF TypeInv, TypeOK
<1>1. CASE Register(r)
  <2>1. /\ run'[r].pc \in {"waiting", "running"} /\ run'[r].role = run[r].role
        /\ run'[r].target = run[r].target /\ run'[r].by = run[r].by
        /\ \A x \in RunIds \ {r} : run'[x] = run[x]
        /\ run[r].pc = "row"
    BY <1>0, <1>1 DEF Register, Run
  <2>2. RowsKept
    BY <2>1 DEF RowsKept, DriverRow, NewRow, RowRunning
  <2>3. CASE run[r].by # "driver"
    BY <1>1, <2>2, <2>3, AutoKept DEF Register
  <2>4. CASE run[r].by = "driver"
    <3>1. NewRow(r) /\ driver.pc = "register" /\ driver' = Continue(driver.todo)
      BY <1>1, <2>1, <2>4 DEF Register, NewRow, AutoInv, OneNewRow
    <3>2. driver.phase \in Roles
      BY <3>1 DEF TypeInv, DriverOK
    <3>3. SnapshotCurrent'
      <4>1. \A x \in RunIds : DriverRow(x) /\ run[x].role = driver.phase
                               => run[x].target \notin driver.todo
        BY <3>1, <3>2 DEF AutoInv, SnapshotCurrent, Pending
      <4>2. QED
        BY <2>2, <3>1, <4>1, ContinueCurrent DEF RowsKept
    <3>4. \A x \in RunIds : ~NewRow(x)'
      BY <2>1, <2>2, <3>1 DEF RowsKept, AutoInv, OneNewRow, NewRow
    <3>5. OneAutoRun'
      BY <2>2 DEF AutoInv, OneAutoRun, RowsKept, DriverRow
    <3>6. QED
      BY <3>3, <3>4, <3>5 DEF AutoInv, OneNewRow
  <2>5. QED
    BY <2>3, <2>4
<1>2. CASE GrantFiLock(r)
  BY <1>0, <1>2, AutoKept DEF GrantFiLock, RowsKept, DriverRow, NewRow, RowRunning, Run
<1>3. ASSUME NEW o \in AllOutcomes, RunnerReturns(r, o)
      PROVE  AutoInv'
  BY <1>0, <1>3, AutoKept DEF RunnerReturns, RowsKept, DriverRow, NewRow, RowRunning, Run
<1>4. CASE Settles(r)
  BY <1>4, AutoKept DEF Settles, RowsKept, DriverRow, NewRow, RowRunning
<1>5. QED
  BY <1>1, <1>2, <1>3, <1>4, SettlingSteps DEF RunStep

LEMMA AutoInvDriver ==
    ASSUME TypeInv, AutoInv, DriverStep
    PROVE  AutoInv'
<1>0. driver \in Driver /\ driver.phase \in Phases /\ AutoInv /\ run \in [RunIds -> Run]
  BY DEF TypeInv, TypeOK, Driver
<1>1. CASE DriverReadTasks
  <2>1. driver.pc = "tasks" /\ UNCHANGED run
    BY <1>1 DEF DriverReadTasks
  <2>2. CASE driver' = AtPhase(NextPhase[driver.phase])
    BY <2>1, <2>2, AtPhaseCurrent, AutoMoves
  <2>3. CASE driver'.phase = driver.phase
             /\ driver'.pc = IF driver.phase \in Roles THEN "rows" ELSE "each"
    BY <2>1, <2>3, AutoMoves DEF SnapshotCurrent
  <2>4. QED
    BY <1>0, <1>1, <2>2, <2>3 DEF DriverReadTasks, Driver
<1>2. CASE DriverReadRows
  <2> DEFINE todo == driver.todo \ {run[r].target : r \in {x \in RunIds :
                                RowRunning(x) /\ run[x].role = driver.phase}}
  <2>1. driver.pc = "rows" /\ UNCHANGED run /\ driver' = Continue(todo)
    BY <1>2 DEF DriverReadRows
  <2>2. \A r \in RunIds : DriverRow(r)' /\ run'[r].role = driver.phase
                           => run'[r].target \notin todo
    BY <2>1 DEF DriverRow, RowRunning
  <2> HIDE DEF todo
  <2>3. QED
    BY <2>1, <2>2, ContinueCurrent, AutoMoves
<1>3. ASSUME NEW t \in Tasks, DriverPromote(t)
      PROVE  AutoInv'
  <2>1. /\ driver.pc = "each" /\ driver.phase = "promote" /\ UNCHANGED run
        /\ driver' = Continue(driver.todo \ {t}) \/ driver' = AtPhase("promote")
    BY <1>3 DEF DriverPromote
  <2>2. "promote" \notin Roles
    BY DEF Roles
  <2>3. QED
    BY <2>1, <2>2, ContinueCurrent, AtPhaseCurrent, AutoMoves
<1>4. ASSUME NEW t \in Tasks, DriverCheckPlanned(t)
      PROVE  AutoInv'
  <2>1. driver.pc = "each" /\ driver.phase = "planned" /\ UNCHANGED run
    BY <1>4 DEF DriverCheckPlanned
  <2>2. "planned" \notin Roles
    BY DEF Roles
  <2>3. CASE driver' = Continue(driver.todo \ {t})
    BY <2>1, <2>2, <2>3, ContinueCurrent, AutoMoves
  <2>4. CASE driver'.phase = driver.phase /\ driver'.pc = "move"
    BY <2>1, <2>2, <2>4, AutoMoves DEF SnapshotCurrent
  <2>5. QED
    BY <1>0, <1>4, <2>3, <2>4 DEF DriverCheckPlanned, Driver
<1>5. CASE DriverAssign
  <2>1. /\ driver.pc = "move" /\ driver.phase \notin Roles /\ UNCHANGED run
        /\ driver' = Continue(driver.todo) \/ driver' = AtPhase("promote")
    BY <1>0, <1>5 DEF DriverAssign, AutoInv, SnapshotCurrent
  <2>2. QED
    BY <2>1, ContinueCurrent, AtPhaseCurrent, AutoMoves
<1>6. ASSUME NEW t \in Tasks, DriverCheckTask(t)
      PROVE  AutoInv'
  <2>1. /\ driver.pc = "each" /\ driver.phase \in Roles /\ UNCHANGED run
        /\ t \in driver.todo
    BY <1>6 DEF DriverCheckTask
  <2>2. \A r \in RunIds : DriverRow(r) /\ run[r].role = driver.phase
                           => run[r].target \notin driver.todo
    BY <1>0, <2>1 DEF AutoInv, SnapshotCurrent, Pending
  <2>3. \A r \in RunIds : DriverRow(r)' /\ run'[r].role = driver.phase
                           => run'[r].target \notin driver.todo
    BY <2>1, <2>2 DEF DriverRow, RowRunning
  <2>4. CASE driver' = Continue(driver.todo \ {t})
    BY <2>1, <2>3, <2>4, ContinueCurrent, AutoMoves
  <2>5. CASE driver' = AtPhase(NextPhase[driver.phase])
    BY <2>1, <2>5, AtPhaseCurrent, AutoMoves
  <2>6. CASE /\ driver'.phase = driver.phase /\ driver'.pc = "submit"
             /\ driver'.cur = t /\ driver'.todo = driver.todo \ {t}
    <3>1. SnapshotCurrent'
      BY <2>1, <2>3, <2>6 DEF SnapshotCurrent, Pending
    <3>2. QED
      BY <2>1, <3>1, AutoMoves
  <2>7. QED
    BY <1>0, <1>6, <2>4, <2>5, <2>6 DEF DriverCheckTask, Driver
<1>7. ASSUME NEW r \in RunIds, DriverSubmit(r)
      PROVE  AutoInv'
  <2>1. /\ driver.pc = "submit" /\ driver'.pc = "register"
        /\ driver'.phase = driver.phase /\ driver'.todo = driver.todo
        /\ AddAgentRun(r, driver.phase, driver.cur, "auto", "driver")
    BY <1>0, <1>7 DEF DriverSubmit, Driver
  <2>2. /\ \A x \in RunIds \ {r} : run'[x] = run[x]
        /\ run'[r].pc = "row" /\ run'[r].role = driver.phase
        /\ run'[r].target = driver.cur /\ run'[r].by = "driver"
    BY <2>1, AddFrame
  <2>3. driver.phase \in Roles /\ driver.cur \notin driver.todo
    BY <1>0, <2>1 DEF AutoInv, SnapshotCurrent, TypeInv, DriverOK
  <2>4. \A x \in RunIds : DriverRow(x) /\ run[x].role = driver.phase
                           => run[x].target \notin driver.todo \cup {driver.cur}
    BY <1>0, <2>1, <2>3 DEF AutoInv, SnapshotCurrent, Pending
  <2>5. \A x \in RunIds : ~NewRow(x)
    BY <1>0, <2>1 DEF AutoInv, OneNewRow
  <2>6. OneNewRow'
    BY <2>1, <2>2, <2>5 DEF OneNewRow, NewRow
  <2>7. SnapshotCurrent'
    BY <2>1, <2>2, <2>3, <2>4 DEF SnapshotCurrent, Pending, DriverRow, RowRunning
  <2>8. OneAutoRun'
    <3> SUFFICES ASSUME NEW r1 \in RunIds, NEW r2 \in RunIds,
                        DriverRow(r1)', DriverRow(r2)',
                        run'[r1].role = run'[r2].role, run'[r1].target = run'[r2].target
                 PROVE  r1 = r2
      BY DEF OneAutoRun, DriverRow
    <3>1. CASE r1 # r /\ r2 # r
      BY <1>0, <2>2, <3>1 DEF AutoInv, OneAutoRun, DriverRow, RowRunning
    <3>2. CASE r1 = r /\ r2 # r
      BY <2>2, <2>4, <3>2 DEF DriverRow, RowRunning
    <3>3. CASE r1 # r /\ r2 = r
      BY <2>2, <2>4, <3>3 DEF DriverRow, RowRunning
    <3>4. QED
      BY <3>1, <3>2, <3>3
  <2>9. QED
    BY <2>6, <2>7, <2>8 DEF AutoInv
<1>8. QED
  BY <1>1, <1>2, <1>3, <1>4, <1>5, <1>6, <1>7 DEF DriverStep

LEMMA AutoInvNext == TypeInv /\ AutoInv /\ [Next]_vars => AutoInv'
<1> SUFFICES ASSUME TypeInv, AutoInv, [Next]_vars PROVE AutoInv'
  OBVIOUS
<1>0. run \in [RunIds -> Run]
  BY DEF TypeInv, TypeOK
<1>1. CASE UNCHANGED <<run, driver>>
  BY <1>1, AutoKept DEF RowsKept, DriverRow, NewRow, RowRunning
<1>2. ASSUME NEW r \in RunIds, NEW role, NEW t, NEW mode,
             AddAgentRun(r, role, t, mode, "user"), driver' = driver
      PROVE  AutoInv'
  <2>1. RowsKept
    BY <1>2, AddFrame DEF RowsKept, DriverRow, NewRow, RowRunning
  <2>2. QED
    BY <1>2, <2>1, AutoKept
<1>3. ASSUME NEW u \in Users, SubmitStep(u)
      PROVE  AutoInv'
  BY <1>2, <1>3, SubmitFrame DEF UserRun
<1>4. CASE PeopleStep
  <2>1. ASSUME NEW r \in RunIds, NEW t \in Tasks, NEW role \in Roles,
               NEW mode \in UserModes \cup {"manual"}, UserSubmit(r, role, t, mode)
        PROVE  AutoInv'
    BY <1>2, <2>1 DEF UserSubmit
  <2>2. ASSUME NEW r \in RunIds, UserCancel(r)
        PROVE  AutoInv'
    BY <1>0, <2>2, AutoKept DEF UserCancel, RowsKept, DriverRow, NewRow, RowRunning, Run
  <2>3. QED
    BY <1>1, <1>4, <2>1, <2>2 DEF PeopleStep, StartReview, StartRetry,
       StartStandalone, UserUnpause
<1>5. CASE Crash
  <2>1. \A r \in RunIds : /\ DriverRow(r)' => /\ DriverRow(r)
                                             /\ run'[r].role = run[r].role
                                             /\ run'[r].target = run[r].target
                          /\ run'[r].pc # "row"
    <3> SUFFICES ASSUME NEW r \in RunIds
                 PROVE  /\ DriverRow(r)' => /\ DriverRow(r)
                                           /\ run'[r].role = run[r].role
                                           /\ run'[r].target = run[r].target
                        /\ run'[r].pc # "row"
      OBVIOUS
    <3>1. CASE RowRunning(r)
      <4>1. run'[r] = [run[r] EXCEPT !.pc = "lost", !.cancel = FALSE, !.outcome = "none"]
        BY <1>5, <3>1 DEF Crash
      <4>2. /\ run'[r].pc = "lost" /\ run'[r].role = run[r].role
            /\ run'[r].target = run[r].target /\ run'[r].by = run[r].by
        BY <1>0, <4>1 DEF Run
      <4>3. QED
        BY <3>1, <4>2 DEF DriverRow
    <3>2. CASE ~RowRunning(r)
      <4>1. run'[r].pc = "free"
        BY <1>5, <3>2 DEF Crash, NoRun
      <4>2. QED
        BY <4>1 DEF DriverRow, RowRunning
    <3>3. QED
      BY <3>1, <3>2
  <2>2. SnapshotCurrent'
    BY <1>5, AtPhaseCurrent DEF Crash
  <2>3. OneAutoRun' /\ OneNewRow'
    BY <2>1 DEF AutoInv, OneAutoRun, OneNewRow, DriverRow, NewRow
  <2>4. QED
    BY <2>2, <2>3 DEF AutoInv
<1>6. CASE UNCHANGED vars
  BY <1>1, <1>6 DEF vars
<1>7. QED
  BY <1>1, <1>3, <1>4, <1>5, <1>6, AutoInvRun, AutoInvDriver, RequestFrame DEF Next

\* The driver never has two unfinished runs of one role on one task, for any
\* caps and any number of tasks, although it submits on three readings taken at
\* different times (AutoDriver._tick_pl, _tick_fr, _tick_fi).
THEOREM OneAutoRunCorrect == Spec => []OneAutoRun
<1>1. Init => AutoInv
  BY DEF Init, AutoInv, OneAutoRun, SnapshotCurrent, OneNewRow, NewRow, RowRunning,
         NoRun, AtPhase
<1>2. AutoInv => OneAutoRun
  BY DEF AutoInv
<1>3. QED
  BY <1>1, <1>2, TypeInvariant, AutoInvNext, PTL DEF Spec

-----------------------------------------------------------------------------
\* Between its check of the cap and the registration of its run the driver has
\* room for one more: nobody else registers a run for it.
RoomLeft ==
    driver.phase \in Roles /\ driver.pc \in {"submit", "register"}
        => Cardinality(DriverRuns(driver.phase)) < Cap[driver.phase]

CapInv == CapRespected /\ RoomLeft

LEMMA CapFacts ==
    /\ \A role \in Roles : Cap[role] \in Nat
    /\ \A role : IsFiniteSet(DriverRuns(role)) /\ Cardinality(DriverRuns(role)) \in Nat
<1>1. \A role \in Roles : Cap[role] \in Nat
  BY PipelineAssumption DEF Roles, Cap
<1>2. ASSUME NEW role
      PROVE  IsFiniteSet(DriverRuns(role)) /\ Cardinality(DriverRuns(role)) \in Nat
  <2>1. DriverRuns(role) \in SUBSET RunIds /\ IsFiniteSet(RunIds)
    BY PipelineAssumption DEF DriverRuns
  <2>2. QED
    BY <2>1, FS_Subset, FS_CardinalityType
<1>3. QED
  BY <1>1, <1>2

\* Part of a finite set of runs is not more than the whole.
LEMMA FewerRuns ==
    ASSUME NEW S \in SUBSET RunIds, NEW T \in SUBSET S
    PROVE  /\ Cardinality(S) \in Nat /\ Cardinality(T) \in Nat
           /\ Cardinality(T) <= Cardinality(S)
BY PipelineAssumption, FS_Subset, FS_CardinalityType

\* No run of the driver is registered.
LEMMA CapKept ==
    ASSUME CapInv,
           \A role \in Roles : DriverRuns(role)' \subseteq DriverRuns(role),
           \/ driver' = driver
           \/ driver'.phase \in Roles => driver'.pc \notin {"submit", "register"}
    PROVE  CapInv'
<1>1. ASSUME NEW role \in Roles
      PROVE  /\ Cardinality(DriverRuns(role)') <= Cardinality(DriverRuns(role))
             /\ Cardinality(DriverRuns(role)') \in Nat
             /\ Cardinality(DriverRuns(role)) \in Nat
             /\ Cap[role] \in Nat
  <2>1. DriverRuns(role) \in SUBSET RunIds
    BY DEF DriverRuns
  <2>2. QED
    BY <2>1, FewerRuns, CapFacts
<1>2. CapRespected'
  BY <1>1 DEF CapInv, CapRespected
<1>3. RoomLeft'
  BY <1>1 DEF CapInv, RoomLeft
<1>4. QED
  BY <1>2, <1>3 DEF CapInv

LEMMA CapInvRun ==
    ASSUME TypeInv, AutoInv, CapInv, NEW r \in RunIds, RunStep(r)
    PROVE  CapInv'
<1>0. run \in [RunIds -> Run] /\ run[r] \in Run /\ driver \in Driver
  BY DEF TypeInv, TypeOK
<1>1. CASE Register(r)
  <2>1. /\ run'[r].role = run[r].role /\ run'[r].by = run[r].by
        /\ \A x \in RunIds \ {r} : run'[x] = run[x]
        /\ run[r].pc = "row"
    BY <1>0, <1>1 DEF Register, Run
  <2>2. CASE run[r].by # "driver"
    <3>1. \A role \in Roles : DriverRuns(role)' \subseteq DriverRuns(role)
      BY <2>1, <2>2 DEF DriverRuns, Registered
    <3>2. driver' = driver
      BY <1>1, <2>2 DEF Register
    <3>3. QED
      BY <3>1, <3>2, CapKept
  <2>3. CASE run[r].by = "driver"
    <3>1. /\ driver.pc = "register" /\ run[r].role = driver.phase
          /\ driver' = Continue(driver.todo)
      BY <1>1, <2>1, <2>3 DEF Register, NewRow, AutoInv, OneNewRow
    <3>2. driver.phase \in Roles
      BY <3>1 DEF TypeInv, DriverOK
    <3>3. driver'.pc \in {"tasks", "each"}
      BY <1>0, <3>1 DEF Continue, AtPhase, Driver
    <3>4. ASSUME NEW role \in Roles
          PROVE  Cardinality(DriverRuns(role)') <= Cap[role]
      <4>1. CASE role # driver.phase
        <5>1. DriverRuns(role)' \subseteq DriverRuns(role) /\ DriverRuns(role) \subseteq RunIds
          BY <2>1, <3>1, <4>1 DEF DriverRuns, Registered
        <5>2. QED
          BY <5>1, FewerRuns, CapFacts DEF CapInv, CapRespected
      <4>2. CASE role = driver.phase
        <5>1. DriverRuns(role)' \subseteq DriverRuns(role) \cup {r}
          BY <2>1 DEF DriverRuns, Registered
        <5>2. DriverRuns(role) \cup {r} \in SUBSET RunIds
          BY DEF DriverRuns
        <5>3. Cardinality(DriverRuns(role) \cup {r}) <= Cardinality(DriverRuns(role)) + 1
          <6>1. IsFiniteSet(DriverRuns(role)) /\ Cardinality(DriverRuns(role)) \in Nat
            BY CapFacts
          <6>2. Cardinality(DriverRuns(role) \cup {r})
                  = IF r \in DriverRuns(role) THEN Cardinality(DriverRuns(role))
                                              ELSE Cardinality(DriverRuns(role)) + 1
            BY <6>1, FS_AddElement
          <6>3. QED
            BY <6>1, <6>2
        <5>4. Cardinality(DriverRuns(role)) < Cap[role]
          BY <3>1, <3>2, <4>2 DEF CapInv, RoomLeft
        <5>5. Cap[role] \in Nat /\ Cardinality(DriverRuns(role)) \in Nat
          BY CapFacts
        <5>6. /\ Cardinality(DriverRuns(role)') \in Nat
              /\ Cardinality(DriverRuns(role) \cup {r}) \in Nat
              /\ Cardinality(DriverRuns(role)') <= Cardinality(DriverRuns(role) \cup {r})
          BY <5>1, <5>2, FewerRuns
        <5>7. QED
          BY <5>3, <5>4, <5>5, <5>6
      <4>3. QED
        BY <4>1, <4>2
    <3>5. QED
      BY <3>3, <3>4 DEF CapInv, CapRespected, RoomLeft
  <2>4. QED
    BY <2>2, <2>3
<1>2. CASE GrantFiLock(r)
  BY <1>0, <1>2, CapKept DEF GrantFiLock, DriverRuns, Registered, Run
<1>3. ASSUME NEW o \in AllOutcomes, RunnerReturns(r, o)
      PROVE  CapInv'
  BY <1>0, <1>3, CapKept DEF RunnerReturns, DriverRuns, Registered, Run
<1>4. CASE Settles(r)
  BY <1>4, CapKept DEF Settles, DriverRuns, Registered, RowRunning
<1>5. QED
  BY <1>1, <1>2, <1>3, <1>4, SettlingSteps DEF RunStep

LEMMA CapInvDriver ==
    ASSUME TypeInv, CapInv, DriverStep
    PROVE  CapInv'
<1>0. driver \in Driver /\ driver.phase \in Phases /\ run \in [RunIds -> Run]
  BY DEF TypeInv, TypeOK, Driver
<1>1. ASSUME UNCHANGED run, driver'.phase \in Roles => driver'.pc \notin {"submit", "register"}
      PROVE  CapInv'
  BY <1>1, CapKept DEF DriverRuns, Registered
<1>2. \A todo : Continue(todo).pc \in {"tasks", "each"}
  BY <1>0 DEF Continue, AtPhase, Driver
<1>3. \A p : AtPhase(p).pc = "tasks"
  BY DEF AtPhase
<1>4. CASE DriverReadTasks
  BY <1>0, <1>1, <1>3, <1>4 DEF DriverReadTasks, Driver
<1>5. CASE DriverReadRows
  BY <1>1, <1>2, <1>5 DEF DriverReadRows
<1>6. ASSUME NEW t \in Tasks, DriverPromote(t)
      PROVE  CapInv'
  BY <1>1, <1>2, <1>3, <1>6 DEF DriverPromote
<1>7. ASSUME NEW t \in Tasks, DriverCheckPlanned(t)
      PROVE  CapInv'
  BY <1>0, <1>1, <1>2, <1>7 DEF DriverCheckPlanned, Driver
<1>8. CASE DriverAssign
  BY <1>1, <1>2, <1>3, <1>8 DEF DriverAssign
<1>9. ASSUME NEW t \in Tasks, DriverCheckTask(t)
      PROVE  CapInv'
  <2>1. driver.phase \in Roles /\ UNCHANGED run
    BY <1>9 DEF DriverCheckTask
  <2>2. CASE driver'.pc \in {"tasks", "each"}
    BY <1>1, <2>1, <2>2
  <2>3. CASE /\ running_count(driver.phase) < Cap[driver.phase]
             /\ driver'.phase = driver.phase
    <3>1. DriverRuns(driver.phase)' \subseteq
              {r \in RunIds : Registered(r) /\ run[r].role = driver.phase}
      BY <2>1, <2>3 DEF DriverRuns, Registered
    <3>2. /\ Cardinality(DriverRuns(driver.phase)') \in Nat
          /\ running_count(driver.phase) \in Nat
          /\ Cardinality(DriverRuns(driver.phase)') <= running_count(driver.phase)
      BY <3>1, FewerRuns DEF running_count
    <3>3. RoomLeft'
      BY <2>1, <2>3, <3>2, CapFacts DEF RoomLeft
    <3>4. CapRespected'
      BY <2>1 DEF CapInv, CapRespected, DriverRuns, Registered
    <3>5. QED
      BY <3>3, <3>4 DEF CapInv
  <2>4. driver'.pc \in {"tasks", "each"} \/ (/\ ~(running_count(driver.phase) >= Cap[driver.phase])
                                            /\ driver'.phase = driver.phase)
    BY <1>0, <1>2, <1>3, <1>9 DEF DriverCheckTask, Driver
  <2>5. running_count(driver.phase) \in Nat /\ Cap[driver.phase] \in Nat
    BY <2>1, FewerRuns, CapFacts DEF running_count
  <2>6. QED
    BY <2>2, <2>3, <2>4, <2>5
<1>10. ASSUME NEW r \in RunIds, DriverSubmit(r)
       PROVE  CapInv'
  <2>1. /\ driver.pc = "submit" /\ driver'.phase = driver.phase
        /\ AddAgentRun(r, driver.phase, driver.cur, "auto", "driver")
    BY <1>0, <1>10 DEF DriverSubmit, Driver
  <2>2. \A role : DriverRuns(role)' = DriverRuns(role)
    BY <2>1, AddFrame DEF DriverRuns, Registered
  <2>3. QED
    BY <2>1, <2>2 DEF CapInv, CapRespected, RoomLeft
<1>11. QED
  BY <1>4, <1>5, <1>6, <1>7, <1>8, <1>9, <1>10 DEF DriverStep

LEMMA CapInvNext == TypeInv /\ AutoInv /\ CapInv /\ [Next]_vars => CapInv'
<1> SUFFICES ASSUME TypeInv, AutoInv, CapInv, [Next]_vars PROVE CapInv'
  OBVIOUS
<1>0. run \in [RunIds -> Run]
  BY DEF TypeInv, TypeOK
<1>1. CASE UNCHANGED <<run, driver>>
  BY <1>1, CapKept DEF DriverRuns, Registered
<1>2. ASSUME NEW r \in RunIds, NEW role, NEW t, NEW mode,
             AddAgentRun(r, role, t, mode, "user"), driver' = driver
      PROVE  CapInv'
  BY <1>2, AddFrame, CapKept DEF DriverRuns, Registered
<1>3. ASSUME NEW u \in Users, SubmitStep(u)
      PROVE  CapInv'
  BY <1>2, <1>3, SubmitFrame DEF UserRun
<1>4. CASE PeopleStep
  <2>1. ASSUME NEW r \in RunIds, NEW t \in Tasks, NEW role \in Roles,
               NEW mode \in UserModes \cup {"manual"}, UserSubmit(r, role, t, mode)
        PROVE  CapInv'
    BY <1>2, <2>1 DEF UserSubmit
  <2>2. ASSUME NEW r \in RunIds, UserCancel(r)
        PROVE  CapInv'
    BY <1>0, <2>2, CapKept DEF UserCancel, DriverRuns, Registered, Run
  <2>3. QED
    BY <1>1, <1>4, <2>1, <2>2 DEF PeopleStep, StartReview, StartRetry,
       StartStandalone, UserUnpause
<1>5. CASE Crash
  <2>1. \A r \in RunIds : run'[r].pc \in {"lost", "free"}
    BY <1>0, <1>5 DEF Crash, NoRun, Run
  <2>2. QED
    BY <1>5, <2>1, CapKept DEF Crash, AtPhase, DriverRuns, Registered
<1>6. CASE UNCHANGED vars
  BY <1>1, <1>6 DEF vars
<1>7. QED
  BY <1>1, <1>3, <1>4, <1>5, <1>6, CapInvRun, CapInvDriver, RequestFrame DEF Next

\* The driver's registered runs stay within max_hl, max_fr and max_fi, whatever
\* people submit meanwhile (running_count and the caps in AutoDriver).
THEOREM CapRespectedCorrect == Spec => []CapRespected
<1>1. Init => CapInv
  <2> SUFFICES ASSUME Init PROVE CapInv
    OBVIOUS
  <2>1. \A role : DriverRuns(role) = {}
    BY DEF Init, DriverRuns, Registered, NoRun
  <2>2. Cardinality({}) = 0
    BY FS_EmptySet
  <2>3. \A role \in Roles : Cardinality(DriverRuns(role)) <= Cap[role]
    BY <2>1, <2>2, CapFacts
  <2>4. driver.pc = "tasks"
    BY DEF Init, AtPhase
  <2>5. QED
    BY <2>3, <2>4 DEF CapInv, CapRespected, RoomLeft
<1>2. CapInv => CapRespected
  BY DEF CapInv
<1>3. Init => AutoInv
  BY DEF Init, AutoInv, OneAutoRun, SnapshotCurrent, OneNewRow, NewRow, RowRunning,
         NoRun, AtPhase
<1>4. QED
  BY <1>1, <1>2, <1>3, TypeInvariant, AutoInvNext, CapInvNext, PTL DEF Spec

-----------------------------------------------------------------------------
(***************************************************************************)
(* A failed realizer freezes its proposal, as long as nobody lifts a pause *)
(* (ProposalFrozen).                                                       *)
(***************************************************************************)
\* Pauses are lifted by hand and by manual runs, chats included, that succeed.
PausesStay ==
    /\ UserOps \cap {"unpause", "chat"} = {}
    /\ "submit" \in UserOps => "manual" \notin UserModes

\* The tasks of t's proposal that are not assigned are paused, those in sibs
\* excepted.
Covered(t, sibs) ==
    \A s \in Tasks :
        ProposalOf[s] = ProposalOf[t] /\ status[s] \in Unassigned => s \in paused \cup sibs

\* A run fails its task only after pausing it, and the cascade that follows has
\* what it still has to pause on its list, whatever moves meanwhile.
CascadeOK(rec) ==
    /\ rec.pc # "free" => rec.mode \in AutoModes
    /\ rec.pc # "unpause"
    /\ rec.pc = "read" => rec.outcome # "failed"
    /\ rec.pc = "apply" =>
         /\ rec.outcome = "failed" => rec.target \in paused
         /\ \A i \in 1 .. Len(rec.path) : rec.path[i] = "failed" => rec.target \in paused
    /\ rec.pc \in {"siblings", "cascade"} => rec.target \in paused
    /\ rec.pc = "cascade" => Covered(rec.target, rec.sibs)

FailedPaused == \A t \in Tasks : status[t] = "failed" => t \in paused

FreezeInv ==
    /\ TypeInv
    /\ \A r \in RunIds : CascadeOK(run[r])
    /\ FailedPaused
    /\ ProposalFrozen

\* One task takes an edge of the table, and fails only when it is paused.
Moves ==
    \/ status' = status
    \/ \E t \in Tasks, to \in Status :
          /\ CanMove(status[t], to)
          /\ status' = [status EXCEPT ![t] = to]
          /\ to = "failed" => t \in paused

-----------------------------------------------------------------------------
\* Only a failed task can be unassigned again.
LEMMA UnassignedMoves ==
    ASSUME NEW s \in Status, NEW to \in Unassigned, CanMove(s, to)
    PROVE  s \in Unassigned \cup {"failed"}
BY DEF CanMove, TRANSITIONS, Status, Unassigned

LEMMA RunStepMoves ==
    ASSUME FreezeInv, NEW r \in RunIds, RunStep(r)
    PROVE  Moves
<1>1. CASE ApplyNext(r)
  <2> DEFINE t == run[r].target
             path == run[r].path
             to == Head(path)
  <2>1. /\ run[r].pc = "apply" /\ path \in Seq(Status) /\ path # <<>>
        /\ t \in Tasks /\ TypeOK
    BY <1>1 DEF ApplyNext, FreezeInv, TypeInv, TypeOK, RunOK, Run
  <2>2. to = path[1] /\ 1 \in 1 .. Len(path) /\ to \in Status
    BY <2>1
  <2>3. to = "failed" => t \in paused
    BY <2>1, <2>2 DEF FreezeInv, CascadeOK
  <2>4. status' = status \/ (CanMove(status[t], to) /\ status' = [status EXCEPT ![t] = to])
    BY <1>1 DEF ApplyNext
  <2> HIDE DEF t, to
  <2>5. QED
    BY <2>1, <2>2, <2>3, <2>4 DEF Moves
<1>2. CASE ~ApplyNext(r)
  BY <1>2 DEF RunStep, Register, GrantFiLock, RunnerReturns, FinishRow, ReadTask,
              PauseTarget, SnapshotSiblings, PauseSibling, PauseProposal,
              UnpauseTarget, Moves
<1>3. QED
  BY <1>1, <1>2

LEMMA DriverStepMoves ==
    ASSUME FreezeInv, DriverStep
    PROVE  Moves
<1>1. ASSUME NEW t \in Tasks, DriverPromote(t)
      PROVE  Moves
  BY <1>1 DEF DriverPromote, Moves, Status
<1>2. CASE DriverAssign
  <2>1. driver.cur \in Tasks
    BY <1>2 DEF DriverAssign, FreezeInv, TypeInv, DriverOK
  <2>2. QED
    BY <1>2, <2>1 DEF DriverAssign, Moves, Status
<1>3. CASE ~DriverAssign /\ ~\E t \in Tasks : DriverPromote(t)
  BY <1>3 DEF DriverStep, DriverReadTasks, DriverReadRows, DriverCheckPlanned,
              DriverCheckTask, DriverSubmit, Moves
<1>4. QED
  BY <1>1, <1>2, <1>3

LEMMA RequestMoveMoves ==
    ASSUME TypeOK, NEW u \in Users, NEW op, NEW to \in Status \ {"failed"}, NEW nextOp,
           RequestMove(u, op, to, nextOp)
    PROVE  Moves
<1> DEFINE t == user[u].task
<1>1. \/ status' = status
      \/ CanMove(status[t], to) /\ status' = [status EXCEPT ![t] = to]
  BY DEF RequestMove
<1>2. CASE t \in Tasks
  BY <1>1, <1>2 DEF Moves
<1>3. CASE t \notin Tasks
  BY <1>1, <1>3 DEF Moves, TypeOK
<1>4. QED
  BY <1>2, <1>3

LEMMA RequestStepMoves ==
    ASSUME FreezeInv, NEW u \in Users, RequestStep(u)
    PROVE  Moves
<1>1. TypeOK
  BY DEF FreezeInv, TypeInv
<1>2. ASSUME NEW t \in Tasks, AcceptPromote(u, t)
      PROVE  Moves
  BY <1>2 DEF AcceptPromote, Moves, Status
<1>3. CASE AcceptReadReady(u) \/ RetryResume(u) \/ NoBranch(u)
  BY <1>3 DEF AcceptReadReady, RetryResume, NoBranch, Moves
<1>4. CASE Accept(u) \/ MarkDone(u) \/ Reject(u) \/ Reassign(u) \/ RetryMove(u)
  BY <1>1, <1>4, RequestMoveMoves DEF Accept, MarkDone, Reject, Reassign, RetryMove, Status
<1>5. CASE FastForward(u)
  BY <1>1, <1>5, RequestMoveMoves DEF FastForward, Status
<1>6. QED
  BY <1>2, <1>3, <1>4, <1>5 DEF RequestStep

LEMMA NextMoves ==
    ASSUME FreezeInv, [Next]_vars
    PROVE  Moves
<1>1. CASE \/ \E u \in Users : SubmitStep(u)
           \/ PeopleStep \/ Crash \/ UNCHANGED vars
  BY <1>1 DEF SubmitStep, StandaloneSubmit, PeopleStep, StartReview, StartRetry,
              StartStandalone, UserSubmit, UserCancel, UserUnpause, Crash, vars, Moves
<1>2. QED
  BY <1>1, RunStepMoves, DriverStepMoves, RequestStepMoves DEF Next

-----------------------------------------------------------------------------
\* The pauses after a step.
LEMMA NextPauses ==
    ASSUME PausesStay, FreezeInv, [Next]_vars
    PROVE  \/ paused' = paused
           \/ \E t \in Tasks : paused' = paused \cup {t}
           \/ \E r \in RunIds : PauseProposal(r)
<1>0. \A r \in RunIds : run[r].pc # "unpause" /\ (run[r].pc # "free" => run[r].target \in Tasks)
  BY DEF FreezeInv, CascadeOK, TypeInv, RunOK
<1>1. CASE \E r \in RunIds : RunStep(r)
  BY <1>0, <1>1 DEF RunStep, Register, GrantFiLock, RunnerReturns, FinishRow, ReadTask,
                    ApplyNext, PauseTarget, SnapshotSiblings, PauseSibling, UnpauseTarget
<1>2. CASE DriverStep
  BY <1>2 DEF DriverStep, DriverReadTasks, DriverReadRows, DriverPromote,
              DriverCheckPlanned, DriverCheckTask, DriverAssign, DriverSubmit
<1>3. CASE \E u \in Users : RequestStep(u) \/ SubmitStep(u)
  BY <1>3 DEF RequestStep, Accept, MarkDone, Reject, Reassign, RetryMove, RequestMove,
              FastForward, AcceptReadReady, AcceptPromote, RetryResume, NoBranch,
              SubmitStep, StandaloneSubmit
<1>4. CASE PeopleStep \/ Crash \/ UNCHANGED vars
  BY <1>4 DEF PeopleStep, StartReview, StartRetry, StartStandalone, UserSubmit,
              UserCancel, UserUnpause, PausesStay, Crash, vars
<1>5. QED
  BY <1>1, <1>2, <1>3, <1>4 DEF Next

\* Nothing is unpaused, and what is newly unassigned had failed.
LEMMA Kept ==
    ASSUME PausesStay, FreezeInv, [Next]_vars
    PROVE  /\ paused \subseteq paused'
           /\ \A t \in Tasks : status'[t] = "failed" => t \in paused
           /\ \A t \in Tasks : status'[t] \in Unassigned =>
                                  status[t] \in Unassigned \/ t \in paused
<1>1. paused \subseteq paused'
  BY NextPauses DEF PauseProposal
<1>2. status \in [Tasks -> Status] /\ FailedPaused
  BY DEF FreezeInv, TypeInv, TypeOK
<1>3. CASE status' = status
  BY <1>1, <1>2, <1>3 DEF FailedPaused
<1>4. ASSUME NEW t \in Tasks, NEW to \in Status, CanMove(status[t], to),
             status' = [status EXCEPT ![t] = to], to = "failed" => t \in paused
      PROVE  /\ \A s \in Tasks : status'[s] = "failed" => s \in paused
             /\ \A s \in Tasks : status'[s] \in Unassigned =>
                                    status[s] \in Unassigned \/ s \in paused
  <2>1. to \in Unassigned => status[t] \in Unassigned \cup {"failed"}
    BY <1>2, <1>4, UnassignedMoves
  <2>2. QED
    BY <1>2, <1>4, <2>1 DEF FailedPaused
<1>5. QED
  BY <1>1, <1>3, <1>4, NextMoves DEF Moves

\* What the invariant says of a run that does not move stays true of it.
LEMMA StaysOK ==
    ASSUME PausesStay, FreezeInv, [Next]_vars, NEW rec, RunOK(rec), CascadeOK(rec)
    PROVE  /\ rec.pc # "free" => rec.mode \in AutoModes
           /\ rec.pc # "unpause"
           /\ rec.pc = "read" => rec.outcome # "failed"
           /\ rec.pc = "apply" =>
                /\ rec.outcome = "failed" => rec.target \in paused'
                /\ \A i \in 1 .. Len(rec.path) : rec.path[i] = "failed" => rec.target \in paused'
           /\ rec.pc \in {"siblings", "cascade"} => rec.target \in paused'
           /\ rec.pc = "cascade" =>
                \A s \in Tasks :
                    ProposalOf[s] = ProposalOf[rec.target] /\ status'[s] \in Unassigned
                        => s \in paused' \cup rec.sibs
<1>1. paused \subseteq paused'
  BY Kept
<1>2. ASSUME rec.pc = "cascade", NEW s \in Tasks,
             ProposalOf[s] = ProposalOf[rec.target], status'[s] \in Unassigned
      PROVE  s \in paused' \cup rec.sibs
  BY <1>1, <1>2, Kept DEF CascadeOK, Covered
<1>3. QED
  BY <1>1, <1>2 DEF CascadeOK

\* One run changes to a record that the invariant allows.
LEMMA RunChanges ==
    ASSUME PausesStay, FreezeInv, [Next]_vars, NEW r \in RunIds, NEW rec, RunOK(rec),
           CascadeOK(rec), run' = [run EXCEPT ![r] = rec]
    PROVE  (\A x \in RunIds : CascadeOK(run[x]))'
<1>1. run \in [RunIds -> Run] /\ \A x \in RunIds : RunOK(run[x]) /\ CascadeOK(run[x])
  BY DEF FreezeInv, TypeInv, TypeOK
<1>2. ASSUME NEW x \in RunIds
      PROVE  \E old : RunOK(old) /\ CascadeOK(old) /\ run'[x] = old
  BY <1>1
<1>3. ASSUME NEW x \in RunIds
      PROVE  CascadeOK(run[x])'
  <2>1. PICK old : RunOK(old) /\ CascadeOK(old) /\ run'[x] = old
    BY <1>2
  <2>2. QED
    BY <2>1, StaysOK DEF CascadeOK, Covered
<1>4. QED
  BY <1>3

LEMMA NoRunCascade == CascadeOK(NoRun)
BY DEF NoRun, CascadeOK

\* No path of a success fails the task.
LEMMA SuccessPathKind ==
    ASSUME NEW rec, NEW s, NEW i \in 1 .. Len(SuccessPath(rec, s))
    PROVE  SuccessPath(rec, s)[i] # "failed"
<1>1. \/ SuccessPath(rec, s) = <<"in_progress", "implemented">>
      \/ SuccessPath(rec, s) = <<"implemented">>
      \/ SuccessPath(rec, s) = <<"testing", "review", "rejected">>
      \/ SuccessPath(rec, s) = <<"testing", "review">>
      \/ SuccessPath(rec, s) = <<"review", "rejected">>
      \/ SuccessPath(rec, s) = <<"review">>
  BY Zenon DEF SuccessPath
<1>2. CASE SuccessPath(rec, s) = <<"in_progress", "implemented">>
  BY <1>2
<1>3. CASE SuccessPath(rec, s) = <<"implemented">>
  BY <1>3
<1>4. CASE SuccessPath(rec, s) = <<"testing", "review", "rejected">>
  BY <1>4
<1>5. CASE SuccessPath(rec, s) = <<"testing", "review">>
  BY <1>5
<1>6. CASE SuccessPath(rec, s) = <<"review", "rejected">>
  BY <1>6
<1>7. CASE SuccessPath(rec, s) = <<"review">>
  BY <1>7
<1>8. QED
  BY <1>1, <1>2, <1>3, <1>4, <1>5, <1>6, <1>7

\* Records whose pc asks for nothing.
LEMMA PlainOK ==
    ASSUME NEW rec, rec.mode \in AutoModes,
           rec.pc \notin {"unpause", "read", "apply", "siblings", "cascade"}
    PROVE  CascadeOK(rec)
BY DEF CascadeOK

LEMMA RunStepKeeps ==
    ASSUME PausesStay, FreezeInv, [Next]_vars, NEW r \in RunIds, RunStep(r)
    PROVE  (\A x \in RunIds : CascadeOK(run[x]))'
<1>0. /\ run[r] \in Run /\ RunOK(run[r]) /\ CascadeOK(run[r])
      /\ run \in [RunIds -> Run]
      /\ (\A x \in RunIds : RunOK(run[x])) /\ (\A x \in RunIds : CascadeOK(run[x]))
  BY DEF FreezeInv, TypeInv, TypeOK, RunOK
<1>1. \A x \in RunIds : RunOK(run'[x])
  BY NextType DEF FreezeInv, TypeInv
<1>2. ASSUME NEW rec, run' = [run EXCEPT ![r] = rec], CascadeOK(rec)
      PROVE  (\A x \in RunIds : CascadeOK(run[x]))'
  <2>1. RunOK(rec)
    BY <1>0, <1>1, <1>2
  <2>2. QED
    BY <1>2, <2>1, RunChanges
<1>3. CASE Register(r) \/ GrantFiLock(r)
  <2>1. PICK pc \in {"waiting", "running"} :
          run[r].pc # "free" /\ run' = [run EXCEPT ![r] = [run[r] EXCEPT !.pc = pc]]
    BY <1>3 DEF Register, GrantFiLock
  <2> DEFINE rec == [run[r] EXCEPT !.pc = pc]
  <2>2. rec.mode \in AutoModes /\ rec.pc = pc
    BY <1>0, <2>1 DEF Run, CascadeOK
  <2> HIDE DEF rec
  <2>3. CascadeOK(rec)
    BY <2>2, PlainOK
  <2>4. QED
    BY <1>2, <2>1, <2>3 DEF rec
<1>4. ASSUME NEW o \in AllOutcomes, RunnerReturns(r, o)
      PROVE  (\A x \in RunIds : CascadeOK(run[x]))'
  <2> DEFINE rec == [run[r] EXCEPT !.pc = "finish", !.outcome = o]
  <2>1. run' = [run EXCEPT ![r] = rec] /\ run[r].pc = "running"
    BY <1>4 DEF RunnerReturns
  <2>2. rec.mode \in AutoModes /\ rec.pc = "finish"
    BY <1>0, <2>1 DEF Run, CascadeOK
  <2> HIDE DEF rec
  <2>3. QED
    BY <1>2, <2>1, <2>2, PlainOK
<1>5. CASE FinishRow(r)
  <2> DEFINE p == <<"planned">>
             rec == [run[r] EXCEPT !.pc = "apply", !.path = p]
             reads == [run[r] EXCEPT !.pc = "read"]
             waits == [run[r] EXCEPT !.pc = "pause"]
  <2>1. \A i \in 1 .. Len(p) : p[i] # "failed"
    OBVIOUS
  <2>2. /\ run[r].pc = "finish" /\ run[r].mode \in AutoModes
        /\ run' = [run EXCEPT ![r] = AfterRow(run[r])]
    BY <1>0, <1>5 DEF FinishRow, CascadeOK
  <2>3. \/ AfterRow(run[r]) = NoRun
        \/ AfterRow(run[r]) = rec /\ run[r].outcome # "failed"
        \/ AfterRow(run[r]) = reads /\ run[r].outcome # "failed"
        \/ AfterRow(run[r]) = waits
    BY <2>2 DEF AfterRow, AfterSuccess
  <2> HIDE DEF p
  <2>4. run[r].outcome # "failed" => CascadeOK(rec)
    BY <1>0, <2>1, <2>2 DEF Run, CascadeOK, AutoModes
  <2>5. run[r].outcome # "failed" => CascadeOK(reads)
    BY <1>0, <2>2 DEF Run, CascadeOK, AutoModes
  <2>6. CascadeOK(waits)
    BY <1>0, <2>2 DEF Run, CascadeOK, AutoModes
  <2> HIDE DEF rec, reads, waits
  <2>7. QED
    BY <1>2, <2>2, <2>3, <2>4, <2>5, <2>6, NoRunCascade
<1>6. CASE ReadTask(r)
  <2> DEFINE p == SuccessPath(run[r], status[run[r].target])
             rec == [run[r] EXCEPT !.pc = "apply", !.path = p]
  <2>1. \A i \in 1 .. Len(p) : p[i] # "failed"
    BY SuccessPathKind
  <2>2. run' = [run EXCEPT ![r] = rec] /\ run[r].pc = "read"
    BY <1>6 DEF ReadTask
  <2> HIDE DEF p
  <2>3. CascadeOK(rec)
    BY <1>0, <2>1, <2>2 DEF Run, CascadeOK
  <2> HIDE DEF rec
  <2>4. QED
    BY <1>2, <2>2, <2>3
<1>7. CASE ApplyNext(r)
  <2> DEFINE path == run[r].path
             rest == Tail(path)
             rec == [run[r] EXCEPT !.path = rest]
             e == <<>>
             end == [run[r] EXCEPT !.pc = "siblings", !.path = e]
  <2>1. run[r].pc = "apply" /\ path \in Seq(Status) /\ path # <<>>
    BY <1>0, <1>7 DEF ApplyNext, RunOK, Run
  <2>2. \A i \in 1 .. Len(rest) : i + 1 \in 1 .. Len(path) /\ rest[i] = path[i + 1]
    BY <2>1
  <2>3. \/ run' = [run EXCEPT ![r] = NoRun]
        \/ run' = [run EXCEPT ![r] = end] /\ run[r].outcome = "failed"
        \/ run' = [run EXCEPT ![r] = rec]
    BY <1>7 DEF ApplyNext, AfterPath
  <2> HIDE DEF rest, e
  <2>4. CascadeOK(rec)
    BY <1>0, <2>1, <2>2 DEF Run, CascadeOK
  <2>5. run[r].outcome = "failed" => CascadeOK(end)
    BY <1>0, <2>1 DEF Run, CascadeOK
  <2> HIDE DEF rec, end
  <2>6. QED
    BY <1>2, <2>3, <2>4, <2>5, NoRunCascade
<1>8. CASE PauseTarget(r)
  <2> DEFINE p == <<"failed">>
             rec == [run[r] EXCEPT !.pc = "apply", !.path = p]
  <2>1. /\ run[r].pc = "pause" /\ paused' = paused \cup {run[r].target}
        /\ \/ run' = [run EXCEPT ![r] = rec]
           \/ run' = [run EXCEPT ![r] = NoRun]
    BY <1>8 DEF PauseTarget
  <2> HIDE DEF p
  <2>2. /\ rec.pc = "apply" /\ rec.mode \in AutoModes /\ rec.target = run[r].target
    BY <1>0, <2>1 DEF Run, CascadeOK
  <2> HIDE DEF rec
  <2>3. CASE run' = [run EXCEPT ![r] = NoRun]
    BY <1>2, <2>3, NoRunCascade
  <2>4. CASE run' = [run EXCEPT ![r] = rec]
    <3>1. run'[r] = rec /\ \A x \in RunIds \ {r} : run'[x] = run[x]
      BY <1>0, <2>4
    <3>2. CascadeOK(run[r])'
      BY <2>1, <2>2, <3>1 DEF CascadeOK
    <3>3. ASSUME NEW x \in RunIds \ {r}
          PROVE  CascadeOK(run[x])'
      BY <1>0, <3>1, StaysOK DEF CascadeOK, Covered
    <3>4. QED
      BY <3>2, <3>3
  <2>5. QED
    BY <2>1, <2>3, <2>4
<1>9. CASE SnapshotSiblings(r)
  <2> DEFINE t == run[r].target
             sibs == {s \in Siblings(t) : status[s] \in NotStarted}
             rec == [run[r] EXCEPT !.pc = "cascade", !.sibs = sibs]
  <2>1. /\ run[r].pc = "siblings" /\ t \in paused
        /\ \/ run' = [run EXCEPT ![r] = rec]
           \/ run' = [run EXCEPT ![r] = NoRun]
    BY <1>0, <1>9 DEF SnapshotSiblings, CascadeOK
  <2>2. Covered(t, sibs)
    BY <2>1 DEF Covered, Siblings, NotStarted, Unassigned
  <2> HIDE DEF sibs
  <2>3. CascadeOK(rec)
    BY <1>0, <2>1, <2>2 DEF Run, CascadeOK
  <2> HIDE DEF rec
  <2>4. QED
    BY <1>2, <2>1, <2>3, NoRunCascade
<1>10. ASSUME NEW s \in Tasks, PauseSibling(r, s)
       PROVE  (\A x \in RunIds : CascadeOK(run[x]))'
  <2> DEFINE sibs == run[r].sibs \ {s}
             rec == [run[r] EXCEPT !.sibs = sibs]
  <2>1. /\ run[r].pc = "cascade" /\ run' = [run EXCEPT ![r] = rec]
        /\ paused' = paused \cup {s} /\ status' = status
    BY <1>10 DEF PauseSibling
  <2>2. run[r].sibs \subseteq sibs \cup {s}
    OBVIOUS
  <2> HIDE DEF sibs
  <2>3. /\ rec.pc = "cascade" /\ rec.mode \in AutoModes /\ rec.target = run[r].target
        /\ rec.sibs = sibs
    BY <1>0, <2>1 DEF Run, CascadeOK
  <2> HIDE DEF rec
  <2>4. run'[r] = rec /\ \A x \in RunIds \ {r} : run'[x] = run[x]
    BY <1>0, <2>1
  <2>5. CascadeOK(run[r])'
    BY <1>0, <2>1, <2>2, <2>3, <2>4 DEF CascadeOK, Covered
  <2>6. ASSUME NEW x \in RunIds \ {r}
        PROVE  CascadeOK(run[x])'
    BY <1>0, <2>4, StaysOK DEF CascadeOK, Covered
  <2>7. QED
    BY <2>5, <2>6
<1>11. CASE PauseProposal(r) \/ UnpauseTarget(r)
  <2>1. run' = [run EXCEPT ![r] = NoRun]
    BY <1>11 DEF PauseProposal, UnpauseTarget
  <2>2. QED
    BY <1>2, <2>1, NoRunCascade
<1>12. QED
  BY <1>3, <1>4, <1>5, <1>6, <1>7, <1>8, <1>9, <1>10, <1>11 DEF RunStep

\* A new run is about to be registered, and is not manual.
LEMMA AddKeeps ==
    ASSUME PausesStay, FreezeInv, [Next]_vars, NEW r \in RunIds, NEW role \in Roles,
           NEW t \in Tasks, NEW mode \in AutoModes, NEW by \in {"driver", "user"},
           AddAgentRun(r, role, t, mode, by)
    PROVE  (\A x \in RunIds : CascadeOK(run[x]))'
<1> DEFINE rec == [NoRun EXCEPT !.pc = "row", !.role = role, !.target = t,
                                !.mode = mode, !.by = by]
<1>1. run' = [run EXCEPT ![r] = rec]
  BY DEF AddAgentRun
<1>2. rec.pc = "row" /\ rec.mode = mode
  BY DEF NoRun
<1>3. run \in [RunIds -> Run] /\ \A x \in RunIds : RunOK(run'[x])
  BY AddOK DEF FreezeInv, TypeInv, TypeOK, Modes, AutoModes
<1> HIDE DEF rec
<1>4. RunOK(rec) /\ CascadeOK(rec)
  BY <1>1, <1>2, <1>3, PlainOK
<1>5. QED
  BY <1>1, <1>4, RunChanges

LEMMA NextKeepsCascades ==
    ASSUME PausesStay, FreezeInv, [Next]_vars
    PROVE  (\A x \in RunIds : CascadeOK(run[x]))'
<1>0. /\ run \in [RunIds -> Run] /\ DriverOK
      /\ \A x \in RunIds : RunOK(run[x]) /\ CascadeOK(run[x])
  BY DEF FreezeInv, TypeInv, TypeOK
<1>1. ASSUME run' = run
      PROVE  (\A x \in RunIds : CascadeOK(run[x]))'
  BY <1>0, <1>1, StaysOK DEF CascadeOK, Covered
<1>2. ASSUME NEW r \in RunIds, DriverSubmit(r)
      PROVE  (\A x \in RunIds : CascadeOK(run[x]))'
  <2>1. /\ driver.phase \in Roles /\ driver.cur \in Tasks
        /\ AddAgentRun(r, driver.phase, driver.cur, "auto", "driver")
    BY <1>0, <1>2 DEF DriverSubmit, DriverOK
  <2>2. QED
    BY <2>1, AddKeeps DEF AutoModes
<1>3. ASSUME NEW u \in Users, SubmitStep(u)
      PROVE  (\A x \in RunIds : CascadeOK(run[x]))'
  <2>1. PICK r \in RunIds, t \in Tasks, role \in {"fr", "fi"} : StandaloneSubmit(u, r, t, role)
    BY <1>3 DEF SubmitStep
  <2>2. role \in Roles /\ "standalone" \in AutoModes
    BY DEF Roles, AutoModes
  <2>3. QED
    BY <2>1, <2>2, AddKeeps DEF StandaloneSubmit
<1>4. ASSUME NEW r \in RunIds, NEW t \in Tasks, NEW role \in Roles,
             NEW mode \in UserModes \cup {"manual"}, UserSubmit(r, role, t, mode)
      PROVE  (\A x \in RunIds : CascadeOK(run[x]))'
  <2>1. mode \in AutoModes /\ AddAgentRun(r, role, t, mode, "user")
    BY <1>4, PipelineAssumption DEF UserSubmit, PausesStay, Modes, AutoModes
  <2>2. QED
    BY <2>1, AddKeeps
<1>5. ASSUME NEW r \in RunIds, UserCancel(r)
      PROVE  (\A x \in RunIds : CascadeOK(run[x]))'
  <2> DEFINE rec == [run[r] EXCEPT !.cancel = TRUE]
  <2>1. run' = [run EXCEPT ![r] = rec] /\ run[r].pc \in {"waiting", "running"}
    BY <1>5 DEF UserCancel, Registered
  <2>2. RunOK(rec) /\ rec.mode \in AutoModes /\ rec.pc \in {"waiting", "running"}
    BY <1>0, <2>1 DEF RunOK, Run, CascadeOK
  <2> HIDE DEF rec
  <2>3. CascadeOK(rec)
    BY <2>2, PlainOK
  <2>4. QED
    BY <2>1, <2>2, <2>3, RunChanges
<1>6. CASE Crash
  <2> DEFINE lost(r) == [run[r] EXCEPT !.pc = "lost", !.cancel = FALSE, !.outcome = "none"]
  <2>1. ASSUME NEW r \in RunIds, RowRunning(r)
        PROVE  lost(r).pc = "lost" /\ lost(r).mode \in AutoModes
    BY <1>0, <2>1 DEF RowRunning, Run, CascadeOK
  <2>2. run' = [r \in RunIds |-> IF RowRunning(r) THEN lost(r) ELSE NoRun]
    BY <1>6 DEF Crash
  <2> HIDE DEF lost
  <2>3. \A x \in RunIds : run'[x].pc = "free" \/ (run'[x].pc = "lost" /\ run'[x].mode \in AutoModes)
    BY <2>1, <2>2 DEF NoRun
  <2>4. QED
    BY <2>3 DEF CascadeOK
<1>7. CASE DriverStep /\ ~(\E r \in RunIds : DriverSubmit(r))
  <2>1. run' = run
    BY <1>7 DEF DriverStep, DriverReadTasks, DriverReadRows, DriverPromote,
                DriverCheckPlanned, DriverCheckTask, DriverAssign
  <2>2. QED
    BY <1>1, <2>1
<1>8. CASE \E u \in Users : RequestStep(u)
  <2>1. run' = run
    BY <1>8 DEF RequestStep, Accept, MarkDone, Reject, Reassign, RetryMove, RequestMove,
                FastForward, AcceptReadReady, AcceptPromote, RetryResume, NoBranch
  <2>2. QED
    BY <1>1, <2>1
<1>9. CASE PeopleStep
  <2>1. CASE run' = run
    BY <1>1, <2>1
  <2>2. CASE run' # run
    BY <1>4, <1>5, <1>9, <2>2 DEF PeopleStep, StartReview, StartRetry, StartStandalone,
                                  UserUnpause
  <2>3. QED
    BY <2>1, <2>2
<1>10. CASE UNCHANGED vars
  BY <1>1, <1>10 DEF vars
<1>11. QED
  BY <1>2, <1>3, <1>6, <1>7, <1>8, <1>9, <1>10, RunStepKeeps DEF Next

-----------------------------------------------------------------------------
\* The proposal is paused last, when nothing of it is left on the list.
LEMMA NextKeepsFrozen ==
    ASSUME PausesStay, FreezeInv, [Next]_vars
    PROVE  FailedPaused' /\ ProposalFrozen'
<1>1. /\ paused \subseteq paused'
      /\ \A t \in Tasks : status'[t] = "failed" => t \in paused
      /\ \A t \in Tasks : status'[t] \in Unassigned => status[t] \in Unassigned \/ t \in paused
  BY Kept
<1>2. FailedPaused'
  BY <1>1 DEF FailedPaused
<1>3. ASSUME NEW t \in Tasks, ProposalOf[t] \in paused', status'[t] \in Unassigned,
             t \notin paused
      PROVE  t \in paused'
  <2>1. status[t] \in Unassigned
    BY <1>1, <1>3
  <2>2. CASE ProposalOf[t] \in paused
    BY <1>3, <2>1, <2>2 DEF FreezeInv, ProposalFrozen
  <2>3. ASSUME ProposalOf[t] \notin paused, NEW r \in RunIds, PauseProposal(r)
        PROVE  t \in paused'
    <3>1. /\ run[r].pc = "cascade" /\ run[r].sibs = {}
          /\ ProposalOf[t] = ProposalOf[run[r].target]
      BY <1>3, <2>3 DEF PauseProposal
    <3>2. Covered(run[r].target, {})
      BY <3>1 DEF FreezeInv, CascadeOK
    <3>3. QED
      BY <1>1, <2>1, <3>1, <3>2 DEF Covered
  <2>4. ProposalOf[t] \notin Tasks
    BY PipelineAssumption
  <2>5. QED
    BY <1>3, <2>2, <2>3, <2>4, NextPauses
<1>4. QED
  BY <1>1, <1>2, <1>3 DEF ProposalFrozen

LEMMA InitFreeze == Init => FreezeInv
<1> SUFFICES ASSUME Init PROVE FreezeInv
  OBVIOUS
<1>1. \A r \in RunIds : CascadeOK(run[r])
  BY NoRunCascade DEF Init
<1>2. FailedPaused /\ ProposalFrozen
  BY DEF Init, FailedPaused, ProposalFrozen
<1>3. QED
  BY <1>1, <1>2, InitType DEF FreezeInv

\* Once a realizer's failure has paused a proposal, all its tasks that are not
\* assigned are paused and stay so, for any number of runs and requests, of
\* failures that cascade at the same time, of retries and restarts, as long as
\* nobody lifts a pause.
THEOREM ProposalFrozenCorrect ==
    ASSUME PausesStay
    PROVE  Spec => []ProposalFrozen
<1>1. FreezeInv /\ [Next]_vars => FreezeInv'
  <2> SUFFICES ASSUME FreezeInv, [Next]_vars PROVE FreezeInv'
    OBVIOUS
  <2>1. TypeInv'
    BY NextType DEF FreezeInv
  <2>2. QED
    BY <2>1, NextKeepsCascades, NextKeepsFrozen DEF FreezeInv
<1>2. FreezeInv => ProposalFrozen
  BY DEF FreezeInv
<1>3. QED
  BY <1>1, <1>2, InitFreeze, PTL DEF Spec

=============================================================================
