------------------------- MODULE RequirementsProofs -------------------------
(***************************************************************************)
(* Theorems about Requirements, for any set of requirements, features,     *)
(* proposals, runs and reviewers and any cap.                              *)
(***************************************************************************)
EXTENDS Requirements, FiniteSetTheorems, TLAPS

\* What a run is, with what TypeOK says of its target.
RunOK(rec) == rec \in Run /\ (rec.pc # "free" => rec.target \in Reqs)

LEMMA NoRunOK == RunOK(NoRun) /\ NoRun.pc = "free" /\ NoRun.by = "none"
BY DEF NoRun, RunOK, Run, RunPC

LEMMA PCOK ==
    ASSUME NEW rec, RunOK(rec), rec.pc # "free", NEW pc \in RunPC
    PROVE  RunOK([rec EXCEPT !.pc = pc])
BY DEF RunOK, Run

LEMMA MintedOK ==
    ASSUME NEW rec, RunOK(rec), rec.pc # "free"
    PROVE  RunOK(Minted(rec))
BY DEF Minted, RunOK, Run, RunPC

LEMMA AfterRowOK ==
    ASSUME NEW rec, RunOK(rec), rec.pc = "finish"
    PROVE  RunOK(AfterRow(rec))
<1>1. AfterRow(rec) \in {[rec EXCEPT !.pc = "hook"], [rec EXCEPT !.pc = "pause"],
                         Minted(rec), NoRun}
  BY DEF AfterRow
<1>2. {"hook", "pause"} \subseteq RunPC
  BY DEF RunPC
<1>3. QED
  BY <1>1, <1>2, NoRunOK, PCOK, MintedOK

\* One run changes, to a record that is a run.
LEMMA RunUpdate ==
    ASSUME TypeOK, NEW r \in RunIds, NEW rec, RunOK(rec),
           run' = [run EXCEPT ![r] = rec]
    PROVE  /\ run' \in [RunIds -> Run]
           /\ \A x \in RunIds : run'[x].pc # "free" => run'[x].target \in Reqs
           /\ run'[r] = rec /\ \A x \in RunIds \ {r} : run'[x] = run[x]
BY DEF TypeOK, RunOK

LEMMA AddOK ==
    ASSUME TypeOK, NEW r \in RunIds, NEW q \in Reqs, NEW mode \in HLModes,
           NEW by \in {"driver", "request", "user"},
           AddAgentRun(r, q, mode, by)
    PROVE  /\ run' \in [RunIds -> Run]
           /\ \A x \in RunIds : run'[x].pc # "free" => run'[x].target \in Reqs
           /\ run[r].pc = "free"
           /\ run'[r].pc = "row" /\ run'[r].target = q /\ run'[r].by = by
           /\ run'[r].outcome = "none"
           /\ \A x \in RunIds \ {r} : run'[x] = run[x]
<1> DEFINE rec == [NoRun EXCEPT !.pc = "row", !.target = q, !.mode = mode, !.by = by]
<1>1. /\ RunOK(rec) /\ rec.pc = "row" /\ rec.target = q /\ rec.by = by
      /\ rec.outcome = "none"
  BY DEF NoRun, RunOK, Run, RunPC
<1>2. run' = [run EXCEPT ![r] = rec] /\ run[r].pc = "free"
  BY DEF AddAgentRun
<1> HIDE DEF rec
<1>3. QED
  BY <1>1, <1>2, RunUpdate

LEMMA ContinueType ==
    ASSUME NEW todo \in SUBSET Reqs
    PROVE  /\ Continue(todo) \in Driver /\ Continue(todo).pc \in {"reqs", "each"}
           /\ Continue(todo).todo \subseteq todo
           /\ NewTick \in Driver /\ NewTick.pc = "reqs" /\ NewTick.todo = {}
BY DEF Continue, NewTick, Driver

-----------------------------------------------------------------------------
LEMMA RunStepType ==
    ASSUME TypeOK, NEW r \in RunIds, RunStep(r)
    PROVE  TypeOK'
<1>0. RunOK(run[r]) /\ driver.todo \subseteq Reqs
  BY DEF TypeOK, RunOK, Driver
<1>1. ASSUME NEW rec, RunOK(rec), run' = [run EXCEPT ![r] = rec],
             UNCHANGED <<req, proposal, task, paused, driver, submit, review>>
      PROVE  TypeOK'
  BY <1>1, RunUpdate DEF TypeOK
<1>2. CASE Register(r)
  <2>1. RunOK([run[r] EXCEPT !.pc = "running"])
    BY <1>0, <1>2, PCOK DEF Register, RunPC
  <2>2. run' = [run EXCEPT ![r] = [run[r] EXCEPT !.pc = "running"]]
    BY <1>2 DEF Register, TypeOK
  <2>3. /\ run' \in [RunIds -> Run]
        /\ \A x \in RunIds : run'[x].pc # "free" => run'[x].target \in Reqs
    BY <2>1, <2>2, RunUpdate
  <2>4. driver' = driver \/ driver' = Continue(driver.todo)
    BY <1>2 DEF Register
  <2>5. driver' \in Driver /\ (driver'.pc \in {"submit", "register"} => driver'.cur \in Reqs)
    BY <1>0, <2>4, ContinueType DEF TypeOK
  <2>6. QED
    BY <1>2, <2>3, <2>5 DEF TypeOK, Register
<1>3. ASSUME NEW o \in Outcomes, NEW plan \in Plans \cup {{}}, RunnerReturns(r, o, plan)
      PROVE  TypeOK'
  <2> DEFINE rec == [run[r] EXCEPT !.pc = "finish", !.outcome = o, !.plan = plan]
  <2>1. plan \in SUBSET Features /\ o \in HLOutcomes
    BY RequirementsAssumption
  <2>2. RunOK(rec)
    BY <1>0, <1>3, <2>1 DEF RunnerReturns, RunOK, Run, RunPC
  <2>3. run' = [run EXCEPT ![r] = rec]
    BY <1>3 DEF RunnerReturns, TypeOK
  <2> HIDE DEF rec
  <2>4. QED
    BY <1>1, <1>3, <2>2, <2>3 DEF RunnerReturns
<1>4. CASE FinishRow(r)
  BY <1>0, <1>1, <1>4, AfterRowOK DEF FinishRow
<1>5. ASSUME NEW p \in PropIds, Mint(r, p)
      PROVE  TypeOK'
  <2>1. RunOK(Minted(run[r])) /\ run' = [run EXCEPT ![r] = Minted(run[r])]
    BY <1>0, <1>5, MintedOK DEF Mint
  <2>2. /\ run' \in [RunIds -> Run]
        /\ \A x \in RunIds : run'[x].pc # "free" => run'[x].target \in Reqs
    BY <2>1, RunUpdate
  <2>3. [status |-> "pending", of |-> run[r].target, features |-> run[r].plan] \in Proposal
    BY <1>0 DEF RunOK, Run, Proposal, PropStatus
  <2>4. proposal' \in [PropIds -> Proposal]
    BY <1>5, <2>3 DEF Mint, TypeOK
  <2>5. QED
    BY <1>5, <2>2, <2>4 DEF Mint, TypeOK
<1>6. ASSUME run' = [run EXCEPT ![r] = NoRun]
      PROVE  /\ run' \in [RunIds -> Run]
             /\ \A x \in RunIds : run'[x].pc # "free" => run'[x].target \in Reqs
  BY <1>6, NoRunOK, RunUpdate
<1>7. CASE Mark(r)
  BY <1>6, <1>7 DEF Mark, TypeOK, ReqStatus
<1>8. CASE PauseTarget(r)
  BY <1>6, <1>8 DEF PauseTarget, TypeOK
<1>9. CASE UnpauseTarget(r)
  BY <1>6, <1>9 DEF UnpauseTarget, TypeOK
<1>10. QED
  BY <1>2, <1>3, <1>4, <1>5, <1>7, <1>8, <1>9 DEF RunStep

LEMMA DriverStepType ==
    ASSUME TypeOK, DriverStep
    PROVE  TypeOK'
<1>0. driver \in Driver /\ driver.todo \subseteq Reqs
  BY DEF TypeOK, Driver
<1>1. ASSUME driver' \in Driver, driver'.pc \in {"submit", "register"} => driver'.cur \in Reqs,
             UNCHANGED <<req, proposal, task, paused, run, submit, review>>
      PROVE  TypeOK'
  BY <1>1 DEF TypeOK
<1>2. CASE DriverReadReqs
  BY <1>0, <1>1, <1>2, ContinueType DEF DriverReadReqs, Driver
<1>3. CASE DriverReadRows
  <2>1. PICK todo \in SUBSET Reqs : driver' = Continue(todo)
    BY <1>0, <1>3 DEF DriverReadRows
  <2>2. QED
    BY <1>1, <1>3, <2>1, ContinueType DEF DriverReadRows
<1>4. ASSUME NEW q \in Reqs, DriverCheck(q)
      PROVE  TypeOK'
  <2>1. driver.todo \ {q} \in SUBSET Reqs
    BY <1>0
  <2>2. \/ driver' = Continue(driver.todo \ {q}) \/ driver' = NewTick
        \/ driver' = [pc |-> "submit", todo |-> driver.todo \ {q}, cur |-> q]
    BY <1>4 DEF DriverCheck
  <2>3. driver' \in Driver /\ (driver'.pc \in {"submit", "register"} => driver'.cur \in Reqs)
    BY <2>1, <2>2, ContinueType DEF Driver
  <2>4. QED
    BY <1>1, <1>4, <2>3 DEF DriverCheck
<1>5. ASSUME NEW r \in RunIds, DriverSubmit(r)
      PROVE  TypeOK'
  <2>1. driver.cur \in Reqs /\ AddAgentRun(r, driver.cur, "auto", "driver")
    BY <1>5 DEF DriverSubmit, TypeOK
  <2>2. /\ run' \in [RunIds -> Run]
        /\ \A x \in RunIds : run'[x].pc # "free" => run'[x].target \in Reqs
    BY <2>1, AddOK DEF HLModes
  <2>3. driver' \in Driver /\ driver'.cur \in Reqs
    BY <1>0, <1>5, <2>1 DEF DriverSubmit, Driver
  <2>4. QED
    BY <1>5, <2>2, <2>3 DEF DriverSubmit, TypeOK
<1>6. QED
  BY <1>2, <1>3, <1>4, <1>5 DEF DriverStep

LEMMA ReviewStepType ==
    ASSUME TypeOK, NEW u \in Users, ReviewStep(u)
    PROVE  TypeOK'
<1>1. NoReview \in Review /\ NoReview.pc = "idle"
  BY DEF NoReview, Review
<1>2. ASSUME NEW f \in Features, AddTask(u, f)
      PROVE  TypeOK'
  BY <1>1, <1>2 DEF AddTask, TypeOK, Review
<1>3. ASSUME NEW status \in PropStatus, review[u].pc # "idle", SetStatus(u, status)
      PROVE  TypeOK'
  BY <1>1, <1>3 DEF SetStatus, TypeOK, Proposal
<1>4. QED
  BY <1>2, <1>3 DEF ReviewStep, Approve, Reject, PropStatus

LEMMA PeopleStepType ==
    ASSUME TypeOK, PeopleStep
    PROVE  TypeOK'
<1>1. ASSUME NEW q \in Reqs, AddRequirement(q) \/ UserUnpause(q)
      PROVE  TypeOK'
  BY <1>1 DEF AddRequirement, UserUnpause, TypeOK, ReqStatus
<1>2. ASSUME NEW r \in RunIds, NEW q \in Reqs, NEW mode \in HLModes, UserSubmit(r, q, mode)
      PROVE  TypeOK'
  BY <1>2, AddOK DEF UserSubmit, TypeOK
<1>3. ASSUME NEW u \in Users, NEW p \in PropIds, NEW pc \in {"approve", "reject"},
             NEW chosen \in SUBSET Features, StartReview(u, p, pc, chosen)
      PROVE  TypeOK'
  BY <1>3 DEF StartReview, TypeOK, Review
<1>4. QED
  BY <1>1, <1>2, <1>3 DEF PeopleStep

LEMMA CrashType ==
    ASSUME TypeOK, Crash
    PROVE  TypeOK'
<1>1. ASSUME NEW r \in RunIds, RowRunning(r)
      PROVE  RunOK([run[r] EXCEPT !.pc = "lost", !.outcome = "none", !.plan = {}])
  BY <1>1 DEF TypeOK, RunOK, Run, RunPC, RowRunning
<1>2. \A r \in RunIds : RunOK(run'[r])
  BY <1>1, NoRunOK DEF Crash
<1>3. run' \in [RunIds -> Run]
  BY <1>2 DEF Crash, RunOK
<1>4. driver' \in Driver /\ driver'.pc = "reqs"
  BY ContinueType DEF Crash
<1>5. review' \in [Users -> Review] /\ \A u \in Users : review'[u].pc = "idle"
  BY DEF Crash, NoReview, Review
<1>6. QED
  BY <1>2, <1>3, <1>4, <1>5 DEF Crash, TypeOK, RunOK

LEMMA InitType == Init => TypeOK
<1>1. NoProposal \in Proposal
  BY DEF NoProposal, Proposal, PropStatus
<1>2. NoReview \in Review /\ NoReview.pc = "idle"
  BY DEF NoReview, Review
<1>3. QED
  BY <1>1, <1>2, NoRunOK, ContinueType DEF Init, TypeOK, ReqStatus, RunOK

LEMMA NextType == TypeOK /\ [Next]_rvars => TypeOK'
<1> SUFFICES ASSUME TypeOK, [Next]_rvars PROVE TypeOK'
  OBVIOUS
<1>1. ASSUME NEW r \in RunIds, NEW q \in Reqs, SubmitFirstRun(r, q)
      PROVE  TypeOK'
  BY <1>1, AddOK DEF SubmitFirstRun, TypeOK, HLModes
<1>2. CASE UNCHANGED rvars
  BY <1>2 DEF rvars, TypeOK
<1>3. QED
  BY <1>1, <1>2, RunStepType, DriverStepType, ReviewStepType, PeopleStepType, CrashType
     DEF Next

\* Every variable of the pipeline of requirements keeps its type.
THEOREM RequirementsTypeCorrect == Spec => []TypeOK
BY InitType, NextType, PTL DEF Spec

-----------------------------------------------------------------------------
\* How a step of a run changes the runs and the driver: either the run becomes
\* registered, or it moves on from where it is to where it is not counted by
\* anybody who did not count it before.
LEMMA RunStepShape ==
    ASSUME TypeOK, NEW r \in RunIds, RunStep(r)
    PROVE  /\ \A x \in RunIds \ {r} : run'[x] = run[x]
           /\ UNCHANGED <<submit, review>>
           /\ \/ Register(r) /\ run'[r] = [run[r] EXCEPT !.pc = "running"]
              \/ /\ driver' = driver
                 /\ run[r].pc \in {"running", "finish", "hook", "mark", "pause", "unpause"}
                 /\ run'[r].pc \notin {"row", "running", "lost"}
                 /\ \/ run'[r].target = run[r].target /\ run'[r].by = run[r].by
                    \/ run'[r] = NoRun
                 /\ run'[r].pc = "finish" => run[r].pc = "running"
<1>0. run[r] \in Run /\ run \in [RunIds -> Run]
  BY DEF TypeOK
<1>1. CASE Register(r)
  BY <1>0, <1>1 DEF Register
<1>2. ASSUME NEW o \in Outcomes, NEW plan \in Plans \cup {{}}, RunnerReturns(r, o, plan)
      PROVE  /\ \A x \in RunIds \ {r} : run'[x] = run[x]
             /\ run[r].pc = "running" /\ run'[r].pc = "finish"
             /\ run'[r].target = run[r].target /\ run'[r].by = run[r].by
             /\ driver' = driver /\ UNCHANGED <<submit, review>>
  BY <1>0, <1>2 DEF RunnerReturns, Run
<1>3. CASE FinishRow(r)
  <2>1. /\ \A x \in RunIds \ {r} : run'[x] = run[x]
        /\ run'[r] = AfterRow(run[r]) /\ run[r].pc = "finish"
    BY <1>0, <1>3 DEF FinishRow
  <2>2. AfterRow(run[r]) \in {[run[r] EXCEPT !.pc = "hook"], [run[r] EXCEPT !.pc = "pause"],
                              [run[r] EXCEPT !.pc = "unpause", !.plan = {}],
                              [run[r] EXCEPT !.pc = "mark", !.plan = {}], NoRun}
    BY DEF AfterRow, Minted
  <2>3. /\ run'[r].pc \in {"hook", "pause", "unpause", "mark", "free"}
        /\ \/ run'[r].target = run[r].target /\ run'[r].by = run[r].by
           \/ run'[r] = NoRun
    <3>1. ASSUME NEW pc \in {"hook", "pause"}, run'[r] = [run[r] EXCEPT !.pc = pc]
          PROVE  run'[r].pc = pc /\ run'[r].target = run[r].target /\ run'[r].by = run[r].by
      BY <1>0, <3>1 DEF Run
    <3>2. ASSUME NEW pc \in {"unpause", "mark"},
                 run'[r] = [run[r] EXCEPT !.pc = pc, !.plan = {}]
          PROVE  run'[r].pc = pc /\ run'[r].target = run[r].target /\ run'[r].by = run[r].by
      BY <1>0, <3>2 DEF Run
    <3>3. run'[r] = NoRun \/ (\E pc \in {"hook", "pause"} : run'[r] = [run[r] EXCEPT !.pc = pc])
            \/ (\E pc \in {"unpause", "mark"} : run'[r] = [run[r] EXCEPT !.pc = pc, !.plan = {}])
      BY <2>1, <2>2
    <3>4. QED
      BY <3>1, <3>2, <3>3, NoRunOK
  <2>4. driver' = driver /\ UNCHANGED <<submit, review>>
    BY <1>3 DEF FinishRow
  <2>5. QED
    BY <2>1, <2>3, <2>4
<1>4. ASSUME NEW p \in PropIds, Mint(r, p)
      PROVE  /\ \A x \in RunIds \ {r} : run'[x] = run[x]
             /\ run'[r] \in {[run[r] EXCEPT !.pc = "unpause", !.plan = {}],
                             [run[r] EXCEPT !.pc = "mark", !.plan = {}]}
  BY <1>0, <1>4 DEF Mint, Minted
<1>5. ASSUME Mark(r) \/ PauseTarget(r) \/ UnpauseTarget(r)
      PROVE  (\A x \in RunIds \ {r} : run'[x] = run[x]) /\ run'[r] = NoRun
  BY <1>0, <1>5 DEF Mark, PauseTarget, UnpauseTarget
<1>6. CASE \E o \in Outcomes, plan \in Plans \cup {{}} : RunnerReturns(r, o, plan)
  BY <1>2, <1>6
<1>7. CASE \E p \in PropIds : Mint(r, p)
  BY <1>0, <1>4, <1>7 DEF Mint, Run
<1>8. CASE Mark(r) \/ PauseTarget(r) \/ UnpauseTarget(r)
  BY <1>5, <1>8 DEF Mark, PauseTarget, UnpauseTarget, NoRun
<1>9. QED
  BY <1>1, <1>3, <1>6, <1>7, <1>8 DEF RunStep

-----------------------------------------------------------------------------
(***************************************************************************)
(* The driver never dispatches a requirement it has a run on: what it has  *)
(* left of its list is free of its own runs, because it is the only one to *)
(* start them and takes a requirement off the list when it starts one.     *)
(***************************************************************************)
ListCurrent ==
    driver.pc \in {"each", "submit", "register"} =>
        \A r \in RunIds : Dispatched(r) => run[r].target \notin driver.todo

CurrentFree ==
    driver.pc = "submit" =>
        /\ driver.cur \notin driver.todo
        /\ \A r \in RunIds : Dispatched(r) => run[r].target # driver.cur

OneNewRow ==
    \A r \in RunIds : run[r].by = "driver" /\ run[r].pc = "row" =>
        driver.pc = "register" /\ run[r].target = driver.cur

DispatchInv == OneDriverRun /\ ListCurrent /\ CurrentFree /\ OneNewRow

\* Runs of the driver only end, and the driver is where it was or starts anew.
LEMMA DispatchKept ==
    ASSUME DispatchInv,
           \A x \in RunIds : Dispatched(x)' => /\ Dispatched(x)
                                               /\ run'[x].target = run[x].target,
           \A x \in RunIds : run'[x].by = "driver" /\ run'[x].pc = "row"
                                => run[x].by = "driver" /\ run[x].pc = "row" /\ driver' = driver,
           driver' = driver \/ driver'.pc \in {"reqs", "rows"}
    PROVE  DispatchInv'
<1>1. OneDriverRun'
  BY DEF DispatchInv, OneDriverRun
<1>2. ListCurrent' /\ CurrentFree'
  BY DEF DispatchInv, ListCurrent, CurrentFree
<1>3. ASSUME NEW x \in RunIds, run'[x].by = "driver", run'[x].pc = "row"
      PROVE  driver'.pc = "register" /\ run'[x].target = driver'.cur
  <2>1. Dispatched(x)'
    BY <1>3 DEF Dispatched, RowRunning
  <2>2. QED
    BY <1>3, <2>1 DEF DispatchInv, OneNewRow
<1>4. QED
  BY <1>1, <1>2, <1>3 DEF DispatchInv, OneNewRow

LEMMA DispatchRun ==
    ASSUME TypeOK, DispatchInv, NEW r \in RunIds, RunStep(r)
    PROVE  DispatchInv'
<1>0. run[r] \in Run /\ driver \in Driver /\ driver.todo \in SUBSET Reqs
  BY DEF TypeOK, Driver
<1>1. CASE Register(r) /\ run'[r] = [run[r] EXCEPT !.pc = "running"]
  <2>1. /\ run[r].pc = "row" /\ run'[r].pc = "running"
        /\ run'[r].by = run[r].by /\ run'[r].target = run[r].target
        /\ \A x \in RunIds \ {r} : run'[x] = run[x]
    BY <1>0, <1>1, RunStepShape DEF Register, Run
  <2>2. \A x \in RunIds : /\ Dispatched(x)' <=> Dispatched(x)
                          /\ run'[x].target = run[x].target
    BY <2>1 DEF Dispatched, RowRunning
  <2>3. CASE run[r].by # "driver"
    <3>1. driver' = driver
      BY <1>1, <2>3 DEF Register
    <3>2. QED
      BY <2>1, <2>2, <2>3, <3>1, DispatchKept
  <2>4. CASE run[r].by = "driver"
    <3>1. driver.pc = "register" /\ driver' = Continue(driver.todo)
      BY <1>1, <2>1, <2>4 DEF Register, DispatchInv, OneNewRow
    <3>2. driver'.pc \in {"reqs", "each"} /\ driver'.todo \subseteq driver.todo
      BY <1>0, <3>1, ContinueType
    <3>3. OneDriverRun' /\ ListCurrent' /\ CurrentFree'
      BY <2>2, <3>1, <3>2 DEF DispatchInv, OneDriverRun, ListCurrent, CurrentFree
    <3>4. \A x \in RunIds : ~(run'[x].by = "driver" /\ run'[x].pc = "row")
      <4>1. ASSUME NEW x \in RunIds \ {r}, run[x].by = "driver", run[x].pc = "row"
            PROVE  FALSE
        <5>1. run[x].target = driver.cur /\ run[r].target = driver.cur
          BY <2>1, <2>4, <4>1 DEF DispatchInv, OneNewRow
        <5>2. Dispatched(x) /\ Dispatched(r)
          BY <2>1, <2>4, <4>1 DEF Dispatched, RowRunning
        <5>3. QED
          BY <5>1, <5>2 DEF DispatchInv, OneDriverRun
      <4>2. QED
        BY <2>1, <4>1
    <3>5. QED
      BY <3>3, <3>4 DEF DispatchInv, OneNewRow
  <2>5. QED
    BY <2>3, <2>4
<1>2. CASE ~Register(r)
  <2>1. /\ driver' = driver /\ \A x \in RunIds \ {r} : run'[x] = run[x]
        /\ run'[r].pc \notin {"row", "running", "lost"}
        /\ \/ run'[r].target = run[r].target /\ run'[r].by = run[r].by
           \/ run'[r] = NoRun
        /\ run'[r].pc = "finish" => run[r].pc = "running"
    BY <1>2, RunStepShape
  <2>2. ASSUME Dispatched(r)'
        PROVE  Dispatched(r) /\ run'[r].target = run[r].target
    BY <2>1, <2>2, NoRunOK DEF Dispatched, RowRunning
  <2>3. ASSUME NEW x \in RunIds \ {r}, Dispatched(x)'
        PROVE  Dispatched(x) /\ run'[x].target = run[x].target
    BY <2>1, <2>3 DEF Dispatched, RowRunning
  <2>4. QED
    BY <2>1, <2>2, <2>3, DispatchKept
<1>3. QED
  BY <1>1, <1>2, RunStepShape DEF Register

\* A run that is added is dispatched at once if and only if the driver adds it.
LEMMA AddShape ==
    ASSUME TypeOK, NEW r \in RunIds, NEW q \in Reqs, NEW mode \in HLModes,
           NEW by \in {"request", "user"}, AddAgentRun(r, q, mode, by)
    PROVE  \A x \in RunIds :
              /\ Dispatched(x)' => Dispatched(x) /\ run'[x].target = run[x].target
              /\ run'[x].by = "driver" => run'[x] = run[x]
<1>1. run'[r].by = by /\ \A x \in RunIds \ {r} : run'[x] = run[x]
  BY AddOK
<1>2. QED
  BY <1>1 DEF Dispatched, RowRunning

LEMMA DispatchDriver ==
    ASSUME TypeOK, DispatchInv, DriverStep
    PROVE  DispatchInv'
<1>0. driver \in Driver /\ driver.todo \in SUBSET Reqs
  BY DEF TypeOK, Driver
<1>1. ASSUME UNCHANGED run, driver.pc # "register", driver'.pc \in {"reqs", "rows"}
      PROVE  DispatchInv'
  <2>1. \A x \in RunIds : ~(run[x].by = "driver" /\ run[x].pc = "row")
    BY <1>1 DEF DispatchInv, OneNewRow
  <2>2. QED
    BY <1>1, <2>1, DispatchKept DEF Dispatched, RowRunning
\* The driver goes on with a list that none of its runs is on.
<1>2. ASSUME UNCHANGED run, driver.pc # "register",
             driver'.pc \in {"reqs", "each", "submit"}, CurrentFree',
             driver'.pc # "reqs" =>
                 \A r \in RunIds : Dispatched(r) => run[r].target \notin driver'.todo
      PROVE  DispatchInv'
  <2>1. \A x \in RunIds : ~(run[x].by = "driver" /\ run[x].pc = "row")
    BY <1>2 DEF DispatchInv, OneNewRow
  <2>2. \A x \in RunIds : (Dispatched(x)' <=> Dispatched(x)) /\ run'[x] = run[x]
    BY <1>2 DEF Dispatched, RowRunning
  <2>3. OneDriverRun' /\ OneNewRow'
    BY <2>1, <2>2 DEF DispatchInv, OneDriverRun, OneNewRow
  <2>4. ListCurrent'
    BY <1>2, <2>2 DEF ListCurrent
  <2>5. QED
    BY <1>2, <2>3, <2>4 DEF DispatchInv
<1>3. CASE DriverReadReqs
  BY <1>0, <1>1, <1>3, ContinueType DEF DriverReadReqs, Driver
<1>4. CASE DriverReadRows
  <2> DEFINE todo == {q \in driver.todo :
                        \A r \in RunIds : ~(RowRunning(r) /\ run[r].target = q)}
  <2>1. driver' = Continue(todo) /\ driver.pc = "rows" /\ UNCHANGED run
    BY <1>4 DEF DriverReadRows
  <2>2. todo \in SUBSET Reqs /\ \A r \in RunIds : Dispatched(r) => run[r].target \notin todo
    BY <1>0 DEF Dispatched
  <2> HIDE DEF todo
  <2>3. /\ driver'.pc \in {"reqs", "each"} /\ CurrentFree'
        /\ \A r \in RunIds : Dispatched(r) => run[r].target \notin driver'.todo
    BY <2>1, <2>2, ContinueType DEF CurrentFree
  <2>4. QED
    BY <1>2, <2>1, <2>3
<1>5. ASSUME NEW q \in Reqs, DriverCheck(q)
      PROVE  DispatchInv'
  <2>1. /\ driver.pc = "each" /\ q \in driver.todo /\ UNCHANGED run
        /\ driver.todo \ {q} \in SUBSET Reqs
        /\ \A r \in RunIds : Dispatched(r) => run[r].target \notin driver.todo
    BY <1>0, <1>5 DEF DriverCheck, DispatchInv, ListCurrent
  <2>2. CASE driver' = Continue(driver.todo \ {q})
    <3>1. /\ driver'.pc \in {"reqs", "each"} /\ CurrentFree'
          /\ \A r \in RunIds : Dispatched(r) => run[r].target \notin driver'.todo
      BY <2>1, <2>2, ContinueType DEF CurrentFree
    <3>2. QED
      BY <1>2, <2>1, <3>1
  <2>3. CASE driver' = NewTick
    BY <1>1, <2>1, <2>3, ContinueType
  <2>4. CASE driver' = [pc |-> "submit", todo |-> driver.todo \ {q}, cur |-> q]
    <3>1. \A r \in RunIds : Dispatched(r)' <=> Dispatched(r)
      BY <2>1 DEF Dispatched, RowRunning
    <3>2. CurrentFree'
      BY <2>1, <2>4, <3>1 DEF CurrentFree
    <3>3. QED
      BY <1>2, <2>1, <2>4, <3>2
  <2>5. QED
    BY <1>5, <2>2, <2>3, <2>4 DEF DriverCheck
<1>6. ASSUME NEW r \in RunIds, DriverSubmit(r)
      PROVE  DispatchInv'
  <2>1. /\ driver.pc = "submit" /\ driver' = [driver EXCEPT !.pc = "register"]
        /\ driver.cur \in Reqs /\ AddAgentRun(r, driver.cur, "auto", "driver")
    BY <1>6 DEF DriverSubmit, TypeOK
  <2>2. driver'.pc = "register" /\ driver'.todo = driver.todo /\ driver'.cur = driver.cur
    BY <1>0, <2>1 DEF Driver
  <2>3. /\ run'[r].pc = "row" /\ run'[r].target = driver.cur
        /\ \A x \in RunIds \ {r} : run'[x] = run[x]
    BY <2>1, AddOK DEF HLModes
  <2>4. \A x \in RunIds \ {r} :
            /\ Dispatched(x)' <=> Dispatched(x)
            /\ Dispatched(x) => run[x].target # driver.cur /\ run[x].target \notin driver.todo
            /\ ~(run[x].by = "driver" /\ run[x].pc = "row")
    BY <2>1, <2>3 DEF DispatchInv, ListCurrent, CurrentFree, OneNewRow, Dispatched, RowRunning
  <2>5. driver.cur \notin driver.todo
    BY <2>1 DEF DispatchInv, CurrentFree
  <2>6. OneDriverRun'
    <3>1. ASSUME NEW x \in RunIds, NEW y \in RunIds, Dispatched(x)', Dispatched(y)',
                 run'[x].target = run'[y].target
          PROVE  x = y
      BY <2>3, <2>4, <3>1 DEF DispatchInv, OneDriverRun
    <3>2. QED
      BY <3>1 DEF OneDriverRun
  <2>7. ListCurrent' /\ CurrentFree' /\ OneNewRow'
    BY <2>2, <2>3, <2>4, <2>5 DEF ListCurrent, CurrentFree, OneNewRow
  <2>8. QED
    BY <2>6, <2>7 DEF DispatchInv
<1>7. QED
  BY <1>3, <1>4, <1>5, <1>6 DEF DriverStep

LEMMA DispatchNext == TypeOK /\ DispatchInv /\ [Next]_rvars => DispatchInv'
<1> SUFFICES ASSUME TypeOK, DispatchInv, [Next]_rvars PROVE DispatchInv'
  OBVIOUS
<1>1. CASE UNCHANGED <<run, driver>>
  BY <1>1, DispatchKept DEF Dispatched, RowRunning
<1>2. ASSUME NEW r \in RunIds, NEW q \in Reqs, SubmitFirstRun(r, q)
      PROVE  DispatchInv'
  <2>1. AddAgentRun(r, q, "auto", "request") /\ driver' = driver
    BY <1>2 DEF SubmitFirstRun
  <2>2. QED
    BY <2>1, AddShape, DispatchKept DEF HLModes
<1>3. ASSUME NEW r \in RunIds, NEW q \in Reqs, NEW mode \in HLModes, UserSubmit(r, q, mode)
      PROVE  DispatchInv'
  BY <1>3, AddShape, DispatchKept DEF UserSubmit
<1>4. CASE PeopleStep
  BY <1>1, <1>3, <1>4 DEF PeopleStep, AddRequirement, UserUnpause, StartReview
<1>5. CASE \E u \in Users : ReviewStep(u)
  BY <1>1, <1>5 DEF ReviewStep, AddTask, Approve, Reject, SetStatus
<1>6. CASE Crash
  <2>1. \A x \in RunIds :
           IF RowRunning(x) THEN /\ run'[x].pc = "lost" /\ run'[x].by = run[x].by
                                 /\ run'[x].target = run[x].target
                            ELSE run'[x] = NoRun
    BY <1>6 DEF Crash, TypeOK, Run
  <2>2. driver'.pc = "reqs"
    BY <1>6, ContinueType DEF Crash
  <2>3. QED
    BY <2>1, <2>2, NoRunOK, DispatchKept DEF Dispatched, RowRunning
<1>7. CASE UNCHANGED rvars
  BY <1>1, <1>7 DEF rvars
<1>8. QED
  BY <1>2, <1>4, <1>5, <1>6, <1>7, DispatchRun, DispatchDriver DEF Next

LEMMA InitDispatch == Init => DispatchInv
BY NoRunOK, ContinueType
   DEF Init, DispatchInv, OneDriverRun, ListCurrent, CurrentFree, OneNewRow, Dispatched, RowRunning

\* The driver never has two unfinished runs on one requirement, although it
\* decides on rows read earlier (AutoDriver._tick_hl).
THEOREM OneDriverRunCorrect == Spec => []OneDriverRun
<1>1. DispatchInv => OneDriverRun
  BY DEF DispatchInv
<1>2. QED
  BY <1>1, InitDispatch, RequirementsTypeCorrect, DispatchNext, PTL DEF Spec

-----------------------------------------------------------------------------
(***************************************************************************)
(* The cap: the driver submits one run at a time, so the room it saw when  *)
(* it counted the registered runs is still there when its own registers.   *)
(***************************************************************************)
RoomLeft == driver.pc \in {"submit", "register"} => Cardinality(DriverRuns) < MaxHL

CapInv == DriverCap /\ RoomLeft

\* Part of a finite set of runs is not more than the whole.
LEMMA FewerRuns ==
    ASSUME NEW S \in SUBSET RunIds, NEW T \in SUBSET S
    PROVE  /\ Cardinality(S) \in Nat /\ Cardinality(T) \in Nat
           /\ Cardinality(T) <= Cardinality(S)
BY RequirementsAssumption, FS_Subset, FS_CardinalityType

\* No run of the driver registers, and it does not go on to submit.
LEMMA CapKept ==
    ASSUME CapInv, DriverRuns' \subseteq DriverRuns,
           driver' = driver \/ driver'.pc \in {"reqs", "rows", "each"}
    PROVE  CapInv'
<1>1. /\ Cardinality(DriverRuns') \in Nat /\ Cardinality(DriverRuns) \in Nat
      /\ Cardinality(DriverRuns') <= Cardinality(DriverRuns)
  <2>1. DriverRuns \in SUBSET RunIds
    BY DEF DriverRuns
  <2>2. QED
    BY <2>1, FewerRuns
<1>2. QED
  BY <1>1, RequirementsAssumption DEF CapInv, DriverCap, RoomLeft

LEMMA CapRun ==
    ASSUME TypeOK, DispatchInv, CapInv, NEW r \in RunIds, RunStep(r)
    PROVE  CapInv'
<1>0. run[r] \in Run /\ driver.todo \in SUBSET Reqs
  BY DEF TypeOK, Driver
<1>1. CASE Register(r)
  <2>1. /\ run[r].pc = "row" /\ run'[r].by = run[r].by
        /\ \A x \in RunIds \ {r} : run'[x] = run[x]
    BY <1>0, <1>1, RunStepShape DEF Register, Run
  <2>2. CASE run[r].by # "driver"
    <3>1. DriverRuns' \subseteq DriverRuns /\ driver' = driver
      BY <1>1, <2>1, <2>2 DEF DriverRuns, Register
    <3>2. QED
      BY <3>1, CapKept
  <2>3. CASE run[r].by = "driver"
    <3>1. driver.pc = "register" /\ driver' = Continue(driver.todo)
      BY <1>1, <2>1, <2>3 DEF Register, DispatchInv, OneNewRow
    <3>2. driver'.pc \in {"reqs", "each"}
      BY <1>0, <3>1, ContinueType
    <3>3. DriverRuns' \subseteq DriverRuns \cup {r} /\ DriverRuns \cup {r} \in SUBSET RunIds
      BY <2>1 DEF DriverRuns
    <3>4. IsFiniteSet(DriverRuns) /\ Cardinality(DriverRuns) \in Nat
      BY <3>3, RequirementsAssumption, FS_Subset, FS_CardinalityType
    <3>5. Cardinality(DriverRuns \cup {r}) <= Cardinality(DriverRuns) + 1
      <4>1. Cardinality(DriverRuns \cup {r}) = IF r \in DriverRuns THEN Cardinality(DriverRuns)
                                                  ELSE Cardinality(DriverRuns) + 1
        BY <3>4, FS_AddElement
      <4>2. QED
        BY <3>4, <4>1
    <3>6. /\ Cardinality(DriverRuns') \in Nat /\ Cardinality(DriverRuns \cup {r}) \in Nat
          /\ Cardinality(DriverRuns') <= Cardinality(DriverRuns \cup {r})
      BY <3>3, FewerRuns
    <3>7. Cardinality(DriverRuns) < MaxHL
      BY <3>1 DEF CapInv, RoomLeft
    <3>8. Cardinality(DriverRuns') <= MaxHL
      BY <3>4, <3>5, <3>6, <3>7, RequirementsAssumption
    <3>9. QED
      BY <3>2, <3>8 DEF CapInv, DriverCap, RoomLeft
  <2>4. QED
    BY <2>2, <2>3
<1>2. CASE ~Register(r)
  <2>1. DriverRuns' \subseteq DriverRuns /\ driver' = driver
    BY <1>2, RunStepShape DEF DriverRuns
  <2>2. QED
    BY <2>1, CapKept
<1>3. QED
  BY <1>1, <1>2

LEMMA CapDriver ==
    ASSUME TypeOK, CapInv, DriverStep
    PROVE  CapInv'
<1>0. driver \in Driver /\ driver.todo \in SUBSET Reqs
  BY DEF TypeOK, Driver
<1>1. ASSUME UNCHANGED run, driver'.pc \in {"reqs", "rows", "each"}
      PROVE  CapInv'
  BY <1>1, CapKept DEF DriverRuns
<1>2. CASE DriverReadReqs
  BY <1>0, <1>1, <1>2, ContinueType DEF DriverReadReqs, Driver
<1>3. CASE DriverReadRows
  <2>1. PICK todo \in SUBSET Reqs : driver' = Continue(todo)
    BY <1>0, <1>3 DEF DriverReadRows
  <2>2. QED
    BY <1>1, <1>3, <2>1, ContinueType DEF DriverReadRows
<1>4. ASSUME NEW q \in Reqs, DriverCheck(q)
      PROVE  CapInv'
  <2>1. UNCHANGED run /\ driver.todo \ {q} \in SUBSET Reqs
    BY <1>0, <1>4 DEF DriverCheck
  <2>2. CASE driver' = Continue(driver.todo \ {q}) \/ driver' = NewTick
    BY <1>1, <2>1, <2>2, ContinueType
  <2>3. CASE ~(running_count >= MaxHL)
    <3>1. DriverRuns' \subseteq {r \in RunIds : run[r].pc = "running"}
      BY <2>1 DEF DriverRuns
    <3>2. /\ Cardinality(DriverRuns') \in Nat /\ running_count \in Nat
          /\ Cardinality(DriverRuns') <= running_count
      BY <3>1, FewerRuns DEF running_count
    <3>3. QED
      BY <2>3, <3>2, RequirementsAssumption DEF CapInv, DriverCap, RoomLeft
  <2>4. QED
    BY <1>4, <2>2, <2>3 DEF DriverCheck
<1>5. ASSUME NEW r \in RunIds, DriverSubmit(r)
      PROVE  CapInv'
  <2>1. /\ driver.pc = "submit" /\ driver.cur \in Reqs
        /\ AddAgentRun(r, driver.cur, "auto", "driver")
    BY <1>5 DEF DriverSubmit, TypeOK
  <2>2. DriverRuns' = DriverRuns
    BY <2>1, AddOK DEF HLModes, DriverRuns
  <2>3. QED
    BY <2>1, <2>2 DEF CapInv, DriverCap, RoomLeft
<1>6. QED
  BY <1>2, <1>3, <1>4, <1>5 DEF DriverStep

LEMMA CapNext == TypeOK /\ DispatchInv /\ CapInv /\ [Next]_rvars => CapInv'
<1> SUFFICES ASSUME TypeOK, DispatchInv, CapInv, [Next]_rvars PROVE CapInv'
  OBVIOUS
<1>1. CASE UNCHANGED <<run, driver>>
  BY <1>1, CapKept DEF DriverRuns
<1>2. ASSUME NEW r \in RunIds, NEW q \in Reqs, SubmitFirstRun(r, q)
      PROVE  CapInv'
  <2>1. AddAgentRun(r, q, "auto", "request") /\ driver' = driver
    BY <1>2 DEF SubmitFirstRun
  <2>2. QED
    BY <2>1, AddOK, CapKept DEF HLModes, DriverRuns
<1>3. ASSUME NEW r \in RunIds, NEW q \in Reqs, NEW mode \in HLModes, UserSubmit(r, q, mode)
      PROVE  CapInv'
  <2>1. AddAgentRun(r, q, mode, "user") /\ driver' = driver
    BY <1>3 DEF UserSubmit
  <2>2. QED
    BY <2>1, AddOK, CapKept DEF DriverRuns
<1>4. CASE PeopleStep
  BY <1>1, <1>3, <1>4 DEF PeopleStep, AddRequirement, UserUnpause, StartReview
<1>5. CASE \E u \in Users : ReviewStep(u)
  BY <1>1, <1>5 DEF ReviewStep, AddTask, Approve, Reject, SetStatus
<1>6. CASE Crash
  <2>1. \A x \in RunIds : run'[x].pc \in {"lost", "free"}
    BY <1>6, NoRunOK DEF Crash, TypeOK, Run
  <2>2. driver'.pc = "reqs" /\ DriverRuns' = {}
    BY <1>6, <2>1, ContinueType DEF Crash, DriverRuns
  <2>3. QED
    BY <2>2, CapKept
<1>7. CASE UNCHANGED rvars
  BY <1>1, <1>7 DEF rvars
<1>8. QED
  BY <1>2, <1>4, <1>5, <1>6, <1>7, CapRun, CapDriver DEF Next

\* The driver's own head leaders stay within max_hl (AutoDriver._tick_hl),
\* whatever requests and people submit meanwhile.
THEOREM DriverCapCorrect == Spec => []DriverCap
<1>1. Init => CapInv
  <2> SUFFICES ASSUME Init PROVE CapInv
    OBVIOUS
  <2>1. DriverRuns = {} /\ driver.pc = "reqs"
    BY NoRunOK, ContinueType DEF Init, DriverRuns
  <2>2. QED
    BY <2>1, FS_EmptySet, RequirementsAssumption DEF CapInv, DriverCap, RoomLeft
<1>2. CapInv => DriverCap
  BY DEF CapInv
<1>3. QED
  BY <1>1, <1>2, InitDispatch, RequirementsTypeCorrect, DispatchNext, CapNext, PTL DEF Spec

-----------------------------------------------------------------------------
(***************************************************************************)
(* What is processed is answered: a run that is about to mark its          *)
(* requirement has minted a proposal for it, and no proposal is reused.    *)
(***************************************************************************)
Answered(q) == \E p \in PropIds : proposal[p].of = q
AnsweredNext(q) == \E p \in PropIds : proposal'[p].of = q

Unused == \A p \in PropIds : proposal[p].status = "unknown" => proposal[p].of = Nobody

AnswerInv ==
    /\ Unused
    /\ \A r \in RunIds : run[r].outcome \in Outcomes \cup {"none"}
    /\ \A r \in RunIds : run[r].pc = "finish" => run[r].outcome \in Outcomes
    /\ "empty" \notin Outcomes =>
          /\ \A q \in Reqs : req[q] = "processed" => Answered(q)
          /\ \A r \in RunIds : run[r].pc = "mark" => Answered(run[r].target)

\* Proposals stay what they are proposals of, and no requirement is marked.
LEMMA AnswerKept ==
    ASSUME TypeOK, AnswerInv, Unused',
           \A p \in PropIds : proposal[p].of \in Reqs => proposal'[p].of = proposal[p].of,
           \A q \in Reqs : req'[q] = "processed" =>
               req[q] = "processed" \/ ("empty" \notin Outcomes => AnsweredNext(q)),
           \A r \in RunIds :
              \/ run'[r] = run[r]
              \/ /\ run'[r].outcome \in Outcomes \cup {"none"}
                 /\ run'[r].pc = "finish" => run'[r].outcome \in Outcomes
                 /\ run'[r].pc = "mark" /\ "empty" \notin Outcomes => AnsweredNext(run'[r].target)
    PROVE  AnswerInv'
<1>1. ASSUME NEW q \in Reqs, Answered(q)
      PROVE  AnsweredNext(q)
  BY <1>1 DEF Answered, AnsweredNext
<1>2. /\ \A r \in RunIds : run'[r].outcome \in Outcomes \cup {"none"}
      /\ \A r \in RunIds : run'[r].pc = "finish" => run'[r].outcome \in Outcomes
  BY DEF AnswerInv
<1>3. ASSUME "empty" \notin Outcomes, NEW q \in Reqs, req'[q] = "processed"
      PROVE  AnsweredNext(q)
  BY <1>1, <1>3 DEF AnswerInv
<1>4. ASSUME "empty" \notin Outcomes, NEW r \in RunIds, run'[r].pc = "mark"
      PROVE  AnsweredNext(run'[r].target)
  BY <1>1, <1>4 DEF AnswerInv, TypeOK
<1>5. QED
  BY <1>2, <1>3, <1>4 DEF AnswerInv, Answered, AnsweredNext

\* What the runs of other steps are afterwards.
LEMMA AnswerQuiet ==
    ASSUME TypeOK, AnswerInv, UNCHANGED req,
           \A p \in PropIds : /\ proposal'[p].of = proposal[p].of
                              /\ proposal'[p].status = "unknown" => proposal[p].status = "unknown",
           \A r \in RunIds : run'[r] = run[r] \/ (/\ run'[r].outcome = "none"
                                                  /\ run'[r].pc \notin {"finish", "mark"})
    PROVE  AnswerInv'
<1>1. Unused'
  BY DEF AnswerInv, Unused
<1>2. QED
  BY <1>1, AnswerKept

LEMMA AnswerRun ==
    ASSUME TypeOK, AnswerInv, NEW r \in RunIds, RunStep(r)
    PROVE  AnswerInv'
<1>0. run[r] \in Run /\ run \in [RunIds -> Run] /\ \A x \in RunIds \ {r} : run'[x] = run[x]
  BY RunStepShape DEF TypeOK
<1>1. ASSUME UNCHANGED <<req, proposal>>,
             \/ run'[r].outcome = run[r].outcome /\ run'[r].pc \notin {"finish", "mark"}
             \/ run'[r].outcome \in Outcomes /\ run'[r].pc = "finish"
             \/ run'[r] = NoRun
      PROVE  AnswerInv'
  <2>1. Unused'
    BY <1>1 DEF AnswerInv, Unused
  <2>2. NoRun.pc = "free" /\ NoRun.outcome = "none"
    BY DEF NoRun
  <2>3. /\ run'[r].outcome \in Outcomes \cup {"none"}
        /\ run'[r].pc = "finish" => run'[r].outcome \in Outcomes
        /\ run'[r].pc # "mark"
    BY <1>1, <2>2 DEF AnswerInv
  <2>4. QED
    BY <1>0, <1>1, <2>1, <2>3, AnswerKept
<1>2. CASE Register(r)
  BY <1>0, <1>1, <1>2 DEF Register, Run
<1>3. ASSUME NEW o \in Outcomes, NEW plan \in Plans \cup {{}}, RunnerReturns(r, o, plan)
      PROVE  AnswerInv'
  BY <1>0, <1>1, <1>3 DEF RunnerReturns, Run
<1>4. CASE FinishRow(r)
  <2>1. /\ run[r].pc = "finish" /\ run'[r] = AfterRow(run[r])
        /\ UNCHANGED <<req, proposal>> /\ run[r].outcome \in Outcomes
    BY <1>0, <1>4 DEF FinishRow, AnswerInv
  <2>2. CASE run[r].outcome = "empty"
    <3>1. run'[r] = Minted(run[r])
      BY <2>1, <2>2 DEF AfterRow
    <3>2. run'[r].outcome = "empty" /\ run'[r].pc \in {"unpause", "mark"}
      BY <1>0, <2>2, <3>1 DEF Minted, Run
    <3>3. Unused' /\ "empty" \in Outcomes
      BY <2>1, <2>2 DEF AnswerInv, Unused
    <3>4. QED
      BY <1>0, <2>1, <3>2, <3>3, AnswerKept
  <2>3. CASE run[r].outcome # "empty"
    <3>1. run'[r] \in {[run[r] EXCEPT !.pc = "hook"], [run[r] EXCEPT !.pc = "pause"], NoRun}
      BY <2>1, <2>3 DEF AfterRow
    <3>2. \/ run'[r].outcome = run[r].outcome /\ run'[r].pc \in {"hook", "pause"}
          \/ run'[r] = NoRun
      BY <1>0, <3>1 DEF Run
    <3>3. QED
      BY <1>1, <2>1, <3>2
  <2>4. QED
    BY <2>2, <2>3
<1>5. ASSUME NEW p \in PropIds, Mint(r, p)
      PROVE  AnswerInv'
  <2>1. /\ run'[r] = Minted(run[r]) /\ run[r].pc = "hook" /\ run[r].target \in Reqs
        /\ proposal[p].of = Nobody /\ UNCHANGED req
    BY <1>0, <1>5 DEF Mint, TypeOK, AnswerInv, Unused
  <2>2. /\ proposal'[p].of = run[r].target /\ proposal'[p].status = "pending"
        /\ \A x \in PropIds \ {p} : proposal'[x] = proposal[x]
    BY <1>5 DEF Mint, TypeOK
  <2>3. /\ run'[r].outcome = run[r].outcome /\ run'[r].target = run[r].target
        /\ run'[r].pc \in {"unpause", "mark"}
    BY <1>0, <2>1 DEF Minted, Run
  <2>4. AnsweredNext(run'[r].target)
    BY <2>2, <2>3 DEF AnsweredNext
  <2>5. Unused'
    BY <2>2 DEF AnswerInv, Unused
  <2>6. \A x \in PropIds : proposal[x].of \in Reqs => proposal'[x].of = proposal[x].of
    BY <2>1, <2>2, RequirementsAssumption
  <2>7. run'[r].outcome \in Outcomes \cup {"none"}
    BY <2>3 DEF AnswerInv
  <2>8. QED
    BY <1>0, <2>1, <2>3, <2>4, <2>5, <2>6, <2>7, AnswerKept
<1>6. CASE Mark(r)
  <2>1. /\ run'[r] = NoRun /\ run[r].pc = "mark" /\ run[r].target \in Reqs
        /\ UNCHANGED proposal
        /\ \A q \in Reqs \ {run[r].target} : req'[q] = req[q]
    BY <1>0, <1>6 DEF Mark, TypeOK
  <2>2. "empty" \notin Outcomes => AnsweredNext(run[r].target)
    BY <2>1 DEF AnswerInv, Answered, AnsweredNext
  <2>3. Unused'
    BY <2>1 DEF AnswerInv, Unused
  <2>4. run'[r].pc = "free" /\ run'[r].outcome = "none"
    BY <2>1 DEF NoRun
  <2>5. QED
    BY <1>0, <2>1, <2>2, <2>3, <2>4, AnswerKept
<1>7. CASE PauseTarget(r) \/ UnpauseTarget(r)
  BY <1>0, <1>1, <1>7 DEF PauseTarget, UnpauseTarget
<1>8. QED
  BY <1>2, <1>3, <1>4, <1>5, <1>6, <1>7 DEF RunStep

LEMMA AnswerNext == TypeOK /\ AnswerInv /\ [Next]_rvars => AnswerInv'
<1> SUFFICES ASSUME TypeOK, AnswerInv, [Next]_rvars PROVE AnswerInv'
  OBVIOUS
<1>1. CASE UNCHANGED <<req, proposal, run>>
  BY <1>1, AnswerQuiet
<1>2. ASSUME NEW r \in RunIds, NEW q \in Reqs, NEW mode \in HLModes,
             NEW by \in {"driver", "request", "user"}, AddAgentRun(r, q, mode, by),
             UNCHANGED <<req, proposal>>
      PROVE  AnswerInv'
  BY <1>2, AddOK, AnswerQuiet
<1>3. ASSUME NEW r \in RunIds, NEW q \in Reqs, SubmitFirstRun(r, q)
      PROVE  AnswerInv'
  BY <1>2, <1>3 DEF SubmitFirstRun, HLModes
<1>4. CASE DriverStep
  <2>1. ASSUME NEW r \in RunIds, DriverSubmit(r)
        PROVE  AnswerInv'
    BY <1>2, <2>1 DEF DriverSubmit, TypeOK, HLModes
  <2>2. QED
    BY <1>1, <1>4, <2>1 DEF DriverStep, DriverReadReqs, DriverReadRows, DriverCheck
<1>5. CASE PeopleStep
  <2>1. ASSUME NEW q \in Reqs, AddRequirement(q)
        PROVE  AnswerInv'
    <3>1. \A x \in Reqs : req'[x] = "processed" => req[x] = "processed"
      BY <2>1 DEF AddRequirement, TypeOK
    <3>2. UNCHANGED <<proposal, run>> /\ Unused'
      BY <2>1 DEF AddRequirement, AnswerInv, Unused
    <3>3. QED
      BY <3>1, <3>2, AnswerKept
  <2>2. ASSUME NEW r \in RunIds, NEW q \in Reqs, NEW mode \in HLModes, UserSubmit(r, q, mode)
        PROVE  AnswerInv'
    BY <1>2, <2>2 DEF UserSubmit
  <2>3. QED
    BY <1>1, <1>5, <2>1, <2>2 DEF PeopleStep, UserUnpause, StartReview
<1>6. ASSUME NEW u \in Users, ReviewStep(u)
      PROVE  AnswerInv'
  <2>1. ASSUME NEW status \in {"approved", "rejected"}, SetStatus(u, status)
        PROVE  AnswerInv'
    <3>1. \A p \in PropIds :
             /\ proposal'[p].of = proposal[p].of
             /\ proposal'[p].status = "unknown" => proposal[p].status = "unknown"
      BY <2>1 DEF SetStatus, TypeOK, Proposal
    <3>2. QED
      BY <2>1, <3>1, AnswerQuiet DEF SetStatus
  <2>2. QED
    BY <1>1, <1>6, <2>1 DEF ReviewStep, AddTask, Approve, Reject
<1>7. CASE Crash
  <2>1. \A r \in RunIds : run'[r].outcome = "none" /\ run'[r].pc \in {"lost", "free"}
    BY <1>7 DEF Crash, TypeOK, Run, NoRun
  <2>2. QED
    BY <1>7, <2>1, AnswerQuiet DEF Crash
<1>8. CASE UNCHANGED rvars
  BY <1>1, <1>8 DEF rvars
<1>9. QED
  BY <1>3, <1>4, <1>5, <1>6, <1>7, <1>8, AnswerRun DEF Next

\* A processed requirement has a proposal, unless a head leader may find no
\* features at all (_apply_success): no crash or duplicate run loses it.
THEOREM ProcessedIsAnsweredCorrect == Spec => []ProcessedIsAnswered
<1>1. Init => AnswerInv
  BY DEF Init, AnswerInv, Unused, NoProposal, NoRun
<1>2. AnswerInv => ProcessedIsAnswered
  BY DEF AnswerInv, ProcessedIsAnswered, Answered
<1>3. QED
  BY <1>1, <1>2, RequirementsTypeCorrect, AnswerNext, PTL DEF Spec

-----------------------------------------------------------------------------
(***************************************************************************)
(* Approvals: a request has added, under its own proposal, what it has     *)
(* struck off its list, and a row of tasks never changes hands.            *)
(***************************************************************************)
Added(rec, f) == task[f] = rec.prop
AddedNext(rec, f) == task'[f] = rec.prop

ReviewInv ==
    \A u \in Users : review[u].pc = "approve" =>
        \A f \in review[u].chosen : f \in review[u].todo \/ Added(review[u], f)

\* Rows of tasks stay whose they are.
LEMMA TaskKept ==
    ASSUME TypeOK, ReviewInv, \A f \in Features : task[f] # Nobody => task'[f] = task[f],
           \A u \in Users : review'[u] = review[u] \/ review'[u].pc # "approve"
    PROVE  ReviewInv'
<1>1. ASSUME NEW u \in Users, review'[u].pc = "approve", NEW f \in review'[u].chosen
      PROVE  f \in review'[u].todo \/ AddedNext(review'[u], f)
  <2>1. review'[u] = review[u] /\ review[u].prop \in PropIds /\ f \in Features
    BY <1>1 DEF TypeOK, Review
  <2>2. QED
    BY <1>1, <2>1, RequirementsAssumption DEF ReviewInv, Added, AddedNext
<1>2. QED
  BY <1>1 DEF ReviewInv, Added, AddedNext

LEMMA ReviewNext == TypeOK /\ ReviewInv /\ [Next]_rvars => ReviewInv'
<1> SUFFICES ASSUME TypeOK, ReviewInv, [Next]_rvars PROVE ReviewInv'
  OBVIOUS
<1>0. NoReview.pc = "idle"
  BY DEF NoReview
<1>1. CASE UNCHANGED <<task, review>>
  BY <1>1, TaskKept
<1>2. CASE \E r \in RunIds : RunStep(r)
  <2>1. UNCHANGED <<task, review>>
    BY <1>2 DEF RunStep, Register, RunnerReturns, FinishRow, Mint, Mark, PauseTarget,
                UnpauseTarget
  <2>2. QED
    BY <1>1, <2>1
<1>3. CASE DriverStep \/ \E r \in RunIds, q \in Reqs : SubmitFirstRun(r, q)
  BY <1>1, <1>3 DEF DriverStep, DriverReadReqs, DriverReadRows, DriverCheck, DriverSubmit,
                    SubmitFirstRun
<1>4. ASSUME NEW u \in Users, ReviewStep(u)
      PROVE  ReviewInv'
  <2>1. ASSUME NEW f \in Features, AddTask(u, f)
        PROVE  ReviewInv'
    <3>1. CASE task[f] # Nobody
      BY <1>0, <2>1, <3>1, TaskKept DEF AddTask, TypeOK
    <3>2. CASE task[f] = Nobody
      <4>1. /\ task'[f] = review[u].prop /\ \A g \in Features \ {f} : task'[g] = task[g]
            /\ \A x \in Users \ {u} : review'[x] = review[x]
            /\ review'[u].pc = review[u].pc /\ review'[u].prop = review[u].prop
            /\ review'[u].chosen = review[u].chosen
            /\ review'[u].todo = review[u].todo \ {f}
        BY <2>1, <3>2 DEF AddTask, TypeOK, Review
      <4>2. ASSUME NEW x \in Users, review'[x].pc = "approve", NEW g \in review'[x].chosen
            PROVE  g \in review'[x].todo \/ AddedNext(review'[x], g)
        <5>1. review'[x].chosen = review[x].chosen /\ review'[x].prop = review[x].prop
              /\ review[x].pc = "approve"
          BY <4>1, <4>2
        <5>2. g \in Features /\ review[x].prop # Nobody
          BY <5>1, <4>2, RequirementsAssumption DEF TypeOK, Review
        <5>3. CASE g \in review[x].todo
          <6>1. CASE x = u
            BY <4>1, <5>3, <6>1 DEF AddedNext
          <6>2. CASE x # u
            BY <4>1, <5>3, <6>2
          <6>3. QED
            BY <6>1, <6>2
        <5>4. CASE g \notin review[x].todo
          <6>1. task[g] = review[x].prop
            BY <4>2, <5>1, <5>4 DEF ReviewInv, Added
          <6>2. QED
            BY <3>2, <4>1, <5>1, <5>2, <6>1 DEF AddedNext
        <5>5. QED
          BY <5>3, <5>4
      <4>3. QED
        BY <4>2 DEF ReviewInv, Added, AddedNext
    <3>3. QED
      BY <3>1, <3>2
  <2>2. ASSUME NEW status, SetStatus(u, status)
        PROVE  ReviewInv'
    BY <1>0, <2>2, TaskKept DEF SetStatus, TypeOK
  <2>3. QED
    BY <1>4, <2>1, <2>2 DEF ReviewStep, Approve, Reject
<1>5. CASE PeopleStep
  <2>1. ASSUME NEW u \in Users, NEW p \in PropIds, NEW pc \in {"approve", "reject"},
               NEW chosen \in SUBSET Features, StartReview(u, p, pc, chosen)
        PROVE  ReviewInv'
    <3>1. /\ UNCHANGED task /\ \A x \in Users \ {u} : review'[x] = review[x]
          /\ review'[u].chosen = chosen /\ review'[u].todo = chosen
      BY <2>1 DEF StartReview, TypeOK
    <3>2. ASSUME NEW x \in Users, review'[x].pc = "approve", NEW g \in review'[x].chosen
          PROVE  g \in review'[x].todo \/ AddedNext(review'[x], g)
      BY <3>1, <3>2 DEF ReviewInv, Added, AddedNext
    <3>3. QED
      BY <3>2 DEF ReviewInv, Added, AddedNext
  <2>2. QED
    BY <1>1, <1>5, <2>1 DEF PeopleStep, AddRequirement, UserUnpause, UserSubmit
<1>6. CASE Crash
  BY <1>0, <1>6, TaskKept DEF Crash
<1>7. CASE UNCHANGED rvars
  BY <1>1, <1>7 DEF rvars
<1>8. QED
  BY <1>2, <1>3, <1>4, <1>5, <1>6, <1>7 DEF Next

\* The statuses of proposals turn approved in one place.
LEMMA OnlyApprovals ==
    ASSUME TypeOK, [Next]_rvars, NEW u \in Users, review[u].pc = "approve",
           proposal[review[u].prop].status # "approved",
           proposal'[review[u].prop].status = "approved", review'[u].pc = "idle"
    PROVE  Approve(u)
<1>0. review[u].prop \in PropIds
  BY DEF TypeOK
<1>1. ~UNCHANGED proposal /\ ~UNCHANGED review
  OBVIOUS
<1>2. CASE \E r \in RunIds : RunStep(r)
  <2>1. UNCHANGED review
    BY <1>2, RunStepShape
  <2>2. QED
    BY <1>1, <2>1
<1>3. CASE DriverStep \/ \E r \in RunIds, q \in Reqs : SubmitFirstRun(r, q)
  BY <1>1, <1>3 DEF DriverStep, DriverReadReqs, DriverReadRows, DriverCheck, DriverSubmit,
                    SubmitFirstRun
<1>4. CASE PeopleStep \/ Crash \/ UNCHANGED rvars
  BY <1>1, <1>4 DEF PeopleStep, AddRequirement, UserUnpause, UserSubmit, StartReview, Crash,
                    rvars
<1>5. ASSUME NEW x \in Users, ReviewStep(x)
      PROVE  Approve(u)
  <2>1. ~\E f \in Features : AddTask(x, f)
    BY <1>1 DEF AddTask
  <2>2. CASE x = u
    BY <1>5, <2>1, <2>2 DEF ReviewStep, Reject
  <2>3. CASE x # u
    <3>1. review'[u] = review[u]
      BY <1>5, <2>1, <2>3 DEF ReviewStep, Approve, Reject, SetStatus, TypeOK
    <3>2. QED
      BY <3>1
  <2>4. QED
    BY <2>2, <2>3
<1>6. QED
  BY <1>2, <1>3, <1>4, <1>5 DEF Next

\* A request that turns a proposal approved leaves a task, added for that very
\* proposal, for each feature it was asked to approve (approve_proposal), however
\* many people approve, whatever ids their proposals share.
THEOREM ApprovedIsCompleteCorrect == Spec => ApprovedIsComplete
<1>1. Init => ReviewInv
  BY DEF Init, ReviewInv, NoReview
<1>2. TypeOK /\ ReviewInv /\ [Next]_rvars =>
        [\A u \in Users :
          (/\ review[u].pc = "approve"
           /\ proposal[review[u].prop].status # "approved"
           /\ proposal'[review[u].prop].status = "approved"
           /\ review'[u].pc = "idle")
          => \A f \in review[u].chosen : task[f] = review[u].prop]_rvars
  <2> SUFFICES ASSUME TypeOK, ReviewInv, [Next]_rvars, NEW u \in Users,
                      review[u].pc = "approve",
                      proposal[review[u].prop].status # "approved",
                      proposal'[review[u].prop].status = "approved",
                      review'[u].pc = "idle",
                      NEW f \in review[u].chosen
               PROVE  task[f] = review[u].prop
    OBVIOUS
  <2>1. Approve(u)
    BY OnlyApprovals
  <2>2. QED
    BY <2>1 DEF Approve, ReviewInv, Added
<1>3. QED
  BY <1>1, <1>2, RequirementsTypeCorrect, ReviewNext, PTL DEF Spec, ApprovedIsComplete

=============================================================================
