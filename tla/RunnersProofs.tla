---------------------------- MODULE RunnersProofs ----------------------------
(***************************************************************************)
(* Inside the runs, for any set of runs, tasks and jobs: no agent and no   *)
(* server is left behind, and the runners implement RunContract.           *)
(***************************************************************************)
EXTENDS Runners, TLAPS

\* What a coroutine has done so far says where it can be.
PlaceOK(rec) ==
    /\ rec.pc \in {"idle", "tree", "serve", "ready", "baseline"} => rec.tries = 0
    /\ rec.pc = "spawn" => rec.tries \in {0, 1}
    /\ rec.pc = "probe" => rec.tries = 1
    /\ rec.pc \in {"feed", "wait", "git"} => rec.tries \in {1, 2}
    /\ rec.pc \in {"serve", "ready", "baseline", "stop", "check"} => rec.job.role = "fi"

\* Its result: there is none before the block that uses the agent is left.
ResultOK(rec) ==
    /\ rec.pc \notin {"stop", "over"} => rec.status = "none" /\ rec.error # "reader"
    /\ rec.pc = "over" => rec.status # "none"
    /\ rec.status = "succeeded" => rec.pc = "over"
    /\ rec.error = "reader" => rec.status = "failed"

\* The token: a cancel before the answer is heeded, unless something fails first.
AskedOK(rec) ==
    /\ rec.pc = "idle" => rec.asked = "no"
    /\ rec.pc \in Open => rec.asked # "late"
    /\ rec.pc \in {"git", "check"} => rec.asked # "early"
    /\ rec.pc = "stop" /\ rec.status = "none" => rec.asked # "early"
    /\ rec.status = "cancelled" => rec.asked = "early"

\* Its agents: there are none beyond those spawned, and only the last one may be
\* alive, while the coroutine holds it or after its reader raised.
AgentsOK(rec, ag) ==
    \A n \in Attempts :
        /\ n > rec.tries => ag[n] = NoAgent
        /\ ag[n].proc = "alive" =>
               /\ n = rec.tries
               /\ rec.pc \in {"feed", "probe", "wait"} \/ rec.error = "reader"
        /\ ag[n].state = "finished" => ag[n].proc = "ok"

\* Its server: the shell runs in a review only, up to the stop.
ServerOK(rec, sv) ==
    sv = "up" =>
        \/ /\ rec.job.role = "fi"
           /\ rec.pc \in {"ready", "baseline", "spawn", "feed", "probe", "wait", "git", "stop"}
        \/ rec.pc = "over" /\ rec.error = "baseline"

Fits(rec, ag, sv) ==
    /\ rec \in Run /\ ag \in [Attempts -> Agent] /\ sv \in ServerState
    /\ PlaceOK(rec) /\ ResultOK(rec) /\ AskedOK(rec)
    /\ AgentsOK(rec, ag) /\ ServerOK(rec, sv)

Shape ==
    /\ run = [r \in Runs |-> run[r]]
    /\ agent = [r \in Runs |-> agent[r]]
    /\ server = [r \in Runs |-> server[r]]

RunsFit == Shape /\ \A r \in Runs : Fits(run[r], agent[r], server[r])

\* The contract, as it sees one run.
Phase(rec) ==
    IF rec.pc = "idle" THEN "idle" ELSE IF rec.pc # "over" THEN "busy" ELSE rec.status
Live(ag) == \E n \in Attempts : ag[n].proc = "alive"
Early(rec) == rec.asked = "early"

Same(rec, ag, new, nag) ==
    Phase(new) = Phase(rec) /\ (Live(nag) <=> Live(ag)) /\ (Early(new) <=> Early(rec))

\* The steps the contract has for it.
Honours(rec, ag, new, nag) ==
    \/ Same(rec, ag, new, nag)
    \/ /\ Phase(rec) = "idle" /\ Phase(new) = "busy"
       /\ (Live(nag) <=> Live(ag)) /\ (Early(new) <=> Early(rec))
    \/ /\ Phase(rec) = "busy" /\ ~Live(ag) /\ Live(nag)
       /\ Phase(new) = Phase(rec) /\ (Early(new) <=> Early(rec))
    \/ /\ Live(ag) /\ ~Live(nag)
       /\ Phase(new) = Phase(rec) /\ (Early(new) <=> Early(rec))
    \/ /\ Phase(rec) = "busy" /\ Early(new)
       /\ Phase(new) = Phase(rec) /\ (Live(nag) <=> Live(ag))
    \/ /\ Phase(rec) = "busy" /\ ~Live(ag) /\ ~Early(rec)
       /\ Phase(new) = "succeeded" /\ (Live(nag) <=> Live(ag)) /\ (Early(new) <=> Early(rec))
    \/ /\ Phase(rec) = "busy" /\ Phase(new) = "failed"
       /\ (Live(nag) <=> Live(ag)) /\ (Early(new) <=> Early(rec))
    \/ /\ Phase(rec) = "busy" /\ Early(rec)
       /\ Phase(new) = "cancelled" /\ ~Live(nag) /\ (Early(new) <=> Early(rec))

\* A step of one run that leaves it fit and honours the contract.
Step(r) ==
    \E new, nag, nsv :
        /\ run' = [run EXCEPT ![r] = new]
        /\ agent' = [agent EXCEPT ![r] = nag]
        /\ server' = [server EXCEPT ![r] = nsv]
        /\ Fits(new, nag, nsv)
        /\ Honours(run[r], agent[r], new, nag)

-----------------------------------------------------------------------------
LEMMA FitRun ==
    ASSUME RunsFit, NEW r \in Runs
    PROVE  /\ Fits(run[r], agent[r], server[r])
           /\ run[r] \in Run /\ agent[r] \in [Attempts -> Agent] /\ server[r] \in ServerState
           /\ agent = [agent EXCEPT ![r] = agent[r]]
           /\ server = [server EXCEPT ![r] = server[r]]
           /\ run = [run EXCEPT ![r] = run[r]]
BY DEF RunsFit, Shape, Fits

\* The fields a run keeps when it only moves on, or ends.
Keeps(rec, new) ==
    /\ new.job = rec.job /\ new.tries = rec.tries /\ new.asked = rec.asked
    /\ new.head = rec.head /\ new.dirty = rec.dirty

LEMMA PcFields ==
    ASSUME NEW rec \in Run, NEW p \in RunnerPC
    PROVE  /\ [rec EXCEPT !.pc = p] \in Run
           /\ [rec EXCEPT !.pc = p].pc = p
           /\ Keeps(rec, [rec EXCEPT !.pc = p])
           /\ [rec EXCEPT !.pc = p].status = rec.status
           /\ [rec EXCEPT !.pc = p].error = rec.error
           /\ [rec EXCEPT !.pc = p].changed = rec.changed
BY DEF Run, Keeps

Results == {"none", "succeeded", "failed", "cancelled"}
Errors == {"none", "worktree", "server", "baseline", "spawn", "reader", "log",
           "cancelled", "answer", "git", "reset"}
Verdicts == {"none", "chat", "unknown", "agent", "tampered"}

LEMMA EndedFields ==
    ASSUME NEW rec \in Run, NEW s \in Results, NEW e \in Errors, NEW v \in Verdicts
    PROVE  /\ Ended(rec, s, e, v) \in Run
           /\ Ended(rec, s, e, v).pc = "over"
           /\ Keeps(rec, Ended(rec, s, e, v))
           /\ Ended(rec, s, e, v).status = s
           /\ Ended(rec, s, e, v).error = e
           /\ Ended(rec, s, e, v).changed = rec.changed
<1> DEFINE e1 == [rec EXCEPT !.pc = "over"]
           e2 == [e1 EXCEPT !.status = s]
           e3 == [e2 EXCEPT !.error = e]
           e4 == [e3 EXCEPT !.verdict = v]
<1>1. /\ e1 \in Run /\ e1.pc = "over" /\ Keeps(rec, e1) /\ e1.changed = rec.changed
  BY PcFields DEF RunnerPC
<1> HIDE DEF e1
<1>2. /\ e2 \in Run /\ e2.pc = "over" /\ Keeps(rec, e2) /\ e2.changed = rec.changed
      /\ e2.status = s
  BY <1>1 DEF Run, Results, Keeps
<1> HIDE DEF e2
<1>3. /\ e3 \in Run /\ e3.pc = "over" /\ Keeps(rec, e3) /\ e3.changed = rec.changed
      /\ e3.status = s /\ e3.error = e
  BY <1>2 DEF Run, Errors, Keeps
<1> HIDE DEF e3
<1>4. /\ e4 \in Run /\ e4.pc = "over" /\ Keeps(rec, e4) /\ e4.changed = rec.changed
      /\ e4.status = s /\ e4.error = e
  BY <1>3 DEF Run, Verdicts, Keeps
<1> HIDE DEF e4
<1>5. Ended(rec, s, e, v) = e4
  BY DEF Ended, e1, e2, e3, e4
<1>6. QED
  BY <1>4, <1>5

LEMMA LeaveFields ==
    ASSUME NEW rec \in Run, NEW s \in Results, NEW e \in Errors
    PROVE  /\ Leave(rec, s, e) \in Run
           /\ Leave(rec, s, e).pc = IF rec.job.role = "fi" THEN "stop" ELSE "over"
           /\ Keeps(rec, Leave(rec, s, e))
           /\ Leave(rec, s, e).status = s
           /\ Leave(rec, s, e).error = e
           /\ Leave(rec, s, e).changed = rec.changed
<1> DEFINE end == Ended(rec, s, e, "none")
           p == IF rec.job.role = "fi" THEN "stop" ELSE "over"
<1>1. "none" \in Verdicts /\ p \in RunnerPC
  BY DEF Verdicts, RunnerPC
<1>2. /\ end \in Run /\ Keeps(rec, end) /\ end.status = s /\ end.error = e
      /\ end.changed = rec.changed
  BY <1>1, EndedFields
<1>3. Leave(rec, s, e) = [end EXCEPT !.pc = p]
  BY DEF Leave
<1> HIDE DEF end, p
<1>4. QED
  BY <1>1, <1>2, <1>3, PcFields DEF Keeps, p

\* A process changes, as WithAgent writes it.
LEMMA AgentChange ==
    ASSUME NEW ag \in [Attempts -> Agent], NEW n \in Attempts, NEW a \in Agent
    PROVE  /\ [ag EXCEPT ![n] = a] \in [Attempts -> Agent]
           /\ [ag EXCEPT ![n] = a][n] = a
           /\ \A m \in Attempts \ {n} : [ag EXCEPT ![n] = a][m] = ag[m]
OBVIOUS

\* The steps of a run that do not touch its agents.
LEMMA QuietStep ==
    ASSUME RunsFit, NEW r \in Runs, NEW new, NEW nsv,
           run' = [run EXCEPT ![r] = new],
           server' = [server EXCEPT ![r] = nsv],
           agent' = agent,
           Fits(new, agent[r], nsv),
           Honours(run[r], agent[r], new, agent[r])
    PROVE  Step(r)
BY FitRun DEF Step

\* A run that moves on or fails with its server as it is and no agent touched.
LEMMA MovesOn ==
    ASSUME RunsFit, NEW r \in Runs, NEW new \in Run,
           run' = [run EXCEPT ![r] = new], agent' = agent, server' = server,
           PlaceOK(new), ResultOK(new), AskedOK(new),
           AgentsOK(new, agent[r]), ServerOK(new, server[r]),
           Honours(run[r], agent[r], new, agent[r])
    PROVE  Step(r)
<1>1. Fits(new, agent[r], server[r])
  BY FitRun DEF Fits
<1>2. server' = [server EXCEPT ![r] = server[r]]
  BY FitRun
<1>3. QED
  BY <1>1, <1>2, QuietStep


-----------------------------------------------------------------------------
\* What the way out of a run needs of it.
LEMMA AgentsStay ==
    ASSUME NEW rec, NEW ag, NEW new, AgentsOK(rec, ag), new.tries = rec.tries,
           Live(ag) => new.pc \in {"feed", "probe", "wait"} \/ new.error = "reader"
    PROVE  AgentsOK(new, ag)
BY DEF AgentsOK, Live

LEMMA Fails ==
    ASSUME RunsFit, NEW r \in Runs, NEW e \in Errors \ {"reader"}, NEW nsv \in ServerState,
           run[r].pc \notin {"idle", "over"}, ~Live(agent[r]),
           run' = [run EXCEPT ![r] = Ended(@, "failed", e, "none")],
           agent' = agent, server' = [server EXCEPT ![r] = nsv],
           nsv = "up" => e = "baseline"
    PROVE  Step(r)
<1> DEFINE new == Ended(run[r], "failed", e, "none")
<1>1. "failed" \in Results /\ "none" \in Verdicts /\ e \in Errors
  BY DEF Results, Verdicts
<1>2. /\ new \in Run /\ new.pc = "over" /\ Keeps(run[r], new)
      /\ new.status = "failed" /\ new.error = e
  BY <1>1, FitRun, EndedFields
<1>3. run' = [run EXCEPT ![r] = new]
  OBVIOUS
<1> HIDE DEF new
<1>4. PlaceOK(new) /\ ResultOK(new) /\ AskedOK(new)
  BY <1>2 DEF PlaceOK, ResultOK, AskedOK, Open
<1>5. AgentsOK(new, agent[r])
  BY <1>2, FitRun, AgentsStay DEF Fits, Keeps
<1>6. ServerOK(new, nsv)
  BY <1>2 DEF ServerOK
<1>7. Honours(run[r], agent[r], new, agent[r])
  BY <1>2 DEF Honours, Phase, Early, Keeps
<1>8. QED
  BY <1>2, <1>3, <1>4, <1>5, <1>6, <1>7, FitRun, QuietStep DEF Fits

LEMMA Concludes ==
    ASSUME RunsFit, NEW r \in Runs, NEW s \in {"succeeded", "failed"},
           NEW e \in Errors \ {"reader"}, NEW v \in Verdicts,
           NEW nag \in [Attempts -> Agent],
           run[r].pc \notin {"idle", "over"}, ~Live(agent[r]),
           s = "succeeded" => run[r].asked # "early", server[r] # "up",
           run' = [run EXCEPT ![r] = Ended(@, s, e, v)],
           agent' = [agent EXCEPT ![r] = nag], server' = server,
           ~Live(nag), AgentsOK(run[r], nag)
    PROVE  Step(r)
<1> DEFINE new == Ended(run[r], s, e, v)
<1>1. s \in Results /\ e \in Errors
  BY DEF Results
<1>2. /\ new \in Run /\ new.pc = "over" /\ Keeps(run[r], new)
      /\ new.status = s /\ new.error = e
  BY <1>1, FitRun, EndedFields
<1>3. run' = [run EXCEPT ![r] = new] /\ server' = [server EXCEPT ![r] = server[r]]
  BY FitRun
<1> HIDE DEF new
<1>4. PlaceOK(new) /\ ResultOK(new) /\ AskedOK(new)
  BY <1>2 DEF PlaceOK, ResultOK, AskedOK, Open
<1>5. AgentsOK(new, nag)
  BY <1>2, AgentsStay DEF Keeps
<1>6. ServerOK(new, server[r])
  BY DEF ServerOK
<1>7. Honours(run[r], agent[r], new, nag)
  BY <1>2 DEF Honours, Phase, Early, Keeps
<1>8. Fits(new, nag, server[r])
  BY <1>2, <1>4, <1>5, <1>6, FitRun DEF Fits
<1>9. QED
  BY <1>3, <1>7, <1>8 DEF Step

LEMMA Leaves ==
    ASSUME RunsFit, NEW r \in Runs, NEW s \in {"failed", "cancelled"}, NEW e \in Errors,
           NEW nag \in [Attempts -> Agent],
           run[r].pc \in {"spawn", "feed", "wait", "git"},
           run[r].pc = "git" => run[r].job.role = "fi",
           run' = [run EXCEPT ![r] = Leave(@, s, e)],
           agent' = [agent EXCEPT ![r] = nag], server' = server,
           AgentsOK(run[r], nag), Live(nag) => e = "reader" /\ s = "failed",
           e = "reader" => s = "failed",
           s = "failed" => nag = agent[r],
           s = "cancelled" => run[r].asked = "early",
           Live(nag) => Live(agent[r])
    PROVE  Step(r)
<1> DEFINE new == Leave(run[r], s, e)
<1>1. s \in Results
  BY DEF Results
<1>2. /\ new \in Run /\ Keeps(run[r], new) /\ new.status = s /\ new.error = e
      /\ new.pc = IF run[r].job.role = "fi" THEN "stop" ELSE "over"
  BY <1>1, FitRun, LeaveFields
<1>3. run' = [run EXCEPT ![r] = new] /\ server' = [server EXCEPT ![r] = server[r]]
  BY FitRun
<1> HIDE DEF new
<1>4. PlaceOK(new) /\ ResultOK(new) /\ AskedOK(new)
  BY <1>2 DEF PlaceOK, ResultOK, AskedOK, Open, Keeps
<1>5. AgentsOK(new, nag)
  BY <1>2, AgentsStay DEF Keeps
<1>6. ServerOK(new, server[r])
  BY <1>2, FitRun DEF Fits, ServerOK, Keeps
<1>7. Honours(run[r], agent[r], new, nag)
  <2>1. Phase(run[r]) = "busy" /\ (Early(new) <=> Early(run[r]))
    BY <1>2 DEF Phase, Early, Keeps
  <2>2. Phase(new) = IF run[r].job.role = "fi" THEN "busy" ELSE s
    BY <1>2 DEF Phase
  <2>3. CASE s = "failed"
    <3>1. Live(nag) <=> Live(agent[r])
      BY <2>3
    <3>2. QED
      BY <2>1, <2>2, <2>3, <3>1 DEF Honours, Same
  <2>4. CASE s = "cancelled"
    <3>1. ~Live(nag) /\ Early(run[r])
      BY <2>4 DEF Early
    <3>2. QED
      BY <2>1, <2>2, <2>4, <3>1 DEF Honours, Same
  <2>5. QED
    BY <2>3, <2>4
<1>8. Fits(new, nag, server[r])
  BY <1>2, <1>4, <1>5, <1>6, FitRun DEF Fits
<1>9. QED
  BY <1>3, <1>7, <1>8 DEF Step

\* The next place of a run under way, its agents and its server as they are.
LEMMA Proceeds ==
    ASSUME RunsFit, NEW r \in Runs, NEW p \in RunnerPC \ {"idle", "over"},
           run[r].pc \notin {"idle", "over"},
           run' = [run EXCEPT ![r].pc = p], agent' = agent, server' = server
    PROVE  LET new == [run[r] EXCEPT !.pc = p] IN
           /\ new \in Run /\ new.pc = p /\ Keeps(run[r], new)
           /\ new.status = run[r].status /\ new.error = run[r].error
           /\ PlaceOK(new) /\ ResultOK(new) /\ AskedOK(new)
              /\ AgentsOK(new, agent[r]) /\ ServerOK(new, server[r]) => Step(r)
<1> DEFINE new == [run[r] EXCEPT !.pc = p]
<1>1. /\ new \in Run /\ new.pc = p /\ Keeps(run[r], new)
      /\ new.status = run[r].status /\ new.error = run[r].error
  BY FitRun, PcFields
<1>2. run' = [run EXCEPT ![r] = new]
  OBVIOUS
<1> HIDE DEF new
<1>3. Honours(run[r], agent[r], new, agent[r])
  BY <1>1 DEF Honours, Same, Phase, Early, Keeps
<1>4. PlaceOK(new) /\ ResultOK(new) /\ AskedOK(new)
        /\ AgentsOK(new, agent[r]) /\ ServerOK(new, server[r]) => Step(r)
  BY <1>1, <1>2, <1>3, MovesOn
<1>5. QED
  BY <1>1, <1>4 DEF new

-----------------------------------------------------------------------------
LEMMA CreateWorktreeStep ==
    ASSUME RunsFit, NEW r \in Runs, CreateWorktree(r)
    PROVE  Step(r)
<1>1. /\ run[r].pc = "tree" /\ agent' = agent /\ server' = server
      /\ Fits(run[r], agent[r], server[r])
  BY FitRun DEF CreateWorktree
<1>2. ~Live(agent[r]) /\ server[r] # "up"
  BY <1>1 DEF Fits, AgentsOK, ResultOK, ServerOK, Live
<1>3. CASE run' = [run EXCEPT ![r].pc = "spawn"]
  <2> DEFINE new == [run[r] EXCEPT !.pc = "spawn"]
  <2>1. /\ new \in Run /\ new.pc = "spawn" /\ Keeps(run[r], new)
        /\ new.status = run[r].status /\ new.error = run[r].error
        /\ PlaceOK(new) /\ ResultOK(new) /\ AskedOK(new)
              /\ AgentsOK(new, agent[r]) /\ ServerOK(new, server[r]) => Step(r)
    BY <1>1, <1>3, Proceeds DEF RunnerPC
  <2> HIDE DEF new
  <2>2. PlaceOK(new) /\ ResultOK(new) /\ AskedOK(new)
    BY <1>1, <2>1 DEF Fits, PlaceOK, ResultOK, AskedOK, Open, Keeps
  <2>3. AgentsOK(new, agent[r]) /\ ServerOK(new, server[r])
    BY <1>1, <1>2, <2>1, AgentsStay DEF Fits, Keeps, ServerOK
  <2>4. QED
    BY <2>1, <2>2, <2>3
<1>4. CASE run' = [run EXCEPT ![r] = Ended(@, "failed", "worktree", "none")]
  <2>1. server' = [server EXCEPT ![r] = server[r]] /\ "worktree" \in Errors \ {"reader"}
    BY <1>1, FitRun DEF Errors
  <2>2. QED
    BY <1>1, <1>2, <1>4, <2>1, FitRun, Fails
<1>5. QED
  BY <1>3, <1>4 DEF CreateWorktree


\* No agent is alive outside the waits, unless the reader has raised.
LEMMA NoneLive ==
    ASSUME RunsFit, NEW r \in Runs,
           run[r].pc \notin {"feed", "probe", "wait", "over"},
           run[r].pc = "stop" => run[r].status # "failed"
    PROVE  ~Live(agent[r])
BY FitRun DEF Fits, AgentsOK, ResultOK, Live

LEMMA ServerSpawnStep ==
    ASSUME RunsFit, NEW r \in Runs, ServerSpawn(r)
    PROVE  Step(r)
<1>1. /\ run[r].pc = "serve" /\ agent' = agent /\ Fits(run[r], agent[r], server[r])
  BY FitRun DEF ServerSpawn
<1>2. ~Live(agent[r]) /\ server[r] # "up" /\ run[r].job.role = "fi"
  BY <1>1, NoneLive DEF Fits, ServerOK, PlaceOK
<1>3. CASE run' = [run EXCEPT ![r].pc = "ready"] /\ server' = [server EXCEPT ![r] = "up"]
  <2> DEFINE new == [run[r] EXCEPT !.pc = "ready"]
  <2>1. /\ new \in Run /\ new.pc = "ready" /\ Keeps(run[r], new)
        /\ new.status = run[r].status /\ new.error = run[r].error
    <3>1. "ready" \in RunnerPC /\ run[r] \in Run
      BY FitRun DEF RunnerPC
    <3>2. QED
      BY <3>1, PcFields
  <2>2. run' = [run EXCEPT ![r] = new]
    BY <1>3
  <2> HIDE DEF new
  <2>3. PlaceOK(new) /\ ResultOK(new) /\ AskedOK(new)
    BY <1>1, <2>1 DEF Fits, PlaceOK, ResultOK, AskedOK, Open, Keeps
  <2>4. AgentsOK(new, agent[r]) /\ ServerOK(new, "up") /\ "up" \in ServerState
    BY <1>1, <1>2, <2>1, AgentsStay DEF Fits, Keeps, ServerOK, ServerState
  <2>5. Honours(run[r], agent[r], new, agent[r])
    BY <1>1, <2>1 DEF Honours, Same, Phase, Early, Keeps
  <2>6. QED
    BY <1>1, <1>3, <2>1, <2>2, <2>3, <2>4, <2>5, QuietStep DEF Fits
<1>4. CASE run' = [run EXCEPT ![r] = Ended(@, "failed", "server", "none")]
           /\ UNCHANGED server
  <2>1. server' = [server EXCEPT ![r] = server[r]] /\ "server" \in Errors \ {"reader"}
    BY <1>4, FitRun DEF Errors
  <2>2. QED
    BY <1>1, <1>2, <1>4, <2>1, FitRun, Fails
<1>5. QED
  BY <1>3, <1>4 DEF ServerSpawn

LEMMA ServerReadyStep ==
    ASSUME RunsFit, NEW r \in Runs, ServerReady(r)
    PROVE  Step(r)
<1>1. /\ run[r].pc = "ready" /\ agent' = agent /\ server' = server
      /\ Fits(run[r], agent[r], server[r]) /\ run' = [run EXCEPT ![r].pc = "baseline"]
  BY FitRun DEF ServerReady
<1> DEFINE new == [run[r] EXCEPT !.pc = "baseline"]
<1>2. /\ new \in Run /\ new.pc = "baseline" /\ Keeps(run[r], new)
      /\ new.status = run[r].status /\ new.error = run[r].error
      /\ PlaceOK(new) /\ ResultOK(new) /\ AskedOK(new)
            /\ AgentsOK(new, agent[r]) /\ ServerOK(new, server[r]) => Step(r)
  BY <1>1, Proceeds DEF RunnerPC
<1> HIDE DEF new
<1>3. PlaceOK(new) /\ ResultOK(new) /\ AskedOK(new) /\ ServerOK(new, server[r])
  BY <1>1, <1>2 DEF Fits, PlaceOK, ResultOK, AskedOK, Open, Keeps, ServerOK
<1>4. AgentsOK(new, agent[r])
  BY <1>1, <1>2, NoneLive, AgentsStay DEF Fits, Keeps
<1>5. QED
  BY <1>2, <1>3, <1>4

LEMMA StoppedType ==
    ASSUME NEW sv \in ServerState, NEW s \in Stopped(sv)
    PROVE  s \in ServerState /\ s # "up"
BY DEF Stopped, ServerState

LEMMA ServerFailsStep ==
    ASSUME RunsFit, NEW r \in Runs, ServerFails(r)
    PROVE  Step(r)
<1>1. /\ run[r].pc = "ready" /\ agent' = agent /\ server[r] \in ServerState
      /\ run' = [run EXCEPT ![r] = Ended(@, "failed", "server", "none")]
  BY FitRun DEF ServerFails
<1>2. PICK s \in Stopped(server[r]) : server' = [server EXCEPT ![r] = s]
  BY DEF ServerFails
<1>3. s \in ServerState /\ s # "up" /\ "server" \in Errors \ {"reader"} /\ ~Live(agent[r])
  BY <1>1, StoppedType, NoneLive DEF Errors
<1>4. QED
  BY <1>1, <1>2, <1>3, Fails

\* A server only ever falls by itself.
LEMMA ServerEndsStep ==
    ASSUME RunsFit, NEW r \in Runs, ServerEnds(r)
    PROVE  Step(r)
<1>1. PICK s \in {"none", "loose"} : server' = [server EXCEPT ![r] = s]
  BY DEF ServerEnds
<1>2. /\ run' = [run EXCEPT ![r] = run[r]] /\ agent' = agent
      /\ Fits(run[r], agent[r], server[r])
  BY FitRun DEF ServerEnds
<1>3. Fits(run[r], agent[r], s)
  BY <1>2 DEF Fits, ServerOK, ServerState
<1>4. Honours(run[r], agent[r], run[r], agent[r])
  BY DEF Honours, Same
<1>5. QED
  BY <1>1, <1>2, <1>3, <1>4, QuietStep

\* The stop of the server is where the result of a review that failed or was
\* cancelled comes out.
LEMMA StopServerStep ==
    ASSUME RunsFit, NEW r \in Runs, StopServer(r)
    PROVE  Step(r)
<1> DEFINE p == IF run[r].status = "none" THEN "check" ELSE "over"
           new == [run[r] EXCEPT !.pc = p]
<1>1. /\ run[r].pc = "stop" /\ agent' = agent /\ Fits(run[r], agent[r], server[r])
      /\ run' = [run EXCEPT ![r].pc = p] /\ server[r] \in ServerState
  BY FitRun DEF StopServer
<1>2. PICK s \in Stopped(server[r]) : server' = [server EXCEPT ![r] = s]
  BY DEF StopServer
<1>3. s \in ServerState /\ s # "up"
  BY <1>1, StoppedType
<1>4. p \in RunnerPC
  BY DEF RunnerPC
<1>5. run' = [run EXCEPT ![r] = new]
  BY <1>1
<1>6. p = IF run[r].status = "none" THEN "check" ELSE "over"
  OBVIOUS
<1> HIDE DEF p
<1>7. /\ new \in Run /\ new.pc = p /\ Keeps(run[r], new)
      /\ new.status = run[r].status /\ new.error = run[r].error
  BY <1>4, FitRun, PcFields
<1> HIDE DEF new
<1>8. PlaceOK(new) /\ ResultOK(new) /\ AskedOK(new)
  BY <1>1, <1>6, <1>7 DEF Fits, PlaceOK, ResultOK, AskedOK, Open, Keeps
<1>9. AgentsOK(new, agent[r])
  <2>1. Live(agent[r]) => new.error = "reader"
    BY <1>1, <1>7 DEF Fits, AgentsOK, ResultOK, Live
  <2>2. QED
    BY <1>1, <1>7, <2>1, AgentsStay DEF Fits, Keeps
<1>10. ServerOK(new, s)
  BY <1>3 DEF ServerOK
<1>11. Honours(run[r], agent[r], new, agent[r])
  <2>1. Phase(run[r]) = "busy" /\ (Early(new) <=> Early(run[r]))
    BY <1>1, <1>7 DEF Phase, Early, Keeps
  <2>2. CASE run[r].status = "none"
    BY <1>6, <1>7, <2>1, <2>2 DEF Honours, Same, Phase
  <2>3. CASE run[r].status = "failed"
    BY <1>6, <1>7, <2>1, <2>3 DEF Honours, Phase
  <2>4. CASE run[r].status = "cancelled"
    <3>1. ~Live(agent[r]) /\ Early(run[r])
      BY <1>1, <2>4, NoneLive DEF Fits, AskedOK, Early
    <3>2. QED
      BY <1>6, <1>7, <2>1, <2>4, <3>1 DEF Honours, Phase
  <2>5. run[r].status \in {"none", "failed", "cancelled"}
    BY <1>1 DEF Fits, ResultOK, Run
  <2>6. QED
    BY <2>2, <2>3, <2>4, <2>5
<1>12. QED
  BY <1>1, <1>2, <1>3, <1>5, <1>7, <1>8, <1>9, <1>10, <1>11, QuietStep DEF Fits


LEMMA StatusType ==
    ASSUME NEW t \in Tasks
    PROVE  Status(t) \in SUBSET Paths
BY DEF Status

\* What Baseline writes; its fields, written one after the other.
Based(rec, h, d) == [rec EXCEPT !.pc = "spawn", !.head = h, !.dirty = d]

BasedAt(rec, h, d, new) ==
    /\ new \in Run /\ new.pc = "spawn" /\ new.head = h /\ new.dirty = d
    /\ new.job = rec.job /\ new.tries = rec.tries /\ new.asked = rec.asked
    /\ new.status = rec.status /\ new.error = rec.error
    /\ new.changed = rec.changed

LEMMA BaselineFields ==
    ASSUME NEW rec \in Run, NEW h \in SUBSET Agents, NEW d \in SUBSET Paths
    PROVE  BasedAt(rec, h, d, Based(rec, h, d))
<1> DEFINE e1 == [rec EXCEPT !.pc = "spawn"]
           e2 == [e1 EXCEPT !.head = h]
           e3 == [e2 EXCEPT !.dirty = d]
<1>1. /\ e1 \in Run /\ e1.pc = "spawn" /\ Keeps(rec, e1) /\ e1.changed = rec.changed
      /\ e1.status = rec.status /\ e1.error = rec.error
  BY PcFields DEF RunnerPC
<1> HIDE DEF e1
<1>2. /\ e2 \in Run /\ e2.pc = "spawn" /\ e2.head = h /\ e2.changed = e1.changed
      /\ e2.job = e1.job /\ e2.tries = e1.tries /\ e2.asked = e1.asked
      /\ e2.status = e1.status /\ e2.error = e1.error
  BY <1>1 DEF Run
<1> HIDE DEF e2
<1>3. /\ e3 \in Run /\ e3.pc = "spawn" /\ e3.head = h /\ e3.changed = e2.changed
      /\ e3.dirty = d
      /\ e3.job = e2.job /\ e3.tries = e2.tries /\ e3.asked = e2.asked
      /\ e3.status = e2.status /\ e3.error = e2.error
  BY <1>2 DEF Run
<1> HIDE DEF e3
<1>4. Based(rec, h, d) = e3
  BY DEF Based, e1, e2, e3
<1>5. QED
  BY <1>1, <1>2, <1>3, <1>4 DEF Keeps, BasedAt

LEMMA BaselineStep ==
    ASSUME RunsFit, tree \in [Tasks -> Tree], NEW r \in Runs, Baseline(r)
    PROVE  Step(r)
<1> DEFINE t == run[r].job.task
           h == tree[t].head
           d == Status(t)
<1>1. /\ run[r].pc = "baseline" /\ agent' = agent /\ server' = server
      /\ Fits(run[r], agent[r], server[r]) /\ ~Live(agent[r])
  BY FitRun, NoneLive DEF Baseline
<1>2. t \in Tasks
  BY <1>1, RunnersAssumption DEF Fits, Run, Job
<1>3. h \in SUBSET Agents /\ d \in SUBSET Paths
  BY <1>2, StatusType DEF Tree
<1>4. CASE run' = [run EXCEPT ![r].pc = "spawn", ![r].head = h, ![r].dirty = d]
  <2> DEFINE new == Based(run[r], h, d)
  <2> HIDE DEF h, d
  <2>0. BasedAt(run[r], h, d, new)
    BY <1>3, FitRun, BaselineFields
  <2>1. /\ new \in Run /\ new.pc = "spawn" /\ new.job = run[r].job
        /\ new.tries = run[r].tries /\ new.asked = run[r].asked
        /\ new.status = run[r].status /\ new.error = run[r].error
    BY <2>0 DEF BasedAt
  <2>2. run' = [run EXCEPT ![r] = new]
    BY <1>4 DEF Based
  <2> HIDE DEF new
  <2>3. PlaceOK(new) /\ ResultOK(new) /\ AskedOK(new) /\ ServerOK(new, server[r])
    BY <1>1, <2>1 DEF Fits, PlaceOK, ResultOK, AskedOK, Open, ServerOK
  <2>4. AgentsOK(new, agent[r])
    BY <1>1, <2>1, AgentsStay DEF Fits
  <2>5. Honours(run[r], agent[r], new, agent[r])
    BY <1>1, <2>1 DEF Honours, Same, Phase, Early
  <2>6. QED
    BY <1>1, <2>1, <2>2, <2>3, <2>4, <2>5, MovesOn
<1>5. CASE run' = [run EXCEPT ![r] = Ended(@, "failed", "baseline", "none")]
  <2>1. /\ server' = [server EXCEPT ![r] = server[r]] /\ server[r] \in ServerState
        /\ "baseline" \in Errors \ {"reader"}
    BY <1>1, FitRun DEF Errors
  <2>2. QED
    BY <1>1, <1>5, <2>1, Fails
<1>6. QED
  BY <1>4, <1>5 DEF Baseline

LEMMA SpawnStep ==
    ASSUME RunsFit, NEW r \in Runs, Spawn(r)
    PROVE  Step(r)
<1>1. /\ run[r].pc = "spawn" /\ server' = server
      /\ Fits(run[r], agent[r], server[r]) /\ ~Live(agent[r])
  BY FitRun, NoneLive DEF Spawn
<1>2. CASE /\ run' = [run EXCEPT ![r].pc = "feed", ![r].tries = @ + 1]
           /\ agent' = WithAgent(r, run[r].tries + 1, [NoAgent EXCEPT !.proc = "alive"])
  <2> DEFINE n == run[r].tries + 1
             e1 == [run[r] EXCEPT !.pc = "feed"]
             new == [e1 EXCEPT !.tries = n]
             a == [NoAgent EXCEPT !.proc = "alive"]
             nag == [agent[r] EXCEPT ![n] = a]
  <2>1. n \in Attempts /\ n \in 0 .. 2
    BY <1>1 DEF Fits, PlaceOK, Attempts
  <2>2. a \in Agent /\ a.proc = "alive" /\ a.state = "none"
    BY DEF Agent, NoAgent
  <2>3. "feed" \in RunnerPC /\ run[r] \in Run /\ agent[r] \in [Attempts -> Agent]
    BY FitRun DEF RunnerPC
  <2>4. /\ e1 \in Run /\ e1.pc = "feed" /\ Keeps(run[r], e1)
        /\ e1.status = run[r].status /\ e1.error = run[r].error
    BY <2>3, PcFields
  <2>5. run' = [run EXCEPT ![r] = new] /\ agent' = [agent EXCEPT ![r] = nag]
    BY <1>2 DEF WithAgent
  <2> HIDE DEF a, e1, n
  <2>6. /\ new \in Run /\ new.pc = "feed" /\ new.job = e1.job /\ new.tries = n
        /\ new.asked = e1.asked /\ new.status = e1.status /\ new.error = e1.error
    BY <2>1, <2>4 DEF Run
  <2>7. /\ nag \in [Attempts -> Agent] /\ nag[n] = a
        /\ \A m \in Attempts \ {n} : nag[m] = agent[r][m]
    BY <2>1, <2>2, <2>3, AgentChange
  <2> HIDE DEF new, nag
  <2>8. PlaceOK(new) /\ ResultOK(new) /\ AskedOK(new) /\ ServerOK(new, server[r])
    BY <1>1, <2>1, <2>4, <2>6 DEF Fits, PlaceOK, ResultOK, AskedOK, Open, Keeps, ServerOK, Attempts
  <2>9. AgentsOK(new, nag)
    BY <1>1, <2>1, <2>2, <2>6, <2>7 DEF Fits, PlaceOK, AgentsOK, Live, Attempts, n
  <2>10. Honours(run[r], agent[r], new, nag)
    <3>1. Live(nag)
      BY <2>1, <2>2, <2>7 DEF Live
    <3>2. QED
      BY <1>1, <2>4, <2>6, <3>1 DEF Honours, Phase, Early, Keeps
  <2>11. Fits(new, nag, server[r])
    BY <1>1, <2>6, <2>7, <2>8, <2>9 DEF Fits
  <2>12. server' = [server EXCEPT ![r] = server[r]]
    BY <1>1, FitRun
  <2>13. QED
    BY <2>5, <2>10, <2>11, <2>12 DEF Step
<1>3. CASE run' = [run EXCEPT ![r] = Leave(@, "failed", "spawn")] /\ UNCHANGED agent
  <2>1. "spawn" \in Errors /\ agent' = [agent EXCEPT ![r] = agent[r]]
    BY <1>3, FitRun DEF Errors
  <2>2. QED
    BY <1>1, <1>3, <2>1, FitRun, Leaves DEF Fits
<1>4. QED
  BY <1>2, <1>3 DEF Spawn


-----------------------------------------------------------------------------
\* One process of a run becomes a.
Becomes(r, n, a, nag) ==
    /\ nag \in [Attempts -> Agent] /\ nag[n] = a
    /\ \A m \in Attempts \ {n} : nag[m] = agent[r][m]

LEMMA WithAgentIs ==
    ASSUME RunsFit, NEW r \in Runs, NEW n \in Attempts, NEW a \in Agent
    PROVE  \E nag : /\ WithAgent(r, n, a) = [agent EXCEPT ![r] = nag]
                    /\ Becomes(r, n, a, nag)
<1> DEFINE nag == [agent[r] EXCEPT ![n] = a]
<1>1. Becomes(r, n, a, nag)
  BY FitRun, AgentChange DEF Becomes
<1>2. WithAgent(r, n, a) = [agent EXCEPT ![r] = nag]
  BY DEF WithAgent
<1> HIDE DEF nag
<1>3. QED
  BY <1>1, <1>2

LEMMA AgentsBecome ==
    ASSUME NEW r \in Runs, NEW n \in Attempts, NEW a, NEW nag, Becomes(r, n, a, nag),
           NEW rec, NEW new, AgentsOK(rec, agent[r]), n = rec.tries, new.tries = rec.tries,
           Live(nag) => new.pc \in {"feed", "probe", "wait"} \/ new.error = "reader",
           a.proc = "alive" => agent[r][n].proc = "alive",
           a.state = "finished" => a.proc = "ok"
    PROVE  AgentsOK(new, nag)
<1> SUFFICES ASSUME NEW m \in Attempts
             PROVE  /\ m > new.tries => nag[m] = NoAgent
                    /\ nag[m].proc = "alive" =>
                           /\ m = new.tries
                           /\ new.pc \in {"feed", "probe", "wait"} \/ new.error = "reader"
                    /\ nag[m].state = "finished" => nag[m].proc = "ok"
  BY DEF AgentsOK
<1>1. nag[m].proc = "alive" => Live(nag)
  BY DEF Live
<1>2. CASE m = n
  <2>1. nag[m] = a /\ ~(m > new.tries) /\ m = new.tries
    BY <1>2 DEF Becomes, Attempts
  <2>2. QED
    BY <1>1, <2>1
<1>3. CASE m # n
  <2>1. nag[m] = agent[r][m]
    BY <1>3 DEF Becomes
  <2>2. QED
    BY <1>1, <2>1 DEF AgentsOK
<1>4. QED
  BY <1>2, <1>3

\* After a kill no agent of the run is alive.
LEMMA KillEnds ==
    ASSUME RunsFit, NEW r \in Runs, run[r].pc \in {"probe", "wait"}
    PROVE  \E nag : /\ Kill(r) = [agent EXCEPT ![r] = nag]
                    /\ nag \in [Attempts -> Agent]
                    /\ AgentsOK(run[r], nag) /\ ~Live(nag)
<1> DEFINE n == run[r].tries
           cur == agent[r][n]
           a == IF cur.proc = "alive" THEN [cur EXCEPT !.proc = "killed"] ELSE cur
<1>1. n \in Attempts /\ cur \in Agent /\ Fits(run[r], agent[r], server[r])
  BY FitRun DEF Fits, PlaceOK, Attempts
<1>2. a \in Agent /\ a.proc # "alive" /\ a.state = cur.state
      /\ (cur.proc # "alive" => a = cur)
  BY <1>1 DEF Agent
<1>3. Kill(r) = WithAgent(r, n, a)
  BY DEF Kill, Current
<1> HIDE DEF a
<1>4. PICK nag : WithAgent(r, n, a) = [agent EXCEPT ![r] = nag] /\ Becomes(r, n, a, nag)
  BY <1>1, <1>2, WithAgentIs
<1>5. ~Live(nag)
  BY <1>1, <1>2, <1>4 DEF Fits, AgentsOK, Live, Becomes
<1>6. AgentsOK(run[r], nag)
  <2>1. cur.state = "finished" => cur.proc = "ok"
    BY <1>1 DEF Fits, AgentsOK
  <2>2. a.state = "finished" => a.proc = "ok"
    BY <1>2, <2>1
  <2>3. QED
    BY <1>1, <1>2, <1>4, <1>5, <2>2, AgentsBecome DEF Fits
<1>7. QED
  BY <1>3, <1>4, <1>5, <1>6 DEF Becomes

LEMMA FeedStep ==
    ASSUME RunsFit, NEW r \in Runs, Feed(r)
    PROVE  Step(r)
<1> DEFINE n == run[r].tries
<1>1. /\ run[r].pc = "feed" /\ server' = [server EXCEPT ![r] = server[r]]
      /\ server' = server
      /\ Fits(run[r], agent[r], server[r]) /\ n \in Attempts /\ agent[r][n] \in Agent
  BY FitRun DEF Feed, Fits, PlaceOK, Attempts
<1>2. CASE /\ run' = [run EXCEPT ![r].pc = IF Resumed(r) THEN "probe" ELSE "wait"]
           /\ agent' = WithAgent(r, n, [Current(r) EXCEPT !.state = "running"])
  <2> DEFINE p == IF Resumed(r) THEN "probe" ELSE "wait"
             new == [run[r] EXCEPT !.pc = p]
             a == [agent[r][n] EXCEPT !.state = "running"]
  <2>1. p \in {"probe", "wait"} /\ p \in RunnerPC /\ (p = "probe" => n = 1)
    BY DEF RunnerPC, Resumed
  <2>2. run' = [run EXCEPT ![r] = new] /\ agent' = WithAgent(r, n, a)
    BY <1>2 DEF Current
  <2> HIDE DEF p
  <2>3. /\ new \in Run /\ new.pc = p /\ Keeps(run[r], new)
        /\ new.status = run[r].status /\ new.error = run[r].error
    BY <2>1, FitRun, PcFields
  <2>4. a \in Agent /\ a.state = "running" /\ a.proc = agent[r][n].proc
    BY <1>1 DEF Agent
  <2> HIDE DEF new, a
  <2>5. PICK nag : WithAgent(r, n, a) = [agent EXCEPT ![r] = nag] /\ Becomes(r, n, a, nag)
    BY <1>1, <2>4, WithAgentIs
  <2>6. PlaceOK(new) /\ ResultOK(new) /\ AskedOK(new) /\ ServerOK(new, server[r])
    BY <1>1, <2>1, <2>3 DEF Fits, PlaceOK, ResultOK, AskedOK, Open, Keeps, ServerOK
  <2>7. AgentsOK(new, nag)
    BY <1>1, <2>1, <2>3, <2>4, <2>5, AgentsBecome DEF Fits, Keeps
  <2>8. Honours(run[r], agent[r], new, nag)
    <3>1. Live(nag) <=> Live(agent[r])
      BY <1>1, <2>4, <2>5 DEF Live, Becomes
    <3>2. QED
      BY <1>1, <2>1, <2>3, <3>1 DEF Honours, Same, Phase, Early, Keeps
  <2>9. Fits(new, nag, server[r])
    BY <1>1, <2>3, <2>5, <2>6, <2>7 DEF Fits, Becomes
  <2>10. QED
    BY <1>1, <2>2, <2>5, <2>8, <2>9 DEF Step
<1>3. CASE /\ Current(r).proc # "alive"
           /\ run' = [run EXCEPT ![r] = Leave(@, "failed", "spawn")] /\ UNCHANGED agent
  <2>1. "spawn" \in Errors /\ agent' = [agent EXCEPT ![r] = agent[r]]
    BY <1>3, FitRun DEF Errors
  <2>2. ~Live(agent[r])
    BY <1>1, <1>3 DEF Fits, AgentsOK, Live, Current
  <2>3. QED
    BY <1>1, <1>3, <2>1, <2>2, FitRun, Leaves DEF Fits
<1>4. QED
  BY <1>2, <1>3 DEF Feed

LEMMA ProbeStep ==
    ASSUME RunsFit, NEW r \in Runs, Probe(r)
    PROVE  Step(r)
<1>1. /\ run[r].pc = "probe" /\ server' = server /\ run[r].tries = 1
      /\ server' = [server EXCEPT ![r] = server[r]]
      /\ Fits(run[r], agent[r], server[r])
  BY FitRun DEF Probe, Fits, PlaceOK
<1>2. CASE agent' = Kill(r) /\ run' = [run EXCEPT ![r].pc = "wait"]
  <2> DEFINE new == [run[r] EXCEPT !.pc = "wait"]
  <2>1. PICK nag : /\ Kill(r) = [agent EXCEPT ![r] = nag]
                   /\ nag \in [Attempts -> Agent]
                   /\ AgentsOK(run[r], nag) /\ ~Live(nag)
    BY <1>1, KillEnds
  <2>2. "wait" \in RunnerPC /\ run[r] \in Run
    BY FitRun DEF RunnerPC
  <2>3. /\ new \in Run /\ new.pc = "wait" /\ Keeps(run[r], new)
        /\ new.status = run[r].status /\ new.error = run[r].error
    BY <2>2, PcFields
  <2>4. run' = [run EXCEPT ![r] = new]
    BY <1>2
  <2> HIDE DEF new
  <2>5. PlaceOK(new) /\ ResultOK(new) /\ AskedOK(new) /\ ServerOK(new, server[r])
    BY <1>1, <2>3 DEF Fits, PlaceOK, ResultOK, AskedOK, Open, Keeps, ServerOK
  <2>6. AgentsOK(new, nag)
    BY <2>1, <2>3, AgentsStay DEF Keeps
  <2>7. Honours(run[r], agent[r], new, nag)
    <3>1. Phase(new) = Phase(run[r]) /\ (Early(new) <=> Early(run[r]))
      BY <1>1, <2>3 DEF Phase, Early, Keeps
    <3>2. QED
      BY <2>1, <3>1 DEF Honours, Same
  <2>8. Fits(new, nag, server[r])
    BY <1>1, <2>1, <2>3, <2>5, <2>6 DEF Fits
  <2>9. QED
    BY <1>1, <1>2, <2>1, <2>4, <2>7, <2>8 DEF Step
<1>3. CASE UNCHANGED agent /\ run' = [run EXCEPT ![r].pc = IF FallsBack(r) THEN "spawn" ELSE "wait"]
  <2> DEFINE p == IF FallsBack(r) THEN "spawn" ELSE "wait"
             new == [run[r] EXCEPT !.pc = p]
  <2>1. p \in RunnerPC \ {"idle", "over"} /\ p \in {"spawn", "wait"}
    BY DEF RunnerPC
  <2>2. p = "spawn" => ~Live(agent[r])
    BY <1>1 DEF Fits, AgentsOK, Live, FallsBack, Current
  <2>3. run' = [run EXCEPT ![r].pc = p]
    BY <1>3
  <2> HIDE DEF p
  <2>4. /\ new \in Run /\ new.pc = p /\ Keeps(run[r], new)
        /\ new.status = run[r].status /\ new.error = run[r].error
        /\ PlaceOK(new) /\ ResultOK(new) /\ AskedOK(new)
              /\ AgentsOK(new, agent[r]) /\ ServerOK(new, server[r]) => Step(r)
    BY <1>1, <1>3, <2>1, <2>3, Proceeds
  <2> HIDE DEF new
  <2>5. PlaceOK(new) /\ ResultOK(new) /\ AskedOK(new) /\ ServerOK(new, server[r])
    BY <1>1, <2>1, <2>4 DEF Fits, PlaceOK, ResultOK, AskedOK, Open, Keeps, ServerOK
  <2>6. AgentsOK(new, agent[r])
    BY <1>1, <2>1, <2>2, <2>4, AgentsStay DEF Fits, Keeps
  <2>7. QED
    BY <2>4, <2>5, <2>6
<1>4. QED
  BY <1>2, <1>3 DEF Probe

LEMMA WaitCancelledStep ==
    ASSUME RunsFit, NEW r \in Runs, WaitCancelled(r)
    PROVE  Step(r)
<1>1. /\ run[r].pc = "wait" /\ server' = server /\ run[r].asked # "no"
      /\ Fits(run[r], agent[r], server[r])
      /\ run' = [run EXCEPT ![r] = Leave(@, "cancelled", "cancelled")]
      /\ agent' = Kill(r)
  BY FitRun DEF WaitCancelled, CancelWins
<1>2. run[r].asked = "early"
  BY <1>1 DEF Fits, AskedOK, Open, Run
<1>3. PICK nag : /\ Kill(r) = [agent EXCEPT ![r] = nag]
                 /\ nag \in [Attempts -> Agent]
                 /\ AgentsOK(run[r], nag) /\ ~Live(nag)
  BY <1>1, KillEnds
<1>4. "cancelled" \in Errors
  BY DEF Errors
<1>5. QED
  BY <1>1, <1>2, <1>3, <1>4, Leaves

LEMMA WaitRaisesStep ==
    ASSUME RunsFit, NEW r \in Runs, WaitRaises(r)
    PROVE  Step(r)
<1>1. /\ run[r].pc = "wait" /\ server' = server
      /\ run' = [run EXCEPT ![r] = Leave(@, "failed", "reader")]
      /\ agent' = [agent EXCEPT ![r] = agent[r]]
      /\ agent[r] \in [Attempts -> Agent] /\ AgentsOK(run[r], agent[r])
  BY FitRun DEF WaitRaises, Fits
<1>2. "reader" \in Errors
  BY DEF Errors
<1>3. QED
  BY <1>1, <1>2, Leaves

\* An answer that is taken is one of an agent that has ended, of a run nobody had
\* cancelled.
LEMMA WaitAnsweredStep ==
    ASSUME RunsFit, NEW r \in Runs, WaitAnswered(r)
    PROVE  Step(r)
<1> DEFINE n == run[r].tries
           cur == agent[r][n]
           a == [cur EXCEPT !.state = IF cur.proc = "ok" THEN "finished" ELSE "failed"]
           rec == run[r]
<1>1. /\ rec.pc = "wait" /\ server' = server /\ rec.asked = "no"
      /\ cur.proc \in {"ok", "error"} /\ agent' = WithAgent(r, n, a)
      /\ run' = [run EXCEPT ![r] = Answer(@, cur.says, Chats(r))]
      /\ server' = [server EXCEPT ![r] = server[r]]
  BY FitRun DEF WaitAnswered, CancelWins, Current
<1>2. Fits(rec, agent[r], server[r]) /\ n \in Attempts /\ cur \in Agent
  BY <1>1, FitRun DEF Fits, PlaceOK, Attempts
<1>3. a \in Agent /\ a.proc = cur.proc /\ (a.state = "finished" => a.proc = "ok")
  BY <1>1, <1>2 DEF Agent
<1> HIDE DEF a
<1>4. PICK nag : WithAgent(r, n, a) = [agent EXCEPT ![r] = nag] /\ Becomes(r, n, a, nag)
  BY <1>2, <1>3, WithAgentIs
<1>5. ~Live(agent[r]) /\ ~Live(nag)
  BY <1>1, <1>2, <1>3, <1>4 DEF Fits, AgentsOK, Live, Becomes
<1>6. AgentsOK(rec, nag)
  BY <1>1, <1>2, <1>3, <1>4, <1>5, AgentsBecome DEF Fits
<1>7. rec.job.role \in Roles
  BY <1>2, RunnersAssumption DEF Fits, Run, Job
<1>8. ASSUME NEW s \in {"succeeded", "failed"}, NEW e \in Errors \ {"reader"},
             NEW v \in Verdicts, rec.job.role # "fi",
             run' = [run EXCEPT ![r] = Ended(@, s, e, v)]
      PROVE  Step(r)
  <2>1. server[r] # "up"
    BY <1>1, <1>2, <1>8 DEF Fits, ServerOK
  <2>2. agent' = [agent EXCEPT ![r] = nag] /\ nag \in [Attempts -> Agent]
    BY <1>1, <1>4 DEF Becomes
  <2>3. rec.pc \notin {"idle", "over"} /\ rec.asked # "early" /\ server' = server
    BY <1>1
  <2>4. QED
    BY <1>5, <1>6, <1>8, <2>1, <2>2, <2>3, Concludes
<1>9. {"none", "log", "answer"} \subseteq Errors \ {"reader"}
      /\ {"none", "chat", "agent"} \subseteq Verdicts
  BY DEF Errors, Verdicts
<1>10. CASE rec.job.role = "pl"
  <2>1. run' = [run EXCEPT ![r] = Ended(@, "failed", "log", "none")]
    BY <1>1, <1>10 DEF Answer, PlannerEnds
  <2>2. QED
    BY <1>8, <1>9, <1>10, <2>1
<1>11. CASE rec.job.role \in {"hl", "fr"} /\ Chats(r)
  <2>1. run' = [run EXCEPT ![r] = Ended(@, "succeeded", "none", "chat")]
    BY <1>1, <1>11 DEF Answer
  <2>2. QED
    BY <1>8, <1>9, <1>11, <2>1
<1>12. CASE rec.job.role = "hl" /\ ~Chats(r)
  <2>1. CASE cur.says = "result"
    <3>1. run' = [run EXCEPT ![r] = Ended(@, "succeeded", "none", "agent")]
      BY <1>1, <1>12, <2>1 DEF Answer
    <3>2. QED
      BY <1>8, <1>9, <1>12, <3>1
  <2>2. CASE cur.says # "result"
    <3>1. run' = [run EXCEPT ![r] = Ended(@, "failed", "answer", "none")]
      BY <1>1, <1>12, <2>2 DEF Answer
    <3>2. QED
      BY <1>8, <1>9, <1>12, <3>1
  <2>3. QED
    BY <2>1, <2>2
<1>13. CASE rec.job.role = "fi" \/ (rec.job.role = "fr" /\ ~Chats(r))
  <2> DEFINE new == [rec EXCEPT !.pc = "git"]
  <2>1. "git" \in RunnerPC /\ rec \in Run
    BY FitRun DEF RunnerPC
  <2>2. /\ new \in Run /\ new.pc = "git" /\ Keeps(rec, new)
        /\ new.status = rec.status /\ new.error = rec.error
    BY <2>1, PcFields
  <2>3. run' = [run EXCEPT ![r] = new]
    BY <1>1, <1>13 DEF Answer
  <2> HIDE DEF new
  <2>4. PlaceOK(new) /\ ResultOK(new) /\ AskedOK(new) /\ ServerOK(new, server[r])
    BY <1>1, <1>2, <2>2 DEF Fits, PlaceOK, ResultOK, AskedOK, Open, Keeps, ServerOK
  <2>5. AgentsOK(new, nag)
    BY <1>5, <1>6, <2>2, AgentsStay DEF Keeps
  <2>6. Honours(rec, agent[r], new, nag)
    BY <1>1, <1>5, <2>2 DEF Honours, Same, Phase, Early, Keeps
  <2>7. Fits(new, nag, server[r])
    BY <1>2, <1>4, <2>2, <2>4, <2>5 DEF Fits, Becomes
  <2>8. QED
    BY <1>1, <1>4, <2>3, <2>6, <2>7 DEF Step
<1>14. QED
  BY <1>7, <1>10, <1>11, <1>12, <1>13 DEF Roles


LEMMA RealizerGitStep ==
    ASSUME RunsFit, NEW r \in Runs, RealizerGit(r)
    PROVE  Step(r)
<1>1. /\ run[r].pc = "git" /\ server' = server /\ run[r].job.role = "fr"
      /\ agent' = [agent EXCEPT ![r] = agent[r]] /\ ~Live(agent[r])
      /\ Fits(run[r], agent[r], server[r])
  BY FitRun, NoneLive DEF RealizerGit
<1>2. /\ run[r].asked # "early" /\ server[r] # "up" /\ AgentsOK(run[r], agent[r])
      /\ agent[r] \in [Attempts -> Agent]
  BY <1>1 DEF Fits, AskedOK, ServerOK
<1>3. {"none", "answer", "git"} \subseteq Errors \ {"reader"}
      /\ {"none", "agent"} \subseteq Verdicts
  BY DEF Errors, Verdicts
<1>4. ASSUME NEW s \in {"succeeded", "failed"}, NEW e \in Errors \ {"reader"},
             NEW v \in Verdicts, run' = [run EXCEPT ![r] = Ended(@, s, e, v)]
      PROVE  Step(r)
  BY <1>1, <1>2, <1>4, Concludes
<1>5. \/ run' = [run EXCEPT ![r] = Ended(@, "failed", "answer", "none")]
      \/ run' = [run EXCEPT ![r] = Ended(@, "succeeded", "none", "agent")]
      \/ run' = [run EXCEPT ![r] = Ended(@, "failed", "git", "none")]
  <2>1. CASE Current(r).says = "blocked" \/ Current(r).proc = "error"
    BY <2>1 DEF RealizerGit
  <2>2. CASE ~(Current(r).says = "blocked" \/ Current(r).proc = "error")
    BY <2>2 DEF RealizerGit
  <2>3. QED
    BY <2>1, <2>2
<1>6. QED
  BY <1>3, <1>4, <1>5

\* What InterpreterGit writes.
Compared(rec, c) == [rec EXCEPT !.pc = "stop", !.changed = c]

LEMMA ComparedFields ==
    ASSUME NEW rec \in Run, NEW c \in BOOLEAN
    PROVE  /\ Compared(rec, c) \in Run /\ Compared(rec, c).pc = "stop"
           /\ Compared(rec, c).changed = c
           /\ Keeps(rec, Compared(rec, c))
           /\ Compared(rec, c).status = rec.status
           /\ Compared(rec, c).error = rec.error
<1> DEFINE e1 == [rec EXCEPT !.pc = "stop"]
           e2 == [e1 EXCEPT !.changed = c]
<1>1. /\ e1 \in Run /\ e1.pc = "stop" /\ Keeps(rec, e1)
      /\ e1.status = rec.status /\ e1.error = rec.error
  BY PcFields DEF RunnerPC
<1> HIDE DEF e1
<1>2. /\ e2 \in Run /\ e2.pc = "stop" /\ Keeps(e1, e2) /\ e2.changed = c
      /\ e2.status = e1.status /\ e2.error = e1.error
  BY <1>1 DEF Run, Keeps
<1> HIDE DEF e2
<1>3. Compared(rec, c) = e2
  BY DEF Compared, e1, e2
<1>4. QED
  BY <1>1, <1>2, <1>3 DEF Keeps

LEMMA InterpreterGitStep ==
    ASSUME RunsFit, NEW r \in Runs, InterpreterGit(r)
    PROVE  Step(r)
<1>1. /\ run[r].pc = "git" /\ server' = server /\ run[r].job.role = "fi"
      /\ agent' = [agent EXCEPT ![r] = agent[r]] /\ agent' = agent /\ ~Live(agent[r])
      /\ Fits(run[r], agent[r], server[r])
  BY FitRun, NoneLive DEF InterpreterGit
<1>2. CASE run' = [run EXCEPT ![r].pc = "stop", ![r].changed = Violated(r)]
  <2> DEFINE c == Violated(r)
             new == Compared(run[r], c)
  <2>1. c \in BOOLEAN /\ run[r] \in Run
    BY FitRun DEF Violated
  <2>2. run' = [run EXCEPT ![r] = new]
    BY <1>2 DEF Compared
  <2> HIDE DEF c
  <2>3. /\ new \in Run /\ new.pc = "stop" /\ Keeps(run[r], new)
        /\ new.status = run[r].status /\ new.error = run[r].error
    BY <2>1, ComparedFields
  <2> HIDE DEF new
  <2>4. PlaceOK(new) /\ ResultOK(new) /\ AskedOK(new) /\ ServerOK(new, server[r])
    BY <1>1, <2>3 DEF Fits, PlaceOK, ResultOK, AskedOK, Open, Keeps, ServerOK
  <2>5. AgentsOK(new, agent[r])
    BY <1>1, <2>3, AgentsStay DEF Fits, Keeps
  <2>6. Honours(run[r], agent[r], new, agent[r])
    BY <1>1, <2>3 DEF Honours, Same, Phase, Early, Keeps
  <2>7. QED
    BY <1>1, <2>2, <2>3, <2>4, <2>5, <2>6, MovesOn
<1>3. CASE run' = [run EXCEPT ![r] = Leave(@, "failed", "git")]
  <2>1. "git" \in Errors /\ agent[r] \in [Attempts -> Agent] /\ AgentsOK(run[r], agent[r])
    BY <1>1 DEF Errors, Fits
  <2>2. QED
    BY <1>1, <1>3, <2>1, Leaves
<1>4. QED
  BY <1>2, <1>3 DEF InterpreterGit

LEMMA CheckStep ==
    ASSUME RunsFit, NEW r \in Runs, Check(r)
    PROVE  Step(r)
<1>1. /\ run[r].pc = "check" /\ server' = server
      /\ agent' = [agent EXCEPT ![r] = agent[r]] /\ ~Live(agent[r])
      /\ Fits(run[r], agent[r], server[r])
  BY FitRun, NoneLive DEF Check
<1>2. /\ run[r].asked # "early" /\ server[r] # "up" /\ AgentsOK(run[r], agent[r])
      /\ agent[r] \in [Attempts -> Agent]
  BY <1>1 DEF Fits, AskedOK, ServerOK
<1>3. ASSUME NEW s \in {"succeeded", "failed"}, NEW e \in Errors \ {"reader"},
             NEW v \in Verdicts, run' = [run EXCEPT ![r] = Ended(@, s, e, v)]
      PROVE  Step(r)
  BY <1>1, <1>2, <1>3, Concludes
<1>4. {"none", "reset"} \subseteq Errors \ {"reader"} /\ "none" \in Verdicts
      /\ {"tampered", "chat", "unknown", "agent"} \subseteq Verdicts
  BY DEF Errors, Verdicts
<1>5. PICK s \in {"succeeded", "failed"}, e \in {"none", "reset"}, v \in Verdicts :
         run' = [run EXCEPT ![r] = Ended(@, s, e, v)]
  <2> DEFINE w == IF Chats(r) THEN "chat"
                  ELSE IF Current(r).says = "text" THEN "unknown" ELSE "agent"
  <2>1. w \in Verdicts
    BY <1>4
  <2>2. \/ run' = [run EXCEPT ![r] = Ended(@, "succeeded", "none", "tampered")]
        \/ run' = [run EXCEPT ![r] = Ended(@, "failed", "reset", "none")]
        \/ run' = [run EXCEPT ![r] = Ended(@, "succeeded", "none", w)]
    BY DEF Check
  <2> HIDE DEF w
  <2>3. QED
    BY <1>4, <2>1, <2>2
<1>6. QED
  BY <1>3, <1>4, <1>5


-----------------------------------------------------------------------------
\* What Start writes.
Begun(rec, job, p) == [rec EXCEPT !.job = job, !.pc = p]

LEMMA BegunFields ==
    ASSUME NEW rec \in Run, NEW job \in Jobs, NEW p \in RunnerPC
    PROVE  /\ Begun(rec, job, p) \in Run /\ Begun(rec, job, p).pc = p
           /\ Begun(rec, job, p).job = job /\ Begun(rec, job, p).tries = rec.tries
           /\ Begun(rec, job, p).asked = rec.asked
           /\ Begun(rec, job, p).head = rec.head
           /\ Begun(rec, job, p).status = rec.status
           /\ Begun(rec, job, p).error = rec.error
BY DEF Begun, Run

LEMMA StartStep ==
    ASSUME RunsFit, NEW r \in Runs, NEW job \in Jobs, Start(r, job)
    PROVE  Step(r)
<1> DEFINE p == CASE job.role = "fr" -> "tree"
                  [] job.role = "fi" /\ HasServer -> "serve"
                  [] job.role = "fi" /\ ~HasServer -> "baseline"
                  [] OTHER -> "spawn"
           new == Begun(run[r], job, p)
<1>1. /\ run[r].pc = "idle" /\ server' = server /\ agent' = agent
      /\ Fits(run[r], agent[r], server[r]) /\ ~Live(agent[r])
      /\ run' = [run EXCEPT ![r].job = job, ![r].pc = p]
  BY FitRun, NoneLive DEF Start
<1>2. run' = [run EXCEPT ![r] = new]
  BY <1>1 DEF Begun
<1>3. /\ p \in RunnerPC /\ p \in {"tree", "serve", "baseline", "spawn"}
      /\ p \in {"serve", "baseline"} => job.role = "fi"
  <2>1. CASE job.role = "fr"
    BY <2>1 DEF RunnerPC
  <2>2. CASE job.role = "fi" /\ HasServer
    BY <2>2 DEF RunnerPC
  <2>3. CASE job.role = "fi" /\ ~HasServer
    BY <2>3 DEF RunnerPC
  <2>4. CASE job.role \notin {"fr", "fi"}
    BY <2>4 DEF RunnerPC
  <2>5. QED
    BY <2>1, <2>2, <2>3, <2>4
<1> HIDE DEF p
<1>4. /\ new \in Run /\ new.pc = p /\ new.job = job
      /\ new.tries = run[r].tries /\ new.asked = run[r].asked
      /\ new.status = run[r].status /\ new.error = run[r].error
  BY <1>3, FitRun, BegunFields
<1> HIDE DEF new
<1>5. PlaceOK(new) /\ ResultOK(new) /\ AskedOK(new) /\ ServerOK(new, server[r])
  BY <1>1, <1>3, <1>4 DEF Fits, PlaceOK, ResultOK, AskedOK, Open, ServerOK
<1>6. AgentsOK(new, agent[r])
  BY <1>1, <1>4, AgentsStay DEF Fits
<1>7. Honours(run[r], agent[r], new, agent[r])
  BY <1>1, <1>3, <1>4 DEF Honours, Phase, Early
<1>8. QED
  BY <1>1, <1>2, <1>4, <1>5, <1>6, <1>7, MovesOn

LEMMA CancelStep ==
    ASSUME RunsFit, NEW r \in Runs, Cancel(r)
    PROVE  Step(r)
<1> DEFINE a == IF run[r].pc \in Open THEN "early" ELSE "late"
           new == [run[r] EXCEPT !.asked = a]
<1>1. /\ run[r].pc \notin {"idle", "over"} /\ run[r].asked = "no"
      /\ agent' = agent /\ server' = server
      /\ run' = [run EXCEPT ![r].asked = a]
      /\ run[r] \in Run /\ Fits(run[r], agent[r], server[r])
  BY FitRun DEF Cancel, Underway
<1>2. a \in {"early", "late"} /\ (a = "early" <=> run[r].pc \in Open)
  OBVIOUS
<1>3. run' = [run EXCEPT ![r] = new]
  BY <1>1
<1> HIDE DEF a
<1>4. /\ new \in Run /\ new.asked = a /\ new.pc = run[r].pc
      /\ new.job = run[r].job /\ new.tries = run[r].tries
      /\ new.status = run[r].status /\ new.error = run[r].error
  BY <1>1, <1>2 DEF Run
<1> HIDE DEF new
<1>5. PlaceOK(new) /\ ResultOK(new) /\ ServerOK(new, server[r]) /\ AgentsOK(new, agent[r])
  BY <1>1, <1>4 DEF Fits, PlaceOK, ResultOK, ServerOK, AgentsOK
<1>6. AskedOK(new)
  BY <1>1, <1>2, <1>4 DEF Fits, AskedOK, Open
<1>7. Honours(run[r], agent[r], new, agent[r])
  BY <1>1, <1>2, <1>4 DEF Honours, Same, Phase, Early
<1>8. QED
  BY <1>1, <1>3, <1>4, <1>5, <1>6, <1>7, MovesOn

LEMMA AgentExitsStep ==
    ASSUME RunsFit, NEW r \in Runs, NEW n \in Attempts, NEW how \in {"ok", "error"},
           NEW says \in Answers, AgentExits(r, n, how, says)
    PROVE  Step(r)
<1> DEFINE e1 == [agent[r][n] EXCEPT !.proc = how]
           a == [e1 EXCEPT !.says = says]
<1>1. /\ agent[r][n].proc = "alive" /\ agent' = WithAgent(r, n, a)
      /\ run' = [run EXCEPT ![r] = run[r]] /\ server' = [server EXCEPT ![r] = server[r]]
      /\ Fits(run[r], agent[r], server[r]) /\ agent[r][n] \in Agent
  BY FitRun DEF AgentExits
<1>2. e1 \in Agent /\ e1.proc = how /\ e1.state = agent[r][n].state
  BY <1>1 DEF Agent
<1> HIDE DEF e1
<1>3. a \in Agent /\ a.proc = how /\ a.state = e1.state
  BY <1>2, RunnersAssumption DEF Agent
<1> HIDE DEF a
<1>4. PICK nag : WithAgent(r, n, a) = [agent EXCEPT ![r] = nag] /\ Becomes(r, n, a, nag)
  BY <1>3, WithAgentIs
<1>5. n = run[r].tries /\ agent[r][n].state # "finished"
  BY <1>1 DEF Fits, AgentsOK
<1>6. Live(agent[r]) /\ ~Live(nag)
  BY <1>1, <1>3, <1>4, <1>5 DEF Fits, AgentsOK, Live, Becomes
<1>7. AgentsOK(run[r], nag)
  BY <1>1, <1>2, <1>3, <1>4, <1>5, <1>6, AgentsBecome DEF Fits
<1>8. Honours(run[r], agent[r], run[r], nag)
  BY <1>6 DEF Honours
<1>9. Fits(run[r], nag, server[r])
  BY <1>1, <1>4, <1>7 DEF Fits, Becomes
<1>10. QED
  BY <1>1, <1>4, <1>8, <1>9 DEF Step

LEMMA NoStep ==
    ASSUME RunsFit, NEW r \in Runs, UNCHANGED <<run, agent, server>>
    PROVE  Step(r)
<1>1. Honours(run[r], agent[r], run[r], agent[r])
  BY DEF Honours, Same
<1>2. QED
  BY <1>1, FitRun DEF Step

\* Every step is a step of one run.
LEMMA NextIsStep ==
    ASSUME RunsFit, tree \in [Tasks -> Tree], Next
    PROVE  \E r \in Runs : Step(r)
<1>1. PICK r \in Runs : \/ \E job \in Jobs : Start(r, job)
                        \/ Cancel(r)
                        \/ RunnerStep(r) \/ WaitRaises(r)
                        \/ ServerEnds(r)
                        \/ \E n \in Attempts : AgentStep(r, n)
  BY DEF Next
<1>2. CASE (\E job \in Jobs : Start(r, job)) \/ Cancel(r)
  BY <1>2, StartStep, CancelStep
<1>3. CASE RunnerStep(r)
  BY <1>3, CreateWorktreeStep, ServerSpawnStep, ServerReadyStep, ServerFailsStep,
     BaselineStep, SpawnStep, FeedStep, ProbeStep, WaitCancelledStep, WaitAnsweredStep,
     RealizerGitStep, InterpreterGitStep, StopServerStep, CheckStep DEF RunnerStep
<1>4. CASE WaitRaises(r) \/ ServerEnds(r)
  BY <1>4, WaitRaisesStep, ServerEndsStep
<1>5. ASSUME NEW n \in Attempts, AgentStep(r, n)
      PROVE  Step(r)
  BY <1>5, AgentExitsStep, NoStep DEF AgentStep, AgentEdits, AgentCommits
<1>6. QED
  BY <1>1, <1>2, <1>3, <1>4, <1>5

LEMMA StepFits ==
    ASSUME RunsFit, NEW r \in Runs, Step(r)
    PROVE  RunsFit'
<1>1. PICK new, nag, nsv :
        /\ run' = [run EXCEPT ![r] = new]
        /\ agent' = [agent EXCEPT ![r] = nag]
        /\ server' = [server EXCEPT ![r] = nsv]
        /\ Fits(new, nag, nsv)
  BY DEF Step
<1>2. Shape'
  BY <1>1 DEF RunsFit, Shape
<1>3. ASSUME NEW q \in Runs
      PROVE  Fits(run'[q], agent'[q], server'[q])
  BY <1>1, <1>3 DEF RunsFit, Shape
<1>4. QED
  BY <1>2, <1>3 DEF RunsFit


-----------------------------------------------------------------------------
TreesOK == tree \in [Tasks -> Tree]

RunnersInv == RunsFit /\ TreesOK

\* Who changes a worktree: agents at work, and a review that resets it.
LEMMA TreeChanges ==
    ASSUME Next
    PROVE  \/ UNCHANGED tree
           \/ \E r \in Runs, n \in Attempts, p \in Paths : AgentEdits(r, n, p)
           \/ \E r \in Runs, n \in Attempts : AgentCommits(r, n)
           \/ \E r \in Runs : Check(r) /\ run[r].changed /\ tree' = Reset(r)
<1>1. PICK r \in Runs : \/ \E job \in Jobs : Start(r, job)
                        \/ Cancel(r)
                        \/ RunnerStep(r) \/ WaitRaises(r)
                        \/ ServerEnds(r)
                        \/ \E n \in Attempts : AgentStep(r, n)
  BY DEF Next
<1>2. CASE (\E job \in Jobs : Start(r, job)) \/ Cancel(r) \/ WaitRaises(r) \/ ServerEnds(r)
  BY <1>2 DEF Start, Cancel, WaitRaises, ServerEnds
<1>3. CASE RunnerStep(r) /\ ~Check(r)
  BY <1>3 DEF RunnerStep, CreateWorktree, ServerSpawn, ServerReady, ServerFails, Baseline,
     Spawn, Feed, Probe, WaitCancelled, WaitAnswered, RealizerGit, InterpreterGit, StopServer
<1>4. CASE Check(r)
  BY <1>4 DEF Check
<1>5. CASE \E n \in Attempts : AgentStep(r, n)
  BY <1>5 DEF AgentStep, AgentExits
<1>6. QED
  BY <1>1, <1>2, <1>3, <1>4, <1>5

LEMMA TaskOf ==
    ASSUME RunsFit, NEW r \in Runs
    PROVE  run[r].job.task \in Tasks
BY FitRun, RunnersAssumption DEF Run, Job

LEMMA TreesStep ==
    ASSUME RunnersInv, [Next]_rnvars
    PROVE  TreesOK'
<1>1. CASE UNCHANGED tree
  BY <1>1 DEF RunnersInv, TreesOK
<1>2. ASSUME NEW r \in Runs, NEW n \in Attempts, NEW p \in Paths, AgentEdits(r, n, p)
      PROVE  TreesOK'
  <2> DEFINE t == run[r].job.task
             w == [tree[t] EXCEPT !.edits = @ \cup {<<<<r, n>>, p>>}]
  <2>1. t \in Tasks /\ tree[t] \in Tree
    BY TaskOf DEF RunnersInv, TreesOK
  <2>2. tree[t].edits \cup {<<<<r, n>>, p>>} \in SUBSET (Agents \X Paths)
    BY <2>1 DEF Tree, Agents
  <2>3. w \in Tree
    BY <2>1, <2>2 DEF Tree
  <2>4. tree' = [tree EXCEPT ![t] = w]
    BY <1>2 DEF AgentEdits
  <2>5. QED
    BY <2>1, <2>3, <2>4 DEF RunnersInv, TreesOK
<1>3. ASSUME NEW r \in Runs, NEW n \in Attempts, AgentCommits(r, n)
      PROVE  TreesOK'
  <2> DEFINE t == run[r].job.task
             h == tree[t].head \cup {<<r, n>>}
             e == {x \in tree[t].edits : x[2] \in Artifacts}
  <2>1. t \in Tasks /\ tree[t] \in Tree
    BY TaskOf DEF RunnersInv, TreesOK
  <2>2. h \in SUBSET Agents /\ e \in SUBSET (Agents \X Paths)
    BY <2>1 DEF Tree, Agents
  <2>3. tree' = [tree EXCEPT ![t] = [head |-> h, edits |-> e]]
    BY <1>3 DEF AgentCommits
  <2> HIDE DEF h, e
  <2>4. [head |-> h, edits |-> e] \in Tree
    BY <2>2 DEF Tree
  <2>5. QED
    BY <2>1, <2>3, <2>4 DEF RunnersInv, TreesOK
<1>4. ASSUME NEW r \in Runs, tree' = Reset(r)
      PROVE  TreesOK'
  <2>1. run[r].head \in SUBSET Agents
    BY FitRun DEF RunnersInv, Run
  <2>2. [head |-> run[r].head, edits |-> {}] \in Tree
    BY <2>1 DEF Tree
  <2>3. QED
    BY <1>4, <2>2, TaskOf DEF Reset, RunnersInv, TreesOK
<1>5. QED
  BY <1>1, <1>2, <1>3, <1>4, TreeChanges DEF rnvars

LEMMA RunnersInit == Init => RunnersInv
<1> SUFFICES ASSUME Init PROVE RunnersInv
  OBVIOUS
<1> DEFINE rec == [pc |-> "idle", job |-> CHOOSE job \in Jobs : TRUE, tries |-> 0,
                   asked |-> "no", head |-> {}, dirty |-> {}, changed |-> FALSE,
                   status |-> "none", error |-> "none", verdict |-> "none"]
           ag == [n \in Attempts |-> NoAgent]
<1>1. /\ run = [r \in Runs |-> rec] /\ agent = [r \in Runs |-> ag]
      /\ server = [r \in Runs |-> "none"]
      /\ tree = [t \in Tasks |-> [head |-> {}, edits |-> {}]]
  BY DEF Init
<1>2. (CHOOSE job \in Jobs : TRUE) \in Jobs
  BY RunnersAssumption
<1>3. rec \in Run /\ rec.pc = "idle" /\ rec.tries = 0 /\ rec.asked = "no"
      /\ rec.status = "none" /\ rec.error = "none"
  BY <1>2 DEF Run, RunnerPC
<1>4. ag \in [Attempts -> Agent] /\ \A n \in Attempts : ag[n] = NoAgent
  BY DEF Agent, NoAgent
<1> HIDE DEF rec, ag
<1>5. Fits(rec, ag, "none")
  BY <1>3, <1>4 DEF Fits, PlaceOK, ResultOK, AskedOK, AgentsOK, ServerOK, ServerState,
     Open, NoAgent
<1>6. RunsFit
  BY <1>1, <1>5 DEF RunsFit, Shape
<1>7. TreesOK
  <2>1. [head |-> {}, edits |-> {}] \in Tree
    BY DEF Tree
  <2>2. QED
    BY <1>1, <2>1 DEF TreesOK
<1>8. QED
  BY <1>6, <1>7 DEF RunnersInv

LEMMA RunnersNext ==
    ASSUME RunnersInv, [Next]_rnvars
    PROVE  RunnersInv'
<1>1. TreesOK'
  BY TreesStep
<1>2. CASE Next
  <2>1. PICK r \in Runs : Step(r)
    BY <1>2, NextIsStep DEF RunnersInv, TreesOK
  <2>2. RunsFit'
    BY <2>1, StepFits DEF RunnersInv
  <2>3. QED
    BY <1>1, <2>2 DEF RunnersInv
<1>3. CASE UNCHANGED rnvars
  BY <1>3 DEF rnvars, RunnersInv, RunsFit, Shape, TreesOK
<1>4. QED
  BY <1>2, <1>3

LEMMA InvImplies == RunnersInv => TypeOK /\ NoStrayAgent /\ NoServerLeft
<1> SUFFICES ASSUME RunnersInv PROVE TypeOK /\ NoStrayAgent /\ NoServerLeft
  OBVIOUS
<1>1. ASSUME NEW r \in Runs
      PROVE  Fits(run[r], agent[r], server[r])
  BY DEF RunnersInv, RunsFit
<1>2. TypeOK
  BY <1>1 DEF RunnersInv, RunsFit, Shape, TreesOK, TypeOK, Fits
<1>3. NoStrayAgent
  BY <1>1 DEF NoStrayAgent, Fits, AgentsOK, Underway
<1>4. NoServerLeft
  BY <1>1 DEF NoServerLeft, Fits, ServerOK, Underway
<1>5. QED
  BY <1>2, <1>3, <1>4

\* Runs, agents, servers and worktrees keep their shape.
THEOREM RunnersTypeCorrect == Spec => []TypeOK
<1>1. Init => RunnersInv
  BY RunnersInit
<1>2. RunnersInv /\ [Next]_rnvars => RunnersInv'
  BY RunnersNext
<1>3. QED
  BY <1>1, <1>2, InvImplies, PTL DEF Spec

\* An agent that is alive is the one its run waits for, unless the run's reader
\* raised; a handle that says finished belongs to a process that ended well.
THEOREM NoStrayAgentCorrect == Spec => []NoStrayAgent
<1>1. Init => RunnersInv
  BY RunnersInit
<1>2. RunnersInv /\ [Next]_rnvars => RunnersInv'
  BY RunnersNext
<1>3. QED
  BY <1>1, <1>2, InvImplies, PTL DEF Spec

\* A development server whose shell runs belongs to a review under way, unless git
\* failed before the review's try block began.
THEOREM NoServerLeftCorrect == Spec => []NoServerLeft
<1>1. Init => RunnersInv
  BY RunnersInit
<1>2. RunnersInv /\ [Next]_rnvars => RunnersInv'
  BY RunnersNext
<1>3. QED
  BY <1>1, <1>2, InvImplies, PTL DEF Spec


-----------------------------------------------------------------------------
\* The contract's variables, as its instance has them.
ThePhase == [r \in Runs |-> IF run[r].pc = "idle" THEN "idle"
                            ELSE IF run[r].pc # "over" THEN "busy" ELSE run[r].status]
TheLive == [r \in Runs |-> \E n \in Attempts : agent[r][n].proc = "alive"]
TheAsked == [r \in Runs |-> run[r].asked = "early"]

\* A step of one run changes the contract's variables at that run only.
LEMMA ContractVars ==
    ASSUME RunsFit, NEW r \in Runs, NEW new, NEW nag,
           run' = [run EXCEPT ![r] = new], agent' = [agent EXCEPT ![r] = nag]
    PROVE  /\ ThePhase[r] = Phase(run[r]) /\ ThePhase' = [ThePhase EXCEPT ![r] = Phase(new)]
           /\ TheLive[r] = Live(agent[r]) /\ TheLive' = [TheLive EXCEPT ![r] = Live(nag)]
           /\ TheAsked[r] = Early(run[r]) /\ TheAsked' = [TheAsked EXCEPT ![r] = Early(new)]
<1>1. /\ run'[r] = new /\ agent'[r] = nag
      /\ \A q \in Runs \ {r} : run'[q] = run[q] /\ agent'[q] = agent[q]
  BY DEF RunsFit, Shape
<1>2. ThePhase[r] = Phase(run[r]) /\ ThePhase' = [ThePhase EXCEPT ![r] = Phase(new)]
  <2>1. ThePhase = [q \in Runs |-> Phase(run[q])]
    BY DEF ThePhase, Phase
  <2>2. ThePhase' = [q \in Runs |-> Phase(run'[q])]
    BY DEF ThePhase, Phase
  <2>3. QED
    BY <1>1, <2>1, <2>2
<1>3. TheLive[r] = Live(agent[r]) /\ TheLive' = [TheLive EXCEPT ![r] = Live(nag)]
  <2>1. TheLive = [q \in Runs |-> Live(agent[q])]
    BY DEF TheLive, Live
  <2>2. TheLive' = [q \in Runs |-> Live(agent'[q])]
    BY DEF TheLive, Live
  <2>3. QED
    BY <1>1, <2>1, <2>2
<1>4. TheAsked[r] = Early(run[r]) /\ TheAsked' = [TheAsked EXCEPT ![r] = Early(new)]
  <2>1. TheAsked = [q \in Runs |-> Early(run[q])]
    BY DEF TheAsked, Early
  <2>2. TheAsked' = [q \in Runs |-> Early(run'[q])]
    BY DEF TheAsked, Early
  <2>3. QED
    BY <1>1, <2>1, <2>2
<1>5. QED
  BY <1>2, <1>3, <1>4

LEMMA ContractStep ==
    ASSUME RunsFit, NEW r \in Runs, Step(r)
    PROVE  Contract!Next \/ UNCHANGED Contract!cvars
<1>1. PICK new, nag :
        /\ run' = [run EXCEPT ![r] = new]
        /\ agent' = [agent EXCEPT ![r] = nag]
        /\ Honours(run[r], agent[r], new, nag)
  BY DEF Step
<1>2. /\ ThePhase[r] = Phase(run[r]) /\ ThePhase' = [ThePhase EXCEPT ![r] = Phase(new)]
      /\ TheLive[r] = Live(agent[r]) /\ TheLive' = [TheLive EXCEPT ![r] = Live(nag)]
      /\ TheAsked[r] = Early(run[r]) /\ TheAsked' = [TheAsked EXCEPT ![r] = Early(new)]
  BY <1>1, ContractVars
<1>3. Phase(new) = Phase(run[r]) => ThePhase' = ThePhase
  BY <1>2 DEF ThePhase
<1>4. (Live(nag) <=> Live(agent[r])) => TheLive' = TheLive
  <2>1. Live(nag) \in BOOLEAN /\ Live(agent[r]) \in BOOLEAN
    BY DEF Live
  <2>2. QED
    BY <1>2, <2>1 DEF TheLive
<1>5. (Early(new) <=> Early(run[r])) => TheAsked' = TheAsked
  <2>1. Early(new) \in BOOLEAN /\ Early(run[r]) \in BOOLEAN
    BY DEF Early
  <2>2. QED
    BY <1>2, <2>1 DEF TheAsked
<1>6. CASE Same(run[r], agent[r], new, nag)
  BY <1>3, <1>4, <1>5, <1>6
     DEF Same, Contract!cvars, ThePhase, TheLive, TheAsked
<1>7. CASE /\ Phase(run[r]) = "idle" /\ Phase(new) = "busy"
           /\ (Live(nag) <=> Live(agent[r])) /\ (Early(new) <=> Early(run[r]))
  <2>1. /\ ThePhase[r] = "idle" /\ ThePhase' = [ThePhase EXCEPT ![r] = "busy"]
        /\ TheLive' = TheLive /\ TheAsked' = TheAsked
    BY <1>2, <1>4, <1>5, <1>7
  <2>2. Contract!Begin(r)
    BY <2>1 DEF Contract!Begin, ThePhase, TheLive, TheAsked
  <2>3. QED
    BY <2>2 DEF Contract!Next
<1>8. CASE /\ Phase(run[r]) = "busy" /\ ~Live(agent[r]) /\ Live(nag)
           /\ Phase(new) = Phase(run[r]) /\ (Early(new) <=> Early(run[r]))
  <2>1. /\ ThePhase[r] = "busy" /\ ~TheLive[r] /\ TheLive' = [TheLive EXCEPT ![r] = TRUE]
        /\ ThePhase' = ThePhase /\ TheAsked' = TheAsked
    BY <1>2, <1>3, <1>5, <1>8
  <2>2. Contract!Launch(r)
    BY <2>1 DEF Contract!Launch, ThePhase, TheLive, TheAsked
  <2>3. QED
    BY <2>2 DEF Contract!Next
<1>9. CASE /\ Live(agent[r]) /\ ~Live(nag)
           /\ Phase(new) = Phase(run[r]) /\ (Early(new) <=> Early(run[r]))
  <2>1. /\ TheLive[r] /\ TheLive' = [TheLive EXCEPT ![r] = FALSE]
        /\ ThePhase' = ThePhase /\ TheAsked' = TheAsked
    <3>1. Live(nag) = FALSE
      BY <1>9 DEF Live
    <3>2. QED
      BY <1>2, <1>3, <1>5, <1>9, <3>1
  <2>2. Contract!Quit(r)
    BY <2>1 DEF Contract!Quit, ThePhase, TheLive, TheAsked
  <2>3. QED
    BY <2>2 DEF Contract!Next
<1>10. CASE /\ Phase(run[r]) = "busy" /\ Early(new)
            /\ Phase(new) = Phase(run[r]) /\ (Live(nag) <=> Live(agent[r]))
  <2>1. /\ ThePhase[r] = "busy" /\ TheAsked' = [TheAsked EXCEPT ![r] = TRUE]
        /\ ThePhase' = ThePhase /\ TheLive' = TheLive
    BY <1>2, <1>3, <1>4, <1>10
  <2>2. Contract!Ask(r)
    BY <2>1 DEF Contract!Ask, ThePhase, TheLive, TheAsked
  <2>3. QED
    BY <2>2 DEF Contract!Next
<1>11. CASE /\ Phase(run[r]) = "busy" /\ ~Live(agent[r]) /\ ~Early(run[r])
            /\ Phase(new) = "succeeded"
            /\ (Live(nag) <=> Live(agent[r])) /\ (Early(new) <=> Early(run[r]))
  <2>1. /\ ThePhase[r] = "busy" /\ ~TheLive[r] /\ ~TheAsked[r]
        /\ ThePhase' = [ThePhase EXCEPT ![r] = "succeeded"]
        /\ TheLive' = TheLive /\ TheAsked' = TheAsked
    BY <1>2, <1>4, <1>5, <1>11
  <2>2. Contract!Succeed(r)
    BY <2>1 DEF Contract!Succeed, ThePhase, TheLive, TheAsked
  <2>3. QED
    BY <2>2 DEF Contract!Next
<1>12. CASE /\ Phase(run[r]) = "busy" /\ Phase(new) = "failed"
            /\ (Live(nag) <=> Live(agent[r])) /\ (Early(new) <=> Early(run[r]))
  <2>1. /\ ThePhase[r] = "busy" /\ ThePhase' = [ThePhase EXCEPT ![r] = "failed"]
        /\ TheLive' = TheLive /\ TheAsked' = TheAsked
    BY <1>2, <1>4, <1>5, <1>12
  <2>2. Contract!Fail(r)
    BY <2>1 DEF Contract!Fail, ThePhase, TheLive, TheAsked
  <2>3. QED
    BY <2>2 DEF Contract!Next
<1>13. CASE /\ Phase(run[r]) = "busy" /\ Early(run[r])
            /\ Phase(new) = "cancelled" /\ ~Live(nag) /\ (Early(new) <=> Early(run[r]))
  <2>1. /\ ThePhase[r] = "busy" /\ TheAsked[r]
        /\ ThePhase' = [ThePhase EXCEPT ![r] = "cancelled"]
        /\ TheLive' = [TheLive EXCEPT ![r] = FALSE] /\ TheAsked' = TheAsked
    <3>1. Live(nag) = FALSE
      BY <1>13 DEF Live
    <3>2. QED
      BY <1>2, <1>5, <1>13, <3>1
  <2>2. Contract!Cancel(r)
    BY <2>1 DEF Contract!Cancel, ThePhase, TheLive, TheAsked
  <2>3. QED
    BY <2>2 DEF Contract!Next
<1>14. QED
  BY <1>1, <1>6, <1>7, <1>8, <1>9, <1>10, <1>11, <1>12, <1>13 DEF Honours

LEMMA ContractInit == Init => Contract!Init
<1> SUFFICES ASSUME Init PROVE Contract!Init
  OBVIOUS
<1>1. ASSUME NEW r \in Runs
      PROVE  run[r].pc = "idle" /\ run[r].asked = "no"
             /\ \A n \in Attempts : agent[r][n].proc = "none"
  BY DEF Init, NoAgent
<1>2. ThePhase = [r \in Runs |-> "idle"]
  BY <1>1 DEF ThePhase
<1>3. TheLive = [r \in Runs |-> FALSE]
  BY <1>1 DEF TheLive
<1>4. TheAsked = [r \in Runs |-> FALSE]
  BY <1>1 DEF TheAsked
<1>5. QED
  BY <1>2, <1>3, <1>4 DEF Contract!Init, ThePhase, TheLive, TheAsked

\* The runners implement the contract of AgentRunner.run.
THEOREM ContractCorrect == Spec => ContractSpec
<1>1. Init => RunnersInv /\ Contract!Init
  BY RunnersInit, ContractInit
<1>2. RunnersInv /\ [Next]_rnvars => RunnersInv'
  BY RunnersNext
<1>3. RunnersInv /\ [Next]_rnvars => [Contract!Next]_(Contract!cvars)
  <2> SUFFICES ASSUME RunnersInv, [Next]_rnvars
               PROVE  Contract!Next \/ UNCHANGED Contract!cvars
    OBVIOUS
  <2>1. CASE Next
    BY <2>1, NextIsStep, ContractStep DEF RunnersInv, TreesOK
  <2>2. CASE UNCHANGED rnvars
    BY <2>2 DEF rnvars, Contract!cvars
  <2>3. QED
    BY <2>1, <2>2
<1>4. QED
  BY <1>1, <1>2, <1>3, PTL DEF Spec, ContractSpec, Contract!Spec


-----------------------------------------------------------------------------
(***************************************************************************)
(* Reviews leave no trace.  A review that is done, or has found nothing    *)
(* changed and only stops its server, is traceless; for that to last, the  *)
(* heads other reviews reset to must be free of it, hence one review at a  *)
(* time, and a record of whose commits may be on which head.               *)
(***************************************************************************)
Reviewing(rec) == rec.pc \notin {"idle", "over"} /\ rec.job.role = "fi"

Done(rec) == rec.pc = "over" /\ rec.status = "succeeded" /\ rec.job.role = "fi"

Passed(rec) ==
    rec.pc \in {"stop", "check"} /\ rec.status = "none" /\ rec.job.role = "fi" /\ ~rec.changed

Traceless(r) ==
    \A n \in Attempts :
        /\ <<r, n>> \notin tree[run[r].job.task].head
        /\ \A p \in Paths \ (Artifacts \cup run[r].dirty) :
               <<<<r, n>>, p>> \notin tree[run[r].job.task].edits

OneReview == \A q, r \in Runs : Reviewing(run[q]) /\ Reviewing(run[r]) => q = r

\* Whose commits a worktree's head, and a baseline, may contain.
HeadsOwned ==
    \A r \in Runs, n \in Attempts, t \in Tasks :
        <<r, n>> \in tree[t].head => t = run[r].job.task /\ n <= run[r].tries

BasesOwned ==
    /\ \A r \in Runs, n \in Attempts, q \in Runs :
         <<r, n>> \in run[q].head =>
             run[q].job.task = run[r].job.task /\ n <= run[r].tries
    /\ \A r \in Runs, n \in Attempts : <<r, n>> \notin run[r].head
    /\ \A r \in Runs : run[r].pc \in {"idle", "tree", "serve", "ready", "baseline"}
                           => run[r].head = {}

\* A review under way does not go back to the commits of one that is done.
BasesClean ==
    \A q, r \in Runs : Reviewing(run[q]) /\ Done(run[r]) =>
        \A n \in Attempts : <<r, n>> \notin run[q].head

TracesGone == \A r \in Runs : Done(run[r]) \/ Passed(run[r]) => Traceless(r)

TraceInv == OneReview /\ HeadsOwned /\ BasesOwned /\ BasesClean /\ TracesGone


\* The steps of a run that matter to none of this: neither its start, nor its
\* baseline, nor the comparison with it.
Beginning == {"idle", "tree", "serve", "ready", "baseline"}

Routine(rec, new) ==
    /\ new.job = rec.job /\ new.head = rec.head /\ new.dirty = rec.dirty
    /\ rec.tries <= new.tries
    /\ Reviewing(new) => Reviewing(rec)
    /\ new.pc \in Beginning => rec.pc \in Beginning
    /\ Done(new) => Done(rec) \/ Passed(rec)
    /\ Passed(new) => Passed(rec)

RoutineStep(r) ==
    \E new : run' = [run EXCEPT ![r] = new] /\ Routine(run[r], new)

LEMMA EndIsRoutine ==
    ASSUME RunsFit, NEW r \in Runs, NEW s \in Results, NEW e \in Errors, NEW v \in Verdicts,
           s # "succeeded" \/ run[r].job.role # "fi" \/ Passed(run[r]),
           run' = [run EXCEPT ![r] = Ended(@, s, e, v)]
    PROVE  RoutineStep(r)
<1> DEFINE new == Ended(run[r], s, e, v)
<1>1. /\ new.pc = "over" /\ new.status = s /\ Keeps(run[r], new) /\ run[r].tries \in 0 .. 2
  BY FitRun, EndedFields DEF Run
<1>2. run' = [run EXCEPT ![r] = new]
  OBVIOUS
<1> HIDE DEF new
<1>3. Routine(run[r], new)
  BY <1>1 DEF Routine, Keeps, Reviewing, Done, Passed, Beginning
<1>4. QED
  BY <1>2, <1>3 DEF RoutineStep

LEMMA LeaveIsRoutine ==
    ASSUME RunsFit, NEW r \in Runs, NEW s \in {"failed", "cancelled"}, NEW e \in Errors,
           run[r].pc \notin {"idle", "over"},
           run' = [run EXCEPT ![r] = Leave(@, s, e)]
    PROVE  RoutineStep(r)
<1> DEFINE new == Leave(run[r], s, e)
<1>1. s \in Results
  BY DEF Results
<1>2. /\ new.pc \in {"stop", "over"} /\ new.status = s /\ Keeps(run[r], new)
      /\ run[r].tries \in 0 .. 2
  BY <1>1, FitRun, LeaveFields DEF Run
<1>3. run' = [run EXCEPT ![r] = new]
  OBVIOUS
<1> HIDE DEF new
<1>4. Routine(run[r], new)
  BY <1>2 DEF Routine, Keeps, Reviewing, Done, Passed, Beginning
<1>5. QED
  BY <1>3, <1>4 DEF RoutineStep

LEMMA MoveIsRoutine ==
    ASSUME RunsFit, NEW r \in Runs, NEW p \in RunnerPC \ {"idle"},
           run[r].pc \notin {"idle", "over"},
           p \in Beginning => run[r].pc \in Beginning,
           p \in {"stop", "check"} => run[r].pc \in {"stop", "check"},
           p = "over" => run[r].status # "succeeded",
           run' = [run EXCEPT ![r].pc = p]
    PROVE  RoutineStep(r)
<1> DEFINE new == [run[r] EXCEPT !.pc = p]
<1>1. /\ new.pc = p /\ new.status = run[r].status /\ new.changed = run[r].changed
      /\ Keeps(run[r], new) /\ run[r].tries \in 0 .. 2
  BY FitRun, PcFields DEF Run
<1>2. run' = [run EXCEPT ![r] = new]
  OBVIOUS
<1> HIDE DEF new
<1>3. Routine(run[r], new)
  BY <1>1 DEF Routine, Keeps, Reviewing, Done, Passed, Beginning
<1>4. QED
  BY <1>2, <1>3 DEF RoutineStep

LEMMA StayIsRoutine ==
    ASSUME RunsFit, NEW r \in Runs, run' = run
    PROVE  RoutineStep(r)
<1>1. run' = [run EXCEPT ![r] = run[r]] /\ run[r].tries \in 0 .. 2
  BY FitRun DEF Run
<1>2. Routine(run[r], run[r])
  BY <1>1 DEF Routine
<1>3. QED
  BY <1>1, <1>2 DEF RoutineStep

LEMMA CancelIsRoutine ==
    ASSUME RunsFit, NEW r \in Runs, Cancel(r)
    PROVE  RoutineStep(r)
<1> DEFINE a == IF run[r].pc \in Open THEN "early" ELSE "late"
           new == [run[r] EXCEPT !.asked = a]
<1>1. run' = [run EXCEPT ![r] = new]
  BY DEF Cancel
<1> HIDE DEF a
<1>2. /\ new.pc = run[r].pc /\ new.status = run[r].status /\ new.changed = run[r].changed
      /\ new.job = run[r].job /\ new.head = run[r].head /\ new.dirty = run[r].dirty
      /\ new.tries = run[r].tries /\ run[r].tries \in 0 .. 2
  BY FitRun DEF Run
<1> HIDE DEF new
<1>3. Routine(run[r], new)
  BY <1>2 DEF Routine, Reviewing, Done, Passed
<1>4. QED
  BY <1>1, <1>3 DEF RoutineStep

LEMMA SpawnIsRoutine ==
    ASSUME RunsFit, NEW r \in Runs, Spawn(r)
    PROVE  RoutineStep(r)
<1>1. run[r].pc = "spawn" /\ run[r] \in Run
  BY FitRun DEF Spawn
<1>2. CASE run' = [run EXCEPT ![r].pc = "feed", ![r].tries = @ + 1]
  <2> DEFINE n == run[r].tries + 1
             e1 == [run[r] EXCEPT !.pc = "feed"]
             new == [e1 EXCEPT !.tries = n]
  <2>1. e1 \in Run /\ e1.pc = "feed" /\ Keeps(run[r], e1)
    BY <1>1, PcFields DEF RunnerPC
  <2>2. run' = [run EXCEPT ![r] = new]
    BY <1>2
  <2>3. run[r].tries <= n
    BY <1>1 DEF Run
  <2> HIDE DEF e1, n
  <2>4. /\ new.pc = "feed" /\ new.tries = n /\ new.job = e1.job /\ new.head = e1.head
        /\ new.dirty = e1.dirty
    BY <2>1 DEF Run
  <2> HIDE DEF new
  <2>5. Routine(run[r], new)
    BY <1>1, <2>1, <2>3, <2>4 DEF Routine, Keeps, Reviewing, Done, Passed, Beginning
  <2>6. QED
    BY <2>2, <2>5 DEF RoutineStep
<1>3. CASE run' = [run EXCEPT ![r] = Leave(@, "failed", "spawn")]
  BY <1>1, <1>3, LeaveIsRoutine DEF Errors
<1>4. QED
  BY <1>2, <1>3 DEF Spawn

\* The answer of a review only moves it on.
LEMMA AnswerIsRoutine ==
    ASSUME RunsFit, NEW r \in Runs, WaitAnswered(r)
    PROVE  RoutineStep(r)
<1> DEFINE says == Current(r).says
           chats == Chats(r)
           role == run[r].job.role
<1>1. /\ run[r].pc = "wait" /\ run[r] \in Run /\ role \in Roles
      /\ run' = [run EXCEPT ![r] = Answer(@, says, chats)]
  BY FitRun, RunnersAssumption DEF WaitAnswered, Run, Job
<1>2. {"none", "log", "answer"} \subseteq Errors /\ {"none", "chat", "agent"} \subseteq Verdicts
      /\ {"succeeded", "failed"} \subseteq Results
  BY DEF Errors, Verdicts, Results
<1>3. CASE role = "pl"
  <2>1. run' = [run EXCEPT ![r] = Ended(@, "failed", "log", "none")]
    BY <1>1, <1>3 DEF Answer, PlannerEnds
  <2>2. QED
    BY <1>2, <2>1, EndIsRoutine
<1>4. CASE role \in {"hl", "fr"} /\ chats
  <2>1. run' = [run EXCEPT ![r] = Ended(@, "succeeded", "none", "chat")]
    BY <1>1, <1>4 DEF Answer
  <2>2. QED
    BY <1>2, <1>4, <2>1, EndIsRoutine
<1>5. CASE role = "hl" /\ ~chats
  <2>1. \/ run' = [run EXCEPT ![r] = Ended(@, "succeeded", "none", "agent")]
        \/ run' = [run EXCEPT ![r] = Ended(@, "failed", "answer", "none")]
    <3>1. CASE says = "result"
      BY <1>1, <1>5, <3>1 DEF Answer
    <3>2. CASE says # "result"
      BY <1>1, <1>5, <3>2 DEF Answer
    <3>3. QED
      BY <3>1, <3>2
  <2>2. QED
    BY <1>2, <1>5, <2>1, EndIsRoutine
<1>6. CASE role = "fi" \/ (role = "fr" /\ ~chats)
  <2>1. run' = [run EXCEPT ![r] = [@ EXCEPT !.pc = "git"]]
    BY <1>1, <1>6 DEF Answer
  <2>2. run' = [run EXCEPT ![r].pc = "git"]
    BY <2>1
  <2>3. QED
    BY <1>1, <2>2, MoveIsRoutine DEF RunnerPC, Beginning
<1>7. QED
  BY <1>1, <1>3, <1>4, <1>5, <1>6 DEF Roles


TakesBaseline(r) ==
    /\ run[r].pc = "baseline"
    /\ run' = [run EXCEPT ![r] = Based(@, tree[@.job.task].head, Status(@.job.task))]
    /\ UNCHANGED tree

ComparesTree(r) ==
    /\ run[r].pc = "git" /\ run[r].job.role = "fi"
    /\ run' = [run EXCEPT ![r] = Compared(@, Violated(r))]
    /\ UNCHANGED tree

ResetsTree(r) ==
    /\ run[r].pc = "check" /\ run[r].changed
    /\ tree' = Reset(r)
    /\ run' = [run EXCEPT ![r] = Ended(@, "succeeded", "none", "tampered")]

TraceStep(r) ==
    \/ RoutineStep(r) /\ UNCHANGED tree
    \/ \E job \in Jobs : Start(r, job)
    \/ TakesBaseline(r) \/ ComparesTree(r) \/ ResetsTree(r)
    \/ \E n \in Attempts, p \in Paths : AgentEdits(r, n, p)
    \/ \E n \in Attempts : AgentCommits(r, n)

LEMMA StepsOfRuns ==
    ASSUME RunsFit, Next
    PROVE  \E r \in Runs : TraceStep(r)
<1>1. PICK r \in Runs : \/ \E job \in Jobs : Start(r, job)
                        \/ Cancel(r)
                        \/ RunnerStep(r) \/ WaitRaises(r)
                        \/ ServerEnds(r)
                        \/ \E n \in Attempts : AgentStep(r, n)
  BY DEF Next
<1> SUFFICES TraceStep(r)
  OBVIOUS
<1> USE DEF TraceStep
<1>a. /\ {"none", "worktree", "server", "baseline", "spawn", "reader", "log",
          "cancelled", "answer", "git", "reset"} \subseteq Errors
      /\ {"none", "chat", "unknown", "agent", "tampered"} \subseteq Verdicts
      /\ {"succeeded", "failed", "cancelled"} \subseteq Results
      /\ {"spawn", "ready", "baseline", "probe", "wait", "check", "over"}
            \subseteq RunnerPC \ {"idle"}
  BY DEF Errors, Verdicts, Results, RunnerPC
<1>2. CASE CreateWorktree(r)
  <2>1. CASE run' = [run EXCEPT ![r].pc = "spawn"]
    BY <1>2, <1>a, <2>1, MoveIsRoutine DEF CreateWorktree, Beginning
  <2>2. CASE run' = [run EXCEPT ![r] = Ended(@, "failed", "worktree", "none")]
    BY <1>2, <1>a, <2>2, EndIsRoutine DEF CreateWorktree
  <2>3. QED
    BY <1>2, <2>1, <2>2 DEF CreateWorktree
<1>3. CASE ServerSpawn(r)
  <2>1. CASE run' = [run EXCEPT ![r].pc = "ready"]
    BY <1>3, <1>a, <2>1, MoveIsRoutine DEF ServerSpawn, Beginning
  <2>2. CASE run' = [run EXCEPT ![r] = Ended(@, "failed", "server", "none")]
    BY <1>3, <1>a, <2>2, EndIsRoutine DEF ServerSpawn
  <2>3. QED
    BY <1>3, <2>1, <2>2 DEF ServerSpawn
<1>4. CASE ServerReady(r)
  BY <1>4, <1>a, MoveIsRoutine DEF ServerReady, Beginning
<1>5. CASE ServerFails(r)
  BY <1>5, <1>a, EndIsRoutine DEF ServerFails
<1>6. CASE ServerEnds(r)
  BY <1>6, StayIsRoutine DEF ServerEnds
<1>7. CASE StopServer(r)
  <2> DEFINE p == IF run[r].status = "none" THEN "check" ELSE "over"
  <2>1. p \in RunnerPC \ {"idle"} /\ p \notin Beginning
    BY <1>a DEF Beginning
  <2>2. run' = [run EXCEPT ![r].pc = p] /\ run[r].pc = "stop" /\ UNCHANGED tree
    BY <1>7 DEF StopServer
  <2>3. run[r].status # "succeeded"
    BY <2>2, FitRun DEF Fits, ResultOK
  <2> HIDE DEF p
  <2>4. QED
    BY <2>1, <2>2, <2>3, MoveIsRoutine
<1>8. CASE Baseline(r)
  <2>1. CASE run' = [run EXCEPT ![r] = Ended(@, "failed", "baseline", "none")]
    BY <1>8, <1>a, <2>1, EndIsRoutine DEF Baseline
  <2>2. CASE run' = [run EXCEPT ![r].pc = "spawn", ![r].head = tree[run[r].job.task].head,
                                ![r].dirty = Status(run[r].job.task)]
    BY <1>8, <2>2 DEF Baseline, TakesBaseline, Based
  <2>3. QED
    BY <1>8, <2>1, <2>2 DEF Baseline
<1>9. CASE Spawn(r)
  BY <1>9, SpawnIsRoutine DEF Spawn
<1>10. CASE Feed(r)
  <2>1. CASE run' = [run EXCEPT ![r] = Leave(@, "failed", "spawn")]
    BY <1>10, <1>a, <2>1, LeaveIsRoutine DEF Feed
  <2>2. CASE run' = [run EXCEPT ![r].pc = IF Resumed(r) THEN "probe" ELSE "wait"]
    <3> DEFINE p == IF Resumed(r) THEN "probe" ELSE "wait"
    <3>1. p \in RunnerPC \ {"idle"} /\ p \in {"probe", "wait"} /\ run' = [run EXCEPT ![r].pc = p]
      BY <1>a, <2>2
    <3> HIDE DEF p
    <3>2. QED
      BY <1>10, <3>1, MoveIsRoutine DEF Feed, Beginning
  <2>3. QED
    BY <1>10, <2>1, <2>2 DEF Feed
<1>11. CASE Probe(r)
  <2> DEFINE p == IF run[r].asked = "no" /\ FallsBack(r) THEN "spawn" ELSE "wait"
  <2>1. p \in RunnerPC \ {"idle"} /\ p \in {"spawn", "wait"}
    BY <1>a
  <2>2. run' = [run EXCEPT ![r].pc = p]
    <3>1. CASE run[r].asked # "no"
      BY <1>11, <3>1 DEF Probe
    <3>2. CASE run[r].asked = "no"
      BY <1>11, <3>2 DEF Probe
    <3>3. QED
      BY <3>1, <3>2
  <2> HIDE DEF p
  <2>3. QED
    BY <1>11, <2>1, <2>2, MoveIsRoutine DEF Probe, Beginning
<1>12. CASE WaitCancelled(r) \/ WaitRaises(r)
  BY <1>12, <1>a, LeaveIsRoutine DEF WaitCancelled, WaitRaises
<1>13. CASE WaitAnswered(r)
  BY <1>13, AnswerIsRoutine DEF WaitAnswered
<1>14. CASE RealizerGit(r)
  <2>1. \/ run' = [run EXCEPT ![r] = Ended(@, "failed", "answer", "none")]
        \/ run' = [run EXCEPT ![r] = Ended(@, "succeeded", "none", "agent")]
        \/ run' = [run EXCEPT ![r] = Ended(@, "failed", "git", "none")]
    <3>1. CASE Current(r).says = "blocked" \/ Current(r).proc = "error"
      BY <1>14, <3>1 DEF RealizerGit
    <3>2. CASE ~(Current(r).says = "blocked" \/ Current(r).proc = "error")
      BY <1>14, <3>2 DEF RealizerGit
    <3>3. QED
      BY <3>1, <3>2
  <2>2. QED
    BY <1>14, <1>a, <2>1, EndIsRoutine DEF RealizerGit
<1>15. CASE InterpreterGit(r)
  <2>1. CASE run' = [run EXCEPT ![r] = Leave(@, "failed", "git")]
    BY <1>15, <1>a, <2>1, LeaveIsRoutine DEF InterpreterGit
  <2>2. CASE run' = [run EXCEPT ![r].pc = "stop", ![r].changed = Violated(r)]
    BY <1>15, <2>2 DEF InterpreterGit, ComparesTree, Compared
  <2>3. QED
    BY <1>15, <2>1, <2>2 DEF InterpreterGit
<1>16. CASE Check(r)
  <2>0. run[r].pc = "check" /\ Fits(run[r], agent[r], server[r])
    BY <1>16, FitRun DEF Check
  <2>1. CASE run' = [run EXCEPT ![r] = Ended(@, "failed", "reset", "none")] /\ UNCHANGED tree
    BY <1>a, <2>1, EndIsRoutine
  <2>2. CASE /\ ~run[r].changed /\ UNCHANGED tree
             /\ run' = [run EXCEPT ![r] =
                          Ended(@, "succeeded", "none",
                              IF Chats(r) THEN "chat"
                              ELSE IF Current(r).says = "text" THEN "unknown" ELSE "agent")]
    <3> DEFINE v == IF Chats(r) THEN "chat"
                    ELSE IF Current(r).says = "text" THEN "unknown" ELSE "agent"
    <3>1. v \in Verdicts
      BY <1>a
    <3>2. Passed(run[r])
      BY <2>0, <2>2 DEF Passed, Fits, ResultOK, PlaceOK
    <3>3. run' = [run EXCEPT ![r] = Ended(@, "succeeded", "none", v)]
      BY <2>2
    <3> HIDE DEF v
    <3>4. RoutineStep(r)
      BY <1>a, <3>1, <3>2, <3>3, EndIsRoutine
    <3>5. QED
      BY <2>2, <3>4
  <2>3. CASE ResetsTree(r)
    BY <2>3
  <2>4. QED
    BY <1>16, <2>1, <2>2, <2>3 DEF Check, ResetsTree
<1>17. CASE Cancel(r)
  BY <1>17, CancelIsRoutine DEF Cancel
<1>18. ASSUME NEW n \in Attempts, AgentStep(r, n)
       PROVE  TraceStep(r)
  <2>1. CASE (\E p \in Paths : AgentEdits(r, n, p)) \/ AgentCommits(r, n)
    BY <2>1
  <2>2. CASE \E how \in {"ok", "error"}, says \in Answers : AgentExits(r, n, how, says)
    BY <2>2, StayIsRoutine DEF AgentExits
  <2>3. QED
    BY <1>18, <2>1, <2>2 DEF AgentStep
<1> HIDE DEF TraceStep
<1>19. CASE RunnerStep(r)
  BY <1>19, <1>2, <1>3, <1>4, <1>5, <1>7, <1>8, <1>9, <1>10, <1>11, <1>12, <1>13,
     <1>14, <1>15, <1>16 DEF RunnerStep
<1>20. CASE \E job \in Jobs : Start(r, job)
  BY <1>20 DEF TraceStep
<1>21. QED
  BY <1>1, <1>6, <1>12, <1>17, <1>18, <1>19, <1>20


-----------------------------------------------------------------------------
\* Each of them keeps the invariant.
LEMMA RunsType ==
    ASSUME RunsFit, NEW r \in Runs
    PROVE  /\ run[r].tries \in 0 .. 2 /\ run[r].job.task \in Tasks
           /\ run[r].changed \in BOOLEAN
BY FitRun, RunnersAssumption DEF Run, Job

LEMMA OnlyRun ==
    ASSUME RunsFit, NEW r \in Runs, NEW new, run' = [run EXCEPT ![r] = new]
    PROVE  run'[r] = new /\ \A q \in Runs \ {r} : run'[q] = run[q]
BY DEF RunsFit, Shape

LEMMA TriesGrow ==
    ASSUME NEW n \in Attempts, NEW a \in 0 .. 2, NEW b \in 0 .. 2, n <= a, a <= b
    PROVE  n <= b
BY DEF Attempts

LEMMA RoutineKeeps ==
    ASSUME RunnersInv, RunnersInv', TraceInv, NEW r \in Runs, RoutineStep(r), UNCHANGED tree
    PROVE  TraceInv'
<1>1. \A q \in Runs : run[q].tries \in 0 .. 2 /\ run'[q].tries \in 0 .. 2
  BY RunsType DEF RunnersInv, RunsFit, Fits, Run
<1>2. \A q \in Runs : Routine(run[q], run'[q])
  <2>1. PICK new : run' = [run EXCEPT ![r] = new] /\ Routine(run[r], new)
    BY DEF RoutineStep
  <2>2. ASSUME NEW q \in Runs, q # r
        PROVE  Routine(run[q], run'[q])
    BY <1>1, <2>1, <2>2, OnlyRun DEF RunnersInv, Routine
  <2>3. run'[r] = new
    BY <2>1, OnlyRun DEF RunnersInv
  <2>4. QED
    BY <2>1, <2>2, <2>3
<1>3. OneReview'
  BY <1>2 DEF TraceInv, OneReview, Routine
<1>t. \A q \in Runs, n \in Attempts : n <= run[q].tries => n <= run'[q].tries
  BY <1>1, <1>2, TriesGrow DEF Routine
<1>4. HeadsOwned'
  BY <1>2, <1>t DEF TraceInv, HeadsOwned, Routine
<1>5. BasesOwned'
  <2>1. ASSUME NEW p \in Runs, NEW n \in Attempts, NEW q \in Runs, <<p, n>> \in run'[q].head
        PROVE  run'[q].job.task = run'[p].job.task /\ n <= run'[p].tries
    BY <1>2, <1>t, <2>1 DEF TraceInv, BasesOwned, Routine
  <2>2. ASSUME NEW p \in Runs, NEW n \in Attempts
        PROVE  <<p, n>> \notin run'[p].head
    BY <1>2 DEF TraceInv, BasesOwned, Routine
  <2>3. ASSUME NEW p \in Runs, run'[p].pc \in Beginning
        PROVE  run'[p].head = {}
    BY <1>2, <2>3 DEF TraceInv, BasesOwned, Routine, Beginning
  <2>4. QED
    BY <2>1, <2>2, <2>3 DEF BasesOwned, Beginning
<1>6. BasesClean'
  <2> SUFFICES ASSUME NEW q \in Runs, NEW p \in Runs, Reviewing(run'[q]), Done(run'[p]),
                      NEW n \in Attempts
               PROVE  <<p, n>> \notin run'[q].head
    BY DEF BasesClean
  <2>1. Reviewing(run[q]) /\ run'[q].head = run[q].head
    BY <1>2 DEF Routine
  <2>2. CASE Done(run[p])
    BY <2>1, <2>2 DEF TraceInv, BasesClean
  <2>3. CASE Passed(run[p])
    <3>1. Reviewing(run[p])
      BY <2>3 DEF Passed, Reviewing
    <3>2. p = q
      BY <2>1, <3>1 DEF TraceInv, OneReview
    <3>3. QED
      BY <3>2 DEF Reviewing, Done
  <2>4. QED
    BY <1>2, <2>2, <2>3 DEF Routine
<1>7. TracesGone'
  BY <1>2 DEF TraceInv, TracesGone, Traceless, Routine
<1>8. QED
  BY <1>3, <1>4, <1>5, <1>6, <1>7 DEF TraceInv

\* A review starts only when no other is under way.
LEMMA StartKeeps ==
    ASSUME RunnersInv, RunnersInv', TraceInv, NEW r \in Runs, NEW job \in Jobs, Start(r, job)
    PROVE  TraceInv'
<1> DEFINE p == CASE job.role = "fr" -> "tree"
                  [] job.role = "fi" /\ HasServer -> "serve"
                  [] job.role = "fi" /\ ~HasServer -> "baseline"
                  [] OTHER -> "spawn"
           new == Begun(run[r], job, p)
<1>1. /\ run[r].pc = "idle" /\ UNCHANGED tree
      /\ run' = [run EXCEPT ![r].job = job, ![r].pc = p]
      /\ job.role = "fi" => \A q \in Runs : ~Reviewing(run[q])
  BY DEF Start, Underway, Reviewing
<1>2. run' = [run EXCEPT ![r] = new]
  BY <1>1 DEF Begun
<1>3. p \in RunnerPC /\ p \notin {"idle", "over", "stop", "check"}
  <2>1. CASE job.role = "fr"
    BY <2>1 DEF RunnerPC
  <2>2. CASE job.role = "fi" /\ HasServer
    BY <2>2 DEF RunnerPC
  <2>3. CASE job.role = "fi" /\ ~HasServer
    BY <2>3 DEF RunnerPC
  <2>4. CASE job.role \notin {"fr", "fi"}
    BY <2>4 DEF RunnerPC
  <2>5. QED
    BY <2>1, <2>2, <2>3, <2>4
<1> HIDE DEF p
<1>4. new.pc = p /\ new.job = job /\ new.tries = run[r].tries /\ new.head = run[r].head
  BY <1>3, FitRun, BegunFields DEF RunnersInv
<1>5. run'[r] = new /\ \A q \in Runs \ {r} : run'[q] = run[q]
  BY <1>2, OnlyRun DEF RunnersInv
<1> HIDE DEF new
<1>6. run[r].tries = 0 /\ run[r].head = {}
  BY <1>1, FitRun DEF RunnersInv, Fits, PlaceOK, TraceInv, BasesOwned
<1>7. \A n \in Attempts : ~(n <= 0)
  BY DEF Attempts
\* None of its agents has left anything yet.
<1>8. /\ \A n \in Attempts, t \in Tasks : <<r, n>> \notin tree[t].head
      /\ \A n \in Attempts, q \in Runs : <<r, n>> \notin run[q].head
  BY <1>6, <1>7 DEF TraceInv, HeadsOwned, BasesOwned
<1>9. OneReview'
  <2> SUFFICES ASSUME NEW q \in Runs, NEW s \in Runs,
                      Reviewing(run'[q]), Reviewing(run'[s]), q # s
               PROVE  FALSE
    BY DEF OneReview
  <2>1. CASE q = r
    <3>1. job.role = "fi" /\ Reviewing(run[s])
      BY <1>4, <1>5, <2>1 DEF Reviewing
    <3>2. QED
      BY <1>1, <3>1
  <2>2. CASE s = r
    <3>1. job.role = "fi" /\ Reviewing(run[q])
      BY <1>4, <1>5, <2>2 DEF Reviewing
    <3>2. QED
      BY <1>1, <3>1
  <2>3. CASE q # r /\ s # r
    BY <1>5, <2>3 DEF TraceInv, OneReview
  <2>4. QED
    BY <2>1, <2>2, <2>3
<1>10. HeadsOwned'
  <2> SUFFICES ASSUME NEW q \in Runs, NEW n \in Attempts, NEW t \in Tasks,
                      <<q, n>> \in tree[t].head
               PROVE  t = run'[q].job.task /\ n <= run'[q].tries
    BY <1>1 DEF HeadsOwned
  <2>1. q # r
    BY <1>8
  <2>2. QED
    BY <1>5, <2>1 DEF TraceInv, HeadsOwned
<1>11. BasesOwned'
  <2>1. ASSUME NEW q \in Runs, NEW n \in Attempts, NEW s \in Runs, <<q, n>> \in run'[s].head
        PROVE  run'[s].job.task = run'[q].job.task /\ n <= run'[q].tries
    <3>1. s # r /\ q # r
      BY <1>4, <1>5, <1>6, <1>8, <2>1
    <3>2. QED
      BY <1>5, <2>1, <3>1 DEF TraceInv, BasesOwned
  <2>2. \A q \in Runs : run'[q].head = run[q].head
    BY <1>4, <1>5
  <2>3. \A q \in Runs : run'[q].pc \in {"idle", "tree", "serve", "ready", "baseline"}
          => run'[q].head = {}
    BY <1>4, <1>5, <1>6 DEF TraceInv, BasesOwned
  <2>4. QED
    BY <2>1, <2>2, <2>3 DEF TraceInv, BasesOwned
<1>12. BasesClean'
  <2> SUFFICES ASSUME NEW q \in Runs, NEW s \in Runs, Reviewing(run'[q]), Done(run'[s]),
                      NEW n \in Attempts
               PROVE  <<s, n>> \notin run'[q].head
    BY DEF BasesClean
  <2>1. s # r
    BY <1>3, <1>4, <1>5 DEF Done
  <2>2. CASE q = r
    BY <1>4, <1>5, <1>6, <2>2
  <2>3. CASE q # r
    BY <1>5, <2>1, <2>3 DEF TraceInv, BasesClean
  <2>4. QED
    BY <2>2, <2>3
<1>13. TracesGone'
  <2> SUFFICES ASSUME NEW s \in Runs, Done(run'[s]) \/ Passed(run'[s])
               PROVE  Traceless(s)'
    BY DEF TracesGone
  <2>1. s # r
    BY <1>3, <1>4, <1>5 DEF Done, Passed
  <2>2. QED
    BY <1>1, <1>5, <2>1 DEF TraceInv, TracesGone, Traceless
<1>14. QED
  BY <1>9, <1>10, <1>11, <1>12, <1>13 DEF TraceInv


\* A baseline holds no commit of the review that takes it, nor of one that is done.
LEMMA BaselineKeeps ==
    ASSUME RunnersInv, RunnersInv', TraceInv, NEW r \in Runs, TakesBaseline(r)
    PROVE  TraceInv'
<1> DEFINE t == run[r].job.task
           h == tree[t].head
           d == Status(t)
           new == Based(run[r], h, d)
<1>1. /\ run[r].pc = "baseline" /\ UNCHANGED tree /\ run' = [run EXCEPT ![r] = new]
  BY DEF TakesBaseline
<1>2. t \in Tasks /\ tree[t] \in Tree
  BY TaskOf DEF RunnersInv, TreesOK
<1>3. h \in SUBSET Agents /\ d \in SUBSET Paths
  BY <1>2, StatusType DEF Tree
<1> HIDE DEF d
<1>4. /\ new.pc = "spawn" /\ new.job = run[r].job /\ new.head = h
      /\ new.tries = run[r].tries /\ new.status = run[r].status
      /\ run[r].job.role = "fi" /\ run[r].tries = 0
  BY <1>1, <1>3, FitRun, BaselineFields DEF RunnersInv, Fits, PlaceOK, BasedAt
<1>5. run'[r] = new /\ \A q \in Runs \ {r} : run'[q] = run[q]
  BY <1>1, OnlyRun DEF RunnersInv
<1> HIDE DEF new
<1>6. \A q \in Runs : /\ Reviewing(run'[q]) <=> Reviewing(run[q])
                      /\ Done(run'[q]) <=> Done(run[q])
                      /\ Passed(run'[q]) => Passed(run[q]) /\ q # r
                      /\ run'[q].job = run[q].job /\ run'[q].tries = run[q].tries
  BY <1>1, <1>4, <1>5 DEF Reviewing, Done, Passed
<1>7. OneReview'
  BY <1>6 DEF TraceInv, OneReview
<1>8. HeadsOwned'
  BY <1>1, <1>6 DEF TraceInv, HeadsOwned
<1>9. BasesOwned'
  <2>1. ASSUME NEW q \in Runs, NEW n \in Attempts, NEW s \in Runs, <<q, n>> \in run'[s].head
        PROVE  run'[s].job.task = run'[q].job.task /\ n <= run'[q].tries
    <3>1. CASE s = r
      BY <1>2, <1>4, <1>5, <1>6, <2>1, <3>1 DEF TraceInv, HeadsOwned
    <3>2. CASE s # r
      BY <1>5, <1>6, <2>1, <3>2 DEF TraceInv, BasesOwned
    <3>3. QED
      BY <3>1, <3>2
  <2>2. ASSUME NEW q \in Runs, NEW n \in Attempts
        PROVE  <<q, n>> \notin run'[q].head
    <3>1. CASE q = r
      <4>1. ~(n <= 0)
        BY DEF Attempts
      <4>2. <<r, n>> \notin h
        BY <1>2, <1>4, <4>1 DEF TraceInv, HeadsOwned
      <4>3. QED
        BY <1>4, <1>5, <3>1, <4>2
    <3>2. CASE q # r
      BY <1>5, <3>2 DEF TraceInv, BasesOwned
    <3>3. QED
      BY <3>1, <3>2
  <2>3. ASSUME NEW q \in Runs, run'[q].pc \in {"idle", "tree", "serve", "ready", "baseline"}
        PROVE  run'[q].head = {}
    BY <1>4, <1>5, <2>3 DEF TraceInv, BasesOwned
  <2>4. QED
    BY <2>1, <2>2, <2>3 DEF BasesOwned
<1>10. BasesClean'
  <2> SUFFICES ASSUME NEW q \in Runs, NEW s \in Runs, Reviewing(run[q]), Done(run[s]),
                      NEW n \in Attempts
               PROVE  <<s, n>> \notin run'[q].head
    BY <1>6 DEF BasesClean
  <2>1. CASE q = r
    <3>1. run[s].job.task = t => <<s, n>> \notin h
      BY DEF TraceInv, TracesGone, Traceless
    <3>2. run[s].job.task # t => <<s, n>> \notin h
      BY <1>2 DEF TraceInv, HeadsOwned
    <3>3. QED
      BY <1>4, <1>5, <2>1, <3>1, <3>2
  <2>2. CASE q # r
    BY <1>5, <2>2 DEF TraceInv, BasesClean
  <2>3. QED
    BY <2>1, <2>2
<1>11. TracesGone'
  <2> SUFFICES ASSUME NEW s \in Runs, Done(run'[s]) \/ Passed(run'[s])
               PROVE  Traceless(s)'
    BY DEF TracesGone
  <2>1. s # r
    BY <1>1, <1>6 DEF Done
  <2>2. QED
    BY <1>1, <1>5, <2>1 DEF TraceInv, TracesGone, Traceless
<1>12. QED
  BY <1>7, <1>8, <1>9, <1>10, <1>11 DEF TraceInv

\* A review that finds its baseline again is traceless.
LEMMA ComparisonKeeps ==
    ASSUME RunnersInv, RunnersInv', TraceInv, NEW r \in Runs, ComparesTree(r)
    PROVE  TraceInv'
<1> DEFINE c == Violated(r)
           t == run[r].job.task
           new == Compared(run[r], c)
<1>1. /\ run[r].pc = "git" /\ run[r].job.role = "fi" /\ UNCHANGED tree
      /\ run' = [run EXCEPT ![r] = new] /\ c \in BOOLEAN
  BY DEF ComparesTree, Violated
<1> HIDE DEF c
<1>2. /\ new.pc = "stop" /\ new.changed = c /\ Keeps(run[r], new)
      /\ new.status = run[r].status
  BY <1>1, FitRun, ComparedFields DEF RunnersInv
<1>3. run'[r] = new /\ \A q \in Runs \ {r} : run'[q] = run[q]
  BY <1>1, OnlyRun DEF RunnersInv
<1> HIDE DEF new
<1>4. \A q \in Runs : /\ Reviewing(run'[q]) <=> Reviewing(run[q])
                      /\ Done(run'[q]) <=> Done(run[q])
                      /\ run'[q].job = run[q].job /\ run'[q].tries = run[q].tries
                      /\ run'[q].head = run[q].head /\ run'[q].dirty = run[q].dirty
                      /\ run'[q].pc \in Beginning => run[q].pc \in Beginning
  BY <1>1, <1>2, <1>3 DEF Reviewing, Done, Keeps, Beginning
<1>5. OneReview' /\ HeadsOwned' /\ BasesClean'
  BY <1>1, <1>4 DEF TraceInv, OneReview, HeadsOwned, BasesClean
<1>6. BasesOwned'
  BY <1>4 DEF TraceInv, BasesOwned, Beginning
<1>7. ASSUME ~c
      PROVE  Traceless(r)
  <2>1. tree[t].head = run[r].head /\ Status(t) = run[r].dirty
    BY <1>7 DEF c, Violated
  <2>2. ASSUME NEW n \in Attempts, NEW p \in Paths \ (Artifacts \cup run[r].dirty)
        PROVE  <<<<r, n>>, p>> \notin tree[t].edits
    <3>1. <<r, n>> \in Agents /\ p \notin Status(t) /\ p \in Paths /\ p \notin Artifacts
      BY <2>1 DEF Agents
    <3>2. QED
      BY <3>1 DEF Status
  <2>3. \A n \in Attempts : <<r, n>> \notin tree[t].head
    BY <2>1 DEF TraceInv, BasesOwned
  <2>4. QED
    BY <2>2, <2>3 DEF Traceless
<1>8. TracesGone'
  <2> SUFFICES ASSUME NEW s \in Runs, Done(run'[s]) \/ Passed(run'[s])
               PROVE  Traceless(s)'
    BY DEF TracesGone
  <2>1. CASE s = r
    <3>1. Traceless(r)
      BY <1>2, <1>3, <1>7, <2>1 DEF Done, Passed
    <3>2. QED
      BY <1>1, <1>4, <2>1, <3>1 DEF Traceless
  <2>2. CASE s # r
    BY <1>1, <1>3, <2>2 DEF TraceInv, TracesGone, Traceless
  <2>3. QED
    BY <2>1, <2>2
<1>9. QED
  BY <1>5, <1>6, <1>8 DEF TraceInv


\* A reset takes the worktree back to commits that are nobody's who is done.
LEMMA ResetKeeps ==
    ASSUME RunnersInv, RunnersInv', TraceInv, NEW r \in Runs, ResetsTree(r)
    PROVE  TraceInv'
<1> DEFINE t == run[r].job.task
           new == Ended(run[r], "succeeded", "none", "tampered")
<1>1. /\ run[r].pc = "check" /\ run[r].changed /\ run' = [run EXCEPT ![r] = new]
      /\ tree' = [tree EXCEPT ![t] = [head |-> run[r].head, edits |-> {}]]
      /\ run[r].job.role = "fi"
  BY FitRun DEF ResetsTree, Reset, RunnersInv, Fits, PlaceOK
<1>2. t \in Tasks /\ tree \in [Tasks -> Tree]
  BY TaskOf DEF RunnersInv, TreesOK
<1>3. /\ tree'[t].head = run[r].head /\ tree'[t].edits = {}
      /\ \A u \in Tasks \ {t} : tree'[u] = tree[u]
  BY <1>1, <1>2
<1>4. new.pc = "over" /\ new.status = "succeeded" /\ Keeps(run[r], new)
  BY FitRun, EndedFields DEF RunnersInv, Results, Errors, Verdicts
<1>5. run'[r] = new /\ \A q \in Runs \ {r} : run'[q] = run[q]
  BY <1>1, OnlyRun DEF RunnersInv
<1> HIDE DEF new
<1>6. \A q \in Runs : /\ Reviewing(run'[q]) => Reviewing(run[q]) /\ q # r
                      /\ Done(run'[q]) => Done(run[q]) \/ q = r
                      /\ Passed(run'[q]) => Passed(run[q]) /\ q # r
                      /\ run'[q].job = run[q].job /\ run'[q].tries = run[q].tries
                      /\ run'[q].head = run[q].head /\ run'[q].dirty = run[q].dirty
                      /\ run'[q].pc \in Beginning => run[q].pc \in Beginning
  BY <1>1, <1>4, <1>5 DEF Reviewing, Done, Passed, Keeps, Beginning
<1>7. Reviewing(run[r]) /\ \A q \in Runs : Reviewing(run[q]) => q = r
  BY <1>1 DEF Reviewing, TraceInv, OneReview
<1>8. OneReview'
  BY <1>6, <1>7 DEF OneReview
<1>9. HeadsOwned'
  <2> SUFFICES ASSUME NEW q \in Runs, NEW n \in Attempts, NEW u \in Tasks,
                      <<q, n>> \in tree'[u].head
               PROVE  u = run[q].job.task /\ n <= run[q].tries
    BY <1>6 DEF HeadsOwned
  <2>1. CASE u = t
    BY <1>3, <2>1 DEF TraceInv, BasesOwned
  <2>2. CASE u # t
    BY <1>3, <2>2 DEF TraceInv, HeadsOwned
  <2>3. QED
    BY <2>1, <2>2
<1>10. BasesOwned'
  BY <1>6 DEF TraceInv, BasesOwned, Beginning
<1>11. BasesClean'
  BY <1>6, <1>7 DEF BasesClean
<1>12. TracesGone'
  <2> SUFFICES ASSUME NEW s \in Runs, Done(run'[s]) \/ Passed(run'[s])
               PROVE  Traceless(s)'
    BY DEF TracesGone
  <2> DEFINE u == run[s].job.task
  <2>1. u \in Tasks /\ run'[s].job.task = u
    BY <1>6, TaskOf DEF RunnersInv
  <2>2. CASE u # t
    <3>1. Done(run[s]) \/ Passed(run[s])
      BY <1>6, <2>2
    <3>2. Traceless(s) /\ tree'[u] = tree[u]
      BY <1>3, <2>1, <2>2, <3>1 DEF TraceInv, TracesGone
    <3>3. QED
      BY <1>6, <2>1, <3>2 DEF Traceless
  <2>3. CASE u = t
    <3>1. ~Passed(run'[s])
      BY <1>6, <1>7 DEF Passed, Reviewing
    <3>2. \A n \in Attempts : <<s, n>> \notin run[r].head
      <4>1. CASE s = r
        BY <4>1 DEF TraceInv, BasesOwned
      <4>2. CASE s # r
        BY <1>6, <1>7, <3>1, <4>2 DEF TraceInv, BasesClean
      <4>3. QED
        BY <4>1, <4>2
    <3>3. QED
      BY <1>3, <2>1, <2>3, <3>2 DEF Traceless
  <2>4. QED
    BY <2>2, <2>3
<1>13. QED
  BY <1>8, <1>9, <1>10, <1>11, <1>12 DEF TraceInv

\* An agent at work belongs to a review that has not yet been compared, if to one.
LEMMA WorkerOpen ==
    ASSUME RunsFit, NEW r \in Runs, NEW n \in Attempts, Works(r, n)
    PROVE  n = run[r].tries /\ ~Done(run[r]) /\ ~Passed(run[r])
BY FitRun DEF Works, Fits, AgentsOK, ResultOK, Done, Passed

LEMMA EditKeeps ==
    ASSUME RunnersInv, TraceInv, NEW r \in Runs, NEW n \in Attempts, NEW p \in Paths,
           AgentEdits(r, n, p)
    PROVE  TraceInv'
<1> DEFINE t == run[r].job.task
<1>1. run' = run /\ ~Done(run[r]) /\ ~Passed(run[r])
  BY WorkerOpen DEF AgentEdits, RunnersInv
<1>2. t \in Tasks /\ tree \in [Tasks -> Tree]
  BY TaskOf DEF RunnersInv, TreesOK
<1>3. tree' = [tree EXCEPT ![t].edits = @ \cup {<<<<r, n>>, p>>}]
  BY DEF AgentEdits
<1>4. \A u \in Tasks : /\ tree'[u].head = tree[u].head
                       /\ tree'[u].edits \subseteq tree[u].edits \cup {<<<<r, n>>, p>>}
  BY <1>2, <1>3 DEF Tree
<1>5. OneReview' /\ HeadsOwned' /\ BasesOwned' /\ BasesClean'
  BY <1>1, <1>4 DEF TraceInv, OneReview, HeadsOwned, BasesOwned, BasesClean
<1>6. TracesGone'
  <2> SUFFICES ASSUME NEW s \in Runs, Done(run[s]) \/ Passed(run[s])
               PROVE  Traceless(s)'
    BY <1>1 DEF TracesGone
  <2>1. Traceless(s) /\ s # r /\ run[s].job.task \in Tasks
    BY <1>1, TaskOf DEF TraceInv, TracesGone, RunnersInv
  <2>2. QED
    BY <1>1, <1>4, <2>1 DEF Traceless
<1>7. QED
  BY <1>5, <1>6 DEF TraceInv

LEMMA CommitKeeps ==
    ASSUME RunnersInv, TraceInv, NEW r \in Runs, NEW n \in Attempts, AgentCommits(r, n)
    PROVE  TraceInv'
<1> DEFINE t == run[r].job.task
           h == tree[t].head \cup {<<r, n>>}
           e == {x \in tree[t].edits : x[2] \in Artifacts}
<1>1. run' = run /\ ~Done(run[r]) /\ ~Passed(run[r]) /\ n = run[r].tries
      /\ run[r].tries \in 0 .. 2
  BY WorkerOpen, RunsType DEF AgentCommits, RunnersInv
<1>2. t \in Tasks /\ tree \in [Tasks -> Tree]
  BY TaskOf DEF RunnersInv, TreesOK
<1>3. tree' = [tree EXCEPT ![t] = [head |-> h, edits |-> e]]
  BY DEF AgentCommits
<1>4. h = tree[t].head \cup {<<r, n>>} /\ e \subseteq tree[t].edits
  OBVIOUS
<1> HIDE DEF h, e
<1>5. /\ \A u \in Tasks : tree'[u].edits \subseteq tree[u].edits
      /\ \A u \in Tasks \ {t} : tree'[u].head = tree[u].head
      /\ tree'[t].head = tree[t].head \cup {<<r, n>>}
  BY <1>2, <1>3, <1>4
<1>6. OneReview' /\ BasesOwned' /\ BasesClean'
  BY <1>1 DEF TraceInv, OneReview, BasesOwned, BasesClean
<1>7. HeadsOwned'
  <2>1. n <= run[r].tries
    BY <1>1
  <2>2. QED
    BY <1>1, <1>5, <2>1 DEF TraceInv, HeadsOwned
<1>8. TracesGone'
  <2> SUFFICES ASSUME NEW s \in Runs, Done(run[s]) \/ Passed(run[s])
               PROVE  Traceless(s)'
    BY <1>1 DEF TracesGone
  <2>1. Traceless(s) /\ s # r /\ run[s].job.task \in Tasks
    BY <1>1, TaskOf DEF TraceInv, TracesGone, RunnersInv
  <2>2. tree'[run[s].job.task].head \subseteq tree[run[s].job.task].head \cup {<<r, n>>}
    BY <1>5, <2>1
  <2>3. QED
    BY <1>1, <1>5, <2>1, <2>2 DEF Traceless
<1>9. QED
  BY <1>6, <1>7, <1>8 DEF TraceInv

LEMMA TraceInit == Init => TraceInv
<1> SUFFICES ASSUME Init PROVE TraceInv
  OBVIOUS
<1>1. /\ \A r \in Runs : run[r].pc = "idle" /\ run[r].head = {}
      /\ \A t \in Tasks : tree[t].head = {}
  BY DEF Init
<1>2. QED
  BY <1>1 DEF TraceInv, OneReview, HeadsOwned, BasesOwned, BasesClean, TracesGone,
     Reviewing, Done, Passed

LEMMA TraceNext ==
    ASSUME RunnersInv, TraceInv, [Next]_rnvars
    PROVE  TraceInv'
<1>1. RunnersInv'
  BY RunnersNext
<1>2. CASE Next
  <2>1. PICK r \in Runs : TraceStep(r)
    BY <1>2, StepsOfRuns DEF RunnersInv
  <2>2. QED
    BY <1>1, <2>1, RoutineKeeps, StartKeeps, BaselineKeeps, ComparisonKeeps, ResetKeeps,
       EditKeeps, CommitKeeps DEF TraceStep
<1>3. CASE UNCHANGED rnvars
  BY <1>3 DEF rnvars, TraceInv, OneReview, HeadsOwned, BasesOwned, BasesClean, TracesGone,
     Traceless
<1>4. QED
  BY <1>2, <1>3

\* A review that counts as done leaves no commit of its agents in the worktree, and no
\* change of theirs to a file that was clean when it began, however many reviews and
\* realizers there are and whatever they do there.
THEOREM ReviewLeavesNoTraceCorrect == Spec => []ReviewLeavesNoTrace
<1>1. Init => RunnersInv /\ TraceInv
  BY RunnersInit, TraceInit
<1>2. RunnersInv /\ TraceInv /\ [Next]_rnvars => RunnersInv' /\ TraceInv'
  BY RunnersNext, TraceNext
<1>3. TraceInv => ReviewLeavesNoTrace
  BY DEF TraceInv, TracesGone, Traceless, Done, ReviewLeavesNoTrace
<1>4. QED
  BY <1>1, <1>2, <1>3, PTL DEF Spec

=============================================================================
