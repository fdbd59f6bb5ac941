------------------------------- MODULE Runners -------------------------------
(***************************************************************************)
(* Inside a run: AgentRunner.run of the four roles (core/runners), the     *)
(* agent process AgentSpawner starts for it, the development server an     *)
(* interpreter tests against, and the worktree agents change.              *)
(*                                                                         *)
(* A step ends where the coroutine awaits.  Agents and servers are         *)
(* processes of their own: they work, answer and die at any time.  A       *)
(* worktree is the commits on its branch and the uncommitted changes, each *)
(* with its author.  Prompts, models, profiles and log texts are left out. *)
(***************************************************************************)
EXTENDS Naturals

CONSTANTS
    Runs,        \* runs there may be (a bound of the model)
    Tasks,       \* tasks, each with its worktree
    Jobs,        \* what runs may be submitted: role, task, resume, chat
    Paths,       \* files of a worktree
    Artifacts,   \* those among _DEV_ARTIFACT_PATTERNS
    Answers,     \* what agents may say in this instance
    HasServer,   \* run_config.json names a development server
    Ping         \* and no ready signal: readiness is an answer of its URL

Roles == {"hl", "pl", "fr", "fi"}

Job == [role : Roles, task : Tasks, resume : BOOLEAN, chat : BOOLEAN]

ASSUME RunnersAssumption ==
    /\ Jobs \subseteq Job /\ Jobs # {}
    /\ Artifacts \subseteq Paths
    /\ Answers \subseteq {"result", "blocked", "text"}
    /\ HasServer \in BOOLEAN /\ Ping \in BOOLEAN

VARIABLES
    run,      \* run[r]: where the coroutine is, and its RunResult
    agent,    \* agent[r][n]: the process and handle of the nth spawn of r
    server,   \* server[r]: its process group
    tree      \* tree[t]: the worktree of t

rnvars == <<run, agent, server, tree>>

-----------------------------------------------------------------------------
\* An agent per session: the resumed one and the fresh one after it.
Attempts == {1, 2}
Agents == Runs \X Attempts

RunnerPC == {"idle", "tree", "serve", "ready", "baseline", "spawn", "feed", "probe",
             "wait", "git", "stop", "check", "over"}

\* Points from which the agent's answer is still to come.
Open == {"tree", "serve", "ready", "baseline", "spawn", "feed", "probe", "wait"}

Run == [pc : RunnerPC,
        job : Jobs,
        tries : 0 .. 2,                        \* agents spawned so far
        asked : {"no", "early", "late"},       \* CancelToken, set before or after
        head : SUBSET Agents,                  \* baseline_head
        dirty : SUBSET Paths,                  \* baseline_status, filtered
        changed : BOOLEAN,                     \* violated
        status : {"none", "succeeded", "failed", "cancelled"},
        error : {"none", "worktree", "server", "baseline", "spawn", "reader", "log",
                 "cancelled", "answer", "git", "reset"},
        verdict : {"none", "chat", "unknown", "agent", "tampered"}]

\* says: ORCHESTRA_RESULT with what the role needs, with something else, or none.
Agent == [proc : {"none", "alive", "ok", "error", "killed"},
          state : {"none", "running", "finished", "failed"},
          says : {"none", "result", "blocked", "text"}]

\* up: the shell of the group runs; loose: only children of it still do.
ServerState == {"none", "up", "loose"}

Tree == [head : SUBSET Agents,              \* who has committed
         edits : SUBSET (Agents \X Paths)]  \* who has changed what since

NoAgent == [proc |-> "none", state |-> "none", says |-> "none"]

Underway(r) == run[r].pc \notin {"idle", "over"}

\* The agent the coroutine holds the handle of.
Current(r) == agent[r][run[r].tries]

\* git status --porcelain through _filter_dev_artifacts: paths, not contents.
Status(t) == {p \in Paths : \E a \in Agents : <<a, p>> \in tree[t].edits} \ Artifacts

WithAgent(r, n, rec) == [agent EXCEPT ![r] = [@ EXCEPT ![n] = rec]]

\* Mutant of Kill: a cancelled run leaves its agent alone.
KillNothing(r) == agent

\* process.kill(); nothing happens to one that has ended.
Kill(r) ==
    WithAgent(r, run[r].tries,
              IF Current(r).proc = "alive" THEN [Current(r) EXCEPT !.proc = "killed"]
              ELSE Current(r))

Ended(rec, status, error, verdict) ==
    [rec EXCEPT !.pc = "over", !.status = status, !.error = error, !.verdict = verdict]

\* Mutant of Leave: the server is stopped by the ordinary path only.
LeaveAtOnce(rec, status, error) == Ended(rec, status, error, "none")

\* A result or an exception leaves the block that uses the agent: an interpreter
\* stops its server on the way (finally).
Leave(rec, status, error) ==
    [Ended(rec, status, error, "none")
        EXCEPT !.pc = IF rec.job.role = "fi" THEN "stop" ELSE "over"]

-----------------------------------------------------------------------------
\* _drive calls the runner; interpreters run under the manager's lock.
Start(r, job) ==
    /\ run[r].pc = "idle"
    /\ job.role = "fi" =>
           \A q \in Runs : ~(Underway(q) /\ run[q].job.role = "fi")
    /\ run' = [run EXCEPT ![r].job = job,
                          ![r].pc = CASE job.role = "fr" -> "tree"
                                      [] job.role = "fi" /\ HasServer -> "serve"
                                      [] job.role = "fi" /\ ~HasServer -> "baseline"
                                      [] OTHER -> "spawn"]
    /\ UNCHANGED <<agent, server, tree>>

\* AgentRunManager.cancel sets the token; the runner looks at it in its waits only.
Cancel(r) ==
    /\ Underway(r) /\ run[r].asked = "no"
    /\ run' = [run EXCEPT ![r].asked = IF run[r].pc \in Open THEN "early" ELSE "late"]
    /\ UNCHANGED <<agent, server, tree>>

\* A realizer's create_worktree, which may raise (outside FRRunner's try).
CreateWorktree(r) ==
    /\ run[r].pc = "tree"
    /\ \/ run' = [run EXCEPT ![r].pc = "spawn"]
       \/ run' = [run EXCEPT ![r] = Ended(@, "failed", "worktree", "none")]
    /\ UNCHANGED <<agent, server, tree>>

-----------------------------------------------------------------------------
\* DevServer: _spawn starts a shell in a process group of its own, or raises.
ServerSpawn(r) ==
    /\ run[r].pc = "serve"
    /\ \/ /\ run' = [run EXCEPT ![r].pc = "ready"]
          /\ server' = [server EXCEPT ![r] = "up"]
       \/ /\ run' = [run EXCEPT ![r] = Ended(@, "failed", "server", "none")]
          /\ UNCHANGED server
    /\ UNCHANGED <<agent, tree>>

\* _wait_ready_signal reads the server's own output; _wait_ping takes any answer
\* on the port, of whichever server is left there.
ServerReady(r) ==
    /\ run[r].pc = "ready"
    /\ IF Ping THEN \E q \in Runs : server[q] # "none" ELSE server[r] # "none"
    /\ run' = [run EXCEPT ![r].pc = "baseline"]
    /\ UNCHANGED <<agent, server, tree>>

\* stop(): SIGTERM to the group while its shell runs, SIGKILL if the shell stays
\* for 5 seconds; a child that ignores SIGTERM may outlive the shell.
Stopped(s) == IF s = "up" THEN {"none", "loose"} ELSE {s}

\* The shell has exited or the deadline has passed: start() stops and raises.
ServerFails(r) ==
    /\ run[r].pc = "ready"
    /\ \E s \in Stopped(server[r]) : server' = [server EXCEPT ![r] = s]
    /\ run' = [run EXCEPT ![r] = Ended(@, "failed", "server", "none")]
    /\ UNCHANGED <<agent, tree>>

\* The server dies, or its shell leaves it running in the background.
ServerEnds(r) ==
    /\ server[r] # "none"
    /\ \/ server' = [server EXCEPT ![r] = "none"]
       \/ server[r] = "up" /\ server' = [server EXCEPT ![r] = "loose"]
    /\ UNCHANGED <<run, agent, tree>>

\* The end of FIRunner's try block; what was decided in it stands.
StopServer(r) ==
    /\ run[r].pc = "stop"
    /\ \E s \in Stopped(server[r]) : server' = [server EXCEPT ![r] = s]
    /\ run' = [run EXCEPT ![r].pc = IF run[r].status = "none" THEN "check" ELSE "over"]
    /\ UNCHANGED <<agent, tree>>

\* The worktree as the interpreter finds it.  The try block has not begun: when
\* git cannot be run the server stays.
Baseline(r) ==
    /\ run[r].pc = "baseline"
    /\ LET t == run[r].job.task IN
       \/ run' = [run EXCEPT ![r].pc = "spawn", ![r].head = tree[t].head,
                             ![r].dirty = Status(t)]
       \/ run' = [run EXCEPT ![r] = Ended(@, "failed", "baseline", "none")]
    /\ UNCHANGED <<agent, server, tree>>

-----------------------------------------------------------------------------
\* AgentSpawner.spawn up to the process, which may not come about (no program,
\* a profile or a secret that is gone).
Spawn(r) ==
    /\ run[r].pc = "spawn"
    /\ \/ /\ run' = [run EXCEPT ![r].pc = "feed", ![r].tries = @ + 1]
          /\ agent' = WithAgent(r, run[r].tries + 1, [NoAgent EXCEPT !.proc = "alive"])
       \/ /\ run' = [run EXCEPT ![r] = Leave(@, "failed", "spawn")]
          /\ UNCHANGED agent
    /\ UNCHANGED <<server, tree>>

\* Mutant of Resumed: a fresh session is probed like a resumed one.
ResumedAgain(r) == run[r].job.resume /\ run[r].job.role # "pl"

\* The planner never resumes, and the fresh session after a resumed one neither.
Resumed(r) == run[r].job.resume /\ run[r].job.role # "pl" /\ run[r].tries = 1

\* The task goes to stdin; if the process has died meanwhile that may raise.
Feed(r) ==
    /\ run[r].pc = "feed"
    /\ \/ /\ run' = [run EXCEPT ![r].pc = IF Resumed(r) THEN "probe" ELSE "wait"]
          /\ agent' = WithAgent(r, run[r].tries, [Current(r) EXCEPT !.state = "running"])
       \/ /\ Current(r).proc # "alive"
          /\ run' = [run EXCEPT ![r] = Leave(@, "failed", "spawn")]
          /\ UNCHANGED agent
    /\ UNCHANGED <<server, tree>>

\* A resumed session that has died with an error is started again afresh.
FallsBack(r) == Current(r).proc = "error"

\* The two seconds of _spawn_with_resume_fallback, which a cancel cuts short.
Probe(r) ==
    /\ run[r].pc = "probe"
    /\ IF run[r].asked # "no"
       THEN /\ agent' = Kill(r)
            /\ run' = [run EXCEPT ![r].pc = "wait"]
       ELSE /\ run' = [run EXCEPT ![r].pc = IF FallsBack(r) THEN "spawn" ELSE "wait"]
            /\ UNCHANGED agent
    /\ UNCHANGED <<server, tree>>

\* Mutant of CancelWins: the answer of an agent that has ended wins.
AnswerWins(r) == run[r].asked # "no" /\ Current(r).proc \notin {"ok", "error"}

\* Mutant of CancelWins: after a fresh start the token is not watched any more.
CancelUnwatched(r) == run[r].asked # "no" /\ run[r].tries = 1

\* _wait_or_cancel: a cancel wins, also over an agent that has ended.
CancelWins(r) == run[r].asked # "no"

WaitCancelled(r) ==
    /\ run[r].pc = "wait"
    /\ CancelWins(r)
    /\ agent' = Kill(r)
    /\ run' = [run EXCEPT ![r] = Leave(@, "cancelled", "cancelled")]
    /\ UNCHANGED <<server, tree>>

\* A line longer than the stream's limit raises in the reader; the run fails and
\* nobody kills the agent.
WaitRaises(r) ==
    /\ run[r].pc = "wait"
    /\ ~CancelWins(r)
    /\ run' = [run EXCEPT ![r] = Leave(@, "failed", "reader")]
    /\ UNCHANGED <<agent, server, tree>>

\* Text without a result is the reply to a chat.
Chats(r) == run[r].job.chat /\ Current(r).says = "text"

\* wait() closes with handle.log_path.parent; the planner passes a str, which has none.
PlannerEnds(rec) == Ended(rec, "failed", "log", "none")

\* What a run makes of an answer without looking at the worktree.
Answer(rec, says, chats) ==
    CASE rec.job.role = "pl" -> PlannerEnds(rec)
      [] rec.job.role \in {"hl", "fr"} /\ chats -> Ended(rec, "succeeded", "none", "chat")
      [] rec.job.role = "hl" /\ ~chats ->
            IF says = "result" THEN Ended(rec, "succeeded", "none", "agent")
            ELSE Ended(rec, "failed", "answer", "none")
      [] OTHER -> [rec EXCEPT !.pc = "git"]

WaitAnswered(r) ==
    /\ run[r].pc = "wait"
    /\ ~CancelWins(r)
    /\ Current(r).proc \in {"ok", "error"}
    /\ agent' = WithAgent(r, run[r].tries,
                    [Current(r) EXCEPT !.state = IF Current(r).proc = "ok" THEN "finished"
                                                 ELSE "failed"])
    /\ run' = [run EXCEPT ![r] = Answer(@, Current(r).says, Chats(r))]
    /\ UNCHANGED <<server, tree>>

-----------------------------------------------------------------------------
\* FRRunner's end: blocked or a bad exit code is a failure, no result is not.
RealizerGit(r) ==
    /\ run[r].pc = "git" /\ run[r].job.role = "fr"
    /\ \/ run' = [run EXCEPT ![r] =
                    IF Current(r).says = "blocked" \/ Current(r).proc = "error"
                    THEN Ended(@, "failed", "answer", "none")
                    ELSE Ended(@, "succeeded", "none", "agent")]
       \/ run' = [run EXCEPT ![r] = Ended(@, "failed", "git", "none")]
    /\ UNCHANGED <<agent, server, tree>>

\* Mutant of Violated: only the commits are.
ViolatedByCommit(r) == tree[run[r].job.task].head # run[r].head

\* The interpreter may not change the worktree: commits and paths are compared.
Violated(r) ==
    LET t == run[r].job.task IN
    tree[t].head # run[r].head \/ Status(t) # run[r].dirty

InterpreterGit(r) ==
    /\ run[r].pc = "git" /\ run[r].job.role = "fi"
    /\ \/ run' = [run EXCEPT ![r].pc = "stop", ![r].changed = Violated(r)]
       \/ run' = [run EXCEPT ![r] = Leave(@, "failed", "git")]
    /\ UNCHANGED <<agent, server, tree>>

\* git reset --hard baseline_head; git clean -fd.
Reset(r) == [tree EXCEPT ![run[r].job.task] = [head |-> run[r].head, edits |-> {}]]

\* FIRunner's end, after the server has stopped.
Check(r) ==
    /\ run[r].pc = "check"
    /\ \/ /\ run[r].changed
          /\ tree' = Reset(r)
          /\ run' = [run EXCEPT ![r] = Ended(@, "succeeded", "none", "tampered")]
       \/ /\ run[r].changed
          /\ run' = [run EXCEPT ![r] = Ended(@, "failed", "reset", "none")]
          /\ UNCHANGED tree
       \/ /\ ~run[r].changed
          /\ run' = [run EXCEPT ![r] =
                        Ended(@, "succeeded", "none",
                              IF Chats(r) THEN "chat"
                              ELSE IF Current(r).says = "text" THEN "unknown" ELSE "agent")]
          /\ UNCHANGED tree
    /\ UNCHANGED <<agent, server>>

-----------------------------------------------------------------------------
\* Agents.  Realizers and interpreters work in the worktree; the latter are told
\* not to change it, which is all that holds them.
Works(r, n) == agent[r][n].proc = "alive" /\ run[r].job.role \in {"fr", "fi"}

AgentEdits(r, n, p) ==
    /\ Works(r, n)
    /\ tree' = [tree EXCEPT ![run[r].job.task].edits = @ \cup {<<<<r, n>>, p>>}]
    /\ UNCHANGED <<run, agent, server>>

\* Everything but artifacts, which .gitignore keeps out.
AgentCommits(r, n) ==
    /\ Works(r, n)
    /\ LET t == run[r].job.task IN
       /\ Status(t) # {}
       /\ tree' = [tree EXCEPT ![t] =
                     [head |-> @.head \cup {<<r, n>>},
                      edits |-> {e \in @.edits : e[2] \in Artifacts}]]
    /\ UNCHANGED <<run, agent, server>>

AgentExits(r, n, how, says) ==
    /\ agent[r][n].proc = "alive"
    /\ agent' = WithAgent(r, n, [agent[r][n] EXCEPT !.proc = how, !.says = says])
    /\ UNCHANGED <<run, server, tree>>

AgentStep(r, n) ==
    \/ \E p \in Paths : AgentEdits(r, n, p)
    \/ AgentCommits(r, n)
    \/ \E how \in {"ok", "error"}, says \in Answers :
           AgentExits(r, n, how, says)

RunnerStep(r) ==
    \/ CreateWorktree(r) \/ ServerSpawn(r) \/ ServerReady(r) \/ ServerFails(r)
    \/ Baseline(r) \/ Spawn(r) \/ Feed(r) \/ Probe(r)
    \/ WaitCancelled(r) \/ WaitAnswered(r)
    \/ RealizerGit(r) \/ InterpreterGit(r) \/ StopServer(r) \/ Check(r)

Init ==
    /\ run = [r \in Runs |->
                [pc |-> "idle", job |-> CHOOSE job \in Jobs : TRUE, tries |-> 0,
                 asked |-> "no", head |-> {}, dirty |-> {}, changed |-> FALSE,
                 status |-> "none", error |-> "none", verdict |-> "none"]]
    /\ agent = [r \in Runs |-> [n \in Attempts |-> NoAgent]]
    /\ server = [r \in Runs |-> "none"]
    /\ tree = [t \in Tasks |-> [head |-> {}, edits |-> {}]]

Next ==
    \E r \in Runs :
        \/ \E job \in Jobs : Start(r, job)
        \/ Cancel(r)
        \/ RunnerStep(r) \/ WaitRaises(r)
        \/ ServerEnds(r)
        \/ \E n \in Attempts : AgentStep(r, n)

\* The event loop goes on with every run; nothing is asked of agents, which may
\* work for ever and need not overrun their reader, nor of servers.
Spec == Init /\ [][Next]_rnvars /\ \A r \in Runs : WF_rnvars(RunnerStep(r))

-----------------------------------------------------------------------------
TypeOK ==
    /\ run \in [Runs -> Run]
    /\ agent \in [Runs -> [Attempts -> Agent]]
    /\ server \in [Runs -> ServerState]
    /\ tree \in [Tasks -> Tree]

\* An agent that is alive is the one its run waits for, whatever cancels, early
\* deaths and fresh starts came before; only a run whose reader raised has left
\* one behind.  And no handle shows an end its process has not come to
\* (_spawn_with_resume_fallback, _wait_or_cancel, AgentSpawner.wait).
NoStrayAgent ==
    \A r \in Runs, n \in Attempts :
        /\ agent[r][n].proc = "alive" =>
               \/ Underway(r) /\ n = run[r].tries
               \/ run[r].error = "reader"
        /\ agent[r][n].state = "finished" => agent[r][n].proc = "ok"

\* A server whose shell runs belongs to a review under way, so that the port is
\* free for the next one: every way out of a review stops it, cancelled, failed
\* or rejected, except for git failing before the try block (FIRunner).
NoServerLeft ==
    \A r \in Runs : server[r] = "up" => Underway(r) \/ run[r].error = "baseline"

\* A review that counts as done leaves nothing of its agents in the worktree: no
\* commit, and no change of a file that was clean when it began, whichever of
\* its agents made it and whatever a realizer did there meanwhile (FIRunner).
ReviewLeavesNoTrace ==
    \A r \in Runs :
        run[r].status = "succeeded" /\ run[r].job.role = "fi" /\ run[r].pc = "over" =>
            LET t == run[r].job.task IN
            \A n \in Attempts :
                /\ <<r, n>> \notin tree[t].head
                /\ \A p \in Paths \ (Artifacts \cup run[r].dirty) :
                       <<<<r, n>>, p>> \notin tree[t].edits

\* The runners implement the contract of AgentRunner.run: one agent at a time,
\* no success after a cancel that came before the answer, no agent left by a
\* success or a cancel.
Contract == INSTANCE RunContract WITH
    phase <- [r \in Runs |-> IF run[r].pc = "idle" THEN "idle"
                             ELSE IF run[r].pc # "over" THEN "busy" ELSE run[r].status],
    live <- [r \in Runs |-> \E n \in Attempts : agent[r][n].proc = "alive"],
    asked <- [r \in Runs |-> run[r].asked = "early"]

ContractSpec == Contract!Spec

\* A cancel ends the run, wherever it finds it and though the agent may never
\* end by itself (CancelToken).
CancelStops == \A r \in Runs : run[r].asked = "early" ~> run[r].pc = "over"

\* "The Manager stores it that way": a log path that is a str is one a runner
\* copes with, so a planner that answers with a plan and is not cancelled has
\* succeeded (core/runners/base.py).
PlanIsTaken ==
    \A r \in Runs :
        /\ run[r].pc = "over" /\ run[r].job.role = "pl"
        /\ run[r].asked = "no" /\ run[r].tries = 1
        /\ agent[r][1].proc = "ok" /\ agent[r][1].says = "result"
        /\ run[r].error \notin {"spawn", "reader"}
        => run[r].status = "succeeded"

=============================================================================
