------------------------- MODULE PipelineProperties -------------------------
(***************************************************************************)
(* What the execution core should guarantee, stated over Pipeline.         *)
(***************************************************************************)
EXTENDS Pipeline

\* The registered runs of a role that the driver started.
DriverRuns(role) ==
    {r \in RunIds : Registered(r) /\ run[r].by = "driver" /\ run[r].role = role}

-----------------------------------------------------------------------------
\* Every variable holds a value of its type.
TypeOK ==
    /\ status \in [Tasks -> Status]
    /\ paused \subseteq Tasks \cup Proposals
    /\ planRun \subseteq Tasks
    /\ run \in [RunIds -> Run]
    /\ fiLock \in RunIds \cup {NoRunId}
    /\ fiWaiters \in Seq(RunIds)
    /\ driver \in Driver
    /\ user \in [Users -> Request]

\* At most one interpreter executes at a time, whoever submitted it and however
\* it is cancelled, fails or is queued: interpreters share the project's port
\* (_fi_lock in AgentRunManager._drive).
FiSerialized ==
    \A r1, r2 \in RunIds :
        /\ run[r1].pc = "running" /\ run[r1].role = "fi"
        /\ run[r2].pc = "running" /\ run[r2].role = "fi"
        => r1 = r2

\* The driver never has two unfinished runs of one role on one task, although
\* it decides on a snapshot of the tasks, a later one of the rows, and a pause
\* check per task (AutoDriver._tick_pl, _tick_fr, _tick_fi).  A restart does
\* not break it either: the row a killed process left still blocks its task.
OneAutoRun ==
    \A r1, r2 \in RunIds :
        /\ RowRunning(r1) /\ run[r1].by = "driver"
        /\ RowRunning(r2) /\ run[r2].by = "driver"
        /\ run[r1].role = run[r2].role
        /\ run[r1].target = run[r2].target
        => r1 = r2

\* The runs the driver has going stay within the configured caps, whatever
\* people submit, cancel or chat with between the check and the submission.
CapRespected == \A role \in Roles : Cardinality(DriverRuns(role)) <= Cap[role]

\* A task that no realizer has been given yet.
Unassigned == {"idea", "planning", "planned"}

\* Once a realizer's failure has paused a proposal, every task of it that has
\* not reached a realizer is paused, so that nothing new of it is planned or
\* assigned, also when a retry moves a failed sibling back to planning while
\* the cascade runs (_on_fr_failed_cascade).  For people who lift no pause,
\* by hand or by a manual run that succeeds.
ProposalFrozen ==
    \A t \in Tasks :
        ProposalOf[t] \in paused /\ status[t] \in Unassigned => t \in paused

\* The pipeline implements the lifecycle of tasks: one edge of the table at a
\* time, and dependencies first, although several coroutines promote, apply
\* outcomes, review and retry on what they read earlier.
Lifecycle == INSTANCE TaskLifecycle WITH status <- status
LifecycleSpec == Lifecycle!Spec

-----------------------------------------------------------------------------
\* Every run that gets a row ends: its row stops saying "running" and whoever
\* waits for it is released, also when the bookkeeping after it raises and when
\* it has to queue for the interpreter lock (_drive, wait_for_finish).  Only the
\* process that drives it may be killed; then its row says "running" for good.
EveryRunEnds == \A r \in RunIds : run[r].pc # "free" ~> run[r].pc \in {"free", "lost"}

\* An idea whose dependencies are all done is promoted, although the driver
\* and an accept request may both try and the loser's error ends its tick.
ReadyIsPromoted ==
    \A t \in Tasks :
        (status[t] = "idea" /\ \A d \in Deps[t] : status[d] = "done")
            ~> status[t] # "idea"

\* When agents succeed and people accept, every task gets done, in spite of the
\* duplicate runs that stale snapshots cause and of transitions that raise.
EverythingDelivered == \A t \in Tasks : <>(status[t] = "done")

\* A task that is under way reaches its reviewer, or stops for a reason that is
\* on record: it is rejected, failed or paused.  No order of the runs' steps
\* leaves it in between.  (Unless people send work back for ever: then a task of
\* higher priority can keep every slot from one of lower priority.)
Feedback ==
    \/ \E u \in Users, t \in Tasks : StartReview(u, t, "reject") \/ StartRetry(u, t)
    \/ \E x \in Tasks \cup Proposals : UserUnpause(x)

NoSilentStall ==
    <>[][~Feedback]_vars =>
        \A t \in Tasks :
            status[t] \in {"planning", "planned", "assigned", "in_progress",
                           "implemented", "testing"}
                ~> (status[t] \in {"review", "rejected", "failed"} \/ t \in paused)

=============================================================================
