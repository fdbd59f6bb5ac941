---------------------------- MODULE TaskLifecycle ----------------------------
(***************************************************************************)
(* What the pipeline promises about tasks, whatever runs, drivers, people  *)
(* and restarts do underneath: tasks move one at a time, each along an     *)
(* edge of the table, and a task leaves the idea state only when all the   *)
(* tasks it depends on are done.  The detailed modules implement this.     *)
(***************************************************************************)
EXTENDS TaskStatus

CONSTANTS Tasks,  \* the tasks of the project
          Deps    \* Deps[t]: the ids in t.depends_on

VARIABLE status   \* status[t]: the status column of t

\* A ready idea, as get_ready_tasks sees it.
DepsDone(t) == \A d \in Deps[t] : status[d] = "done"

\* Tasks are created as ideas.
Init == status = [t \in Tasks |-> "idea"]

\* One task takes one edge of the table.
Move(t, to) ==
    /\ CanMove(status[t], to)
    /\ status[t] = "idea" => to = "planning" /\ DepsDone(t)
    /\ status' = [status EXCEPT ![t] = to]

Next == \E t \in Tasks, to \in Status : Move(t, to)

Spec == Init /\ [][Next]_status

=============================================================================
