----------------------------- MODULE TaskStatus -----------------------------
(***************************************************************************)
(* The states of a task and the table of its legal moves: TaskStatus and   *)
(* TRANSITIONS of src/orchestra/core/task_queue.py.  Every other module    *)
(* that talks about tasks takes them from here.                            *)
(***************************************************************************)

Status == {"idea", "planning", "planned", "assigned", "in_progress",
           "implemented", "testing", "review", "accepted", "rejected",
           "done", "failed"}

\* The successors the table allows, per state.
TRANSITIONS ==
    [s \in Status |->
        CASE s = "idea"        -> {"planning", "failed"}
          [] s = "planning"    -> {"planned", "failed"}
          [] s = "planned"     -> {"assigned", "failed"}
          [] s = "assigned"    -> {"in_progress", "failed"}
          [] s = "in_progress" -> {"implemented", "failed"}
          [] s = "implemented" -> {"testing"}
          [] s = "testing"     -> {"review", "failed"}
          [] s = "review"      -> {"accepted", "rejected"}
          [] s = "rejected"    -> {"assigned"}
          [] s = "accepted"    -> {"done"}
          [] s = "failed"      -> {"planning"}
          [] OTHER             -> {}]

\* The test TaskQueue.transition makes before it writes.
CanMove(from, to) == to \in TRANSITIONS[from]

=============================================================================
