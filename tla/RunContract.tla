----------------------------- MODULE RunContract -----------------------------
(***************************************************************************)
(* What AgentRunner.run promises the manager that calls it                 *)
(* (core/runners/base.py), whatever servers, sessions and agent processes  *)
(* do underneath: at most one agent of a run works at a time; a success    *)
(* comes from an agent that has ended, of a run nobody had cancelled by    *)
(* then; a cancelled run leaves no agent behind.  Only a failure may.      *)
(***************************************************************************)
CONSTANT Runs

VARIABLES phase,   \* RunResult.status, or "busy" before there is one
          live,    \* an agent of the run is at work
          asked    \* the run was cancelled before its agent's answer was taken

cvars == <<phase, live, asked>>

Phases == {"idle", "busy", "succeeded", "failed", "cancelled"}

Init ==
    /\ phase = [r \in Runs |-> "idle"]
    /\ live = [r \in Runs |-> FALSE]
    /\ asked = [r \in Runs |-> FALSE]

Begin(r) ==
    /\ phase[r] = "idle"
    /\ phase' = [phase EXCEPT ![r] = "busy"]
    /\ UNCHANGED <<live, asked>>

Launch(r) ==
    /\ phase[r] = "busy" /\ ~live[r]
    /\ live' = [live EXCEPT ![r] = TRUE]
    /\ UNCHANGED <<phase, asked>>

\* An agent ends, by itself or killed.
Quit(r) ==
    /\ live[r]
    /\ live' = [live EXCEPT ![r] = FALSE]
    /\ UNCHANGED <<phase, asked>>

Ask(r) ==
    /\ phase[r] = "busy"
    /\ asked' = [asked EXCEPT ![r] = TRUE]
    /\ UNCHANGED <<phase, live>>

Succeed(r) ==
    /\ phase[r] = "busy" /\ ~live[r] /\ ~asked[r]
    /\ phase' = [phase EXCEPT ![r] = "succeeded"]
    /\ UNCHANGED <<live, asked>>

Fail(r) ==
    /\ phase[r] = "busy"
    /\ phase' = [phase EXCEPT ![r] = "failed"]
    /\ UNCHANGED <<live, asked>>

\* The agent is killed on the way.
Cancel(r) ==
    /\ phase[r] = "busy" /\ asked[r]
    /\ phase' = [phase EXCEPT ![r] = "cancelled"]
    /\ live' = [live EXCEPT ![r] = FALSE]
    /\ UNCHANGED asked

Next ==
    \E r \in Runs :
        \/ Begin(r) \/ Launch(r) \/ Quit(r) \/ Ask(r)
        \/ Succeed(r) \/ Fail(r) \/ Cancel(r)

Spec == Init /\ [][Next]_cvars

=============================================================================
