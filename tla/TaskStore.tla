------------------------------ MODULE TaskStore ------------------------------
(***************************************************************************)
(* TaskQueue.transition (core/task_queue.py) below the grain of Pipeline:  *)
(* the database session it opens, and the connection that session runs on  *)
(* (core/db/engine.py).  Every call of the session is an await, so the     *)
(* sessions of other coroutines run in between.                            *)
(*                                                                         *)
(* For SQLite the engine uses StaticPool: all sessions share one           *)
(* connection, hence one database transaction, and whoever commits or      *)
(* rolls back does so for all.  For any other URL each session has a       *)
(* connection of its own, and a second process on the database always has. *)
(* Between connections the database locks a row from the UPDATE to the end *)
(* of the transaction and lets readers see what is committed.              *)
(***************************************************************************)
EXTENDS TaskStatus

CONSTANTS Tasks,
          Callers,        \* coroutines that use the task queue
          Connections,
          ConnOf,         \* the connection a caller's session gets
          OneCallPerTask, \* whether callers of one task take turns
          Nothing

ASSUME StoreAssumption ==
    /\ ConnOf \in [Callers -> Connections]
    /\ OneCallPerTask \in BOOLEAN
    /\ Nothing \notin Status \cup Tasks

VARIABLES
    db,       \* the committed status of every task
    written,  \* per connection, the statuses its open transaction has written
    session   \* what each caller's session is about to do

storeVars == <<db, written, session>>

Session == [pc : {"closed", "flush", "commit", "refresh", "close"},
            task : Tasks \cup {Nothing},
            to : Status \cup {Nothing}]

Closed == [pc |-> "closed", task |-> Nothing, to |-> Nothing]

Clean == [t \in Tasks |-> Nothing]

\* What a SELECT on connection k returns for t.
Selected(k, t) == IF written[k][t] = Nothing THEN db[t] ELSE written[k][t]

Busy(t) == \E c \in Callers : session[c].task = t

\* Mutant of Get: the table is not consulted.
GetUnchecked(c, t, to) ==
    /\ session[c].pc = "closed"
    /\ OneCallPerTask => ~Busy(t)
    /\ session' = [session EXCEPT ![c] = [pc |-> "flush", task |-> t, to |-> to]]
    /\ UNCHANGED <<db, written>>

\* transition up to its first await: session.get, the check against the table,
\* and the new value in memory.  A refused move leaves by closing the session.
Get(c, t, to) ==
    /\ session[c].pc = "closed"
    /\ OneCallPerTask => ~Busy(t)
    /\ session' = [session EXCEPT ![c] =
          [pc |-> IF CanMove(Selected(ConnOf[c], t), to) THEN "flush" ELSE "close",
           task |-> t, to |-> to]]
    /\ UNCHANGED <<db, written>>

\* The UPDATE that commit() sends first.  It names the task only, not the
\* status it was checked against, and waits for another connection's lock.
Flush(c) ==
    LET t == session[c].task
    IN /\ session[c].pc = "flush"
       /\ \A k \in Connections \ {ConnOf[c]} : written[k][t] = Nothing
       /\ written' = [written EXCEPT ![ConnOf[c]][t] = session[c].to]
       /\ session' = [session EXCEPT ![c].pc = "commit"]
       /\ UNCHANGED db

\* Mutant of Commit: tasks the transaction has not written are overwritten too.
CommitEverything(c) ==
    /\ session[c].pc = "commit"
    /\ db' = written[ConnOf[c]]
    /\ written' = [written EXCEPT ![ConnOf[c]] = Clean]
    /\ session' = [session EXCEPT ![c].pc = "refresh"]

\* The COMMIT: of everything the connection has written.
Commit(c) ==
    /\ session[c].pc = "commit"
    /\ db' = [t \in Tasks |-> Selected(ConnOf[c], t)]
    /\ written' = [written EXCEPT ![ConnOf[c]] = Clean]
    /\ session' = [session EXCEPT ![c].pc = "refresh"]

\* session.refresh before transition returns.
Refresh(c) ==
    /\ session[c].pc = "refresh"
    /\ session' = [session EXCEPT ![c].pc = "close"]
    /\ UNCHANGED <<db, written>>

\* The methods that only read, up to the end of their SELECT.
Read(c) ==
    /\ session[c].pc = "closed"
    /\ session' = [session EXCEPT ![c].pc = "close"]
    /\ UNCHANGED <<db, written>>

\* Mutant of Close: the rollback reaches every connection.
CloseRollsAllBack(c) ==
    /\ session[c].pc = "close"
    /\ written' = [k \in Connections |-> Clean]
    /\ session' = [session EXCEPT ![c] = Closed]
    /\ UNCHANGED db

\* The end of "async with": the session rolls its connection back.
Close(c) ==
    /\ session[c].pc = "close"
    /\ written' = [written EXCEPT ![ConnOf[c]] = Clean]
    /\ session' = [session EXCEPT ![c] = Closed]
    /\ UNCHANGED db

StoreInit ==
    /\ db = [t \in Tasks |-> "idea"]
    /\ written = [k \in Connections |-> Clean]
    /\ session = [c \in Callers |-> Closed]

StoreNext ==
    \E c \in Callers :
        \/ \E t \in Tasks, to \in Status : Get(c, t, to)
        \/ Flush(c)
        \/ Commit(c)
        \/ Refresh(c)
        \/ Read(c)
        \/ Close(c)

StoreSpec == StoreInit /\ [][StoreNext]_storeVars

-----------------------------------------------------------------------------
StoreTypeOK ==
    /\ db \in [Tasks -> Status]
    /\ written \in [Connections -> [Tasks -> Status \cup {Nothing}]]
    /\ session \in [Callers -> Session]

\* "State machine enforcement" (docstring of TaskQueue): what is committed for a
\* task only ever changes along an edge of TRANSITIONS.  It takes callers that
\* do not overlap on one task: the UPDATE does not repeat the check.
Enforced ==
    [][\A t \in Tasks : db'[t] # db[t] => CanMove(db[t], db'[t])]_storeVars

\* A transition that gets past its COMMIT has moved its task, as the tests of
\* transition expect of the task it returns.
MoveOf(c) ==
    session[c].pc = "commit" /\ session'[c].pc = "refresh"
        => db'[session[c].task] = session[c].to

\* A caller whose connection nobody shares keeps its move, whatever the sessions
\* of other connections commit and roll back meanwhile.  On a shared connection another
\* session's close may take its UPDATE back.
LoneMoveKept ==
    [][\A c \in Callers :
          (\A d \in Callers \ {c} : ConnOf[d] # ConnOf[c]) => MoveOf(c)]_storeVars

=============================================================================
