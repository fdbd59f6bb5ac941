--------------------------- MODULE TaskStoreProofs ---------------------------
(***************************************************************************)
(* The table of moves is enforced when callers of one task take turns,     *)
(* whether sessions share a connection or not, for any number of callers;  *)
(* a caller with a connection of its own keeps its move in any case.       *)
(***************************************************************************)
EXTENDS TaskStore, TLAPS

\* At most one caller is busy with a task.
TurnsTaken ==
    \A c1, c2 \in Callers :
        session[c1].task \in Tasks /\ session[c1].task = session[c2].task => c1 = c2

\* A session that is about to move its task was not overtaken since its check.
CheckHolds ==
    \A c \in Callers :
        session[c].pc = "flush" =>
            /\ session[c].task \in Tasks /\ session[c].to \in Status
            /\ CanMove(db[session[c].task], session[c].to)

\* What is written and not committed is the move of the one caller that is about
\* to commit it.
WritesOwned ==
    \A k \in Connections, t \in Tasks :
        written[k][t] # Nothing =>
            \E c \in Callers : /\ session[c].pc = "commit" /\ session[c].task = t
                               /\ ConnOf[c] = k
                               /\ written[k][t] = session[c].to
                               /\ CanMove(db[t], session[c].to)

StoreInv == StoreTypeOK /\ TurnsTaken /\ CheckHolds /\ WritesOwned

-----------------------------------------------------------------------------
LEMMA NothingWritten ==
    ASSUME StoreInv, NEW k \in Connections, NEW t \in Tasks,
           \A c \in Callers : session[c].task = t => session[c].pc # "commit"
    PROVE  written[k][t] = Nothing
BY DEF StoreInv, WritesOwned

\* Steps that write nothing and leave the callers that are about to commit alone.
LEMMA WritesKept ==
    ASSUME WritesOwned, UNCHANGED db,
           \A x \in Callers : session[x].pc = "commit" => session'[x] = session[x],
           \A j \in Connections, t \in Tasks : written'[j][t] \in {written[j][t], Nothing}
    PROVE  WritesOwned'
<1> SUFFICES ASSUME NEW j \in Connections, NEW t \in Tasks, written'[j][t] # Nothing
             PROVE  \E x \in Callers :
                      /\ session'[x].pc = "commit" /\ session'[x].task = t
                      /\ ConnOf[x] = j
                      /\ written'[j][t] = session'[x].to
                      /\ CanMove(db'[t], session'[x].to)
  BY DEF WritesOwned
<1>1. written'[j][t] = written[j][t]
  OBVIOUS
<1>2. PICK x \in Callers : /\ session[x].pc = "commit" /\ session[x].task = t
                           /\ ConnOf[x] = j
                           /\ written[j][t] = session[x].to
                           /\ CanMove(db[t], session[x].to)
  BY <1>1 DEF WritesOwned
<1>3. QED
  BY <1>1, <1>2

LEMMA StoreInitInv == StoreInit => StoreInv
<1> SUFFICES ASSUME StoreInit PROVE StoreInv
  OBVIOUS
<1>1. StoreTypeOK
  BY DEF StoreInit, StoreTypeOK, Status, Session, Closed, Clean
<1>2. TurnsTaken
  BY StoreAssumption DEF StoreInit, TurnsTaken, Closed
<1>3. CheckHolds /\ WritesOwned
  BY DEF StoreInit, CheckHolds, WritesOwned, Closed, Clean
<1>4. QED
  BY <1>1, <1>2, <1>3 DEF StoreInv

LEMMA StoreNextInv ==
    ASSUME OneCallPerTask, StoreInv, [StoreNext]_storeVars
    PROVE  StoreInv' /\ \A t \in Tasks : db'[t] # db[t] => CanMove(db[t], db'[t])
<1> DEFINE Good == StoreInv' /\ \A t \in Tasks : db'[t] # db[t] => CanMove(db[t], db'[t])
<1>0. /\ db \in [Tasks -> Status]
      /\ written \in [Connections -> [Tasks -> Status \cup {Nothing}]]
      /\ session \in [Callers -> Session]
      /\ TurnsTaken /\ CheckHolds /\ WritesOwned
      /\ ConnOf \in [Callers -> Connections] /\ Nothing \notin Status /\ Nothing \notin Tasks
  BY StoreAssumption DEF StoreInv, StoreTypeOK
<1>1. ASSUME NEW c \in Callers, NEW t \in Tasks, NEW to \in Status, Get(c, t, to)
      PROVE  Good
  <2> DEFINE pc == IF CanMove(Selected(ConnOf[c], t), to) THEN "flush" ELSE "close"
             s == [pc |-> pc, task |-> t, to |-> to]
  <2>1. /\ session' = [session EXCEPT ![c] = s] /\ UNCHANGED <<db, written>>
        /\ session[c].pc = "closed" /\ \A x \in Callers : session[x].task # t
    BY <1>1 DEF Get, Busy
  <2>2. pc \in {"flush", "close"} /\ (pc = "flush" => CanMove(db[t], to))
    BY <1>0, <2>1, NothingWritten DEF Selected
  <2>3. s \in Session /\ s.pc = pc /\ s.task = t /\ s.to = to
    BY <2>2 DEF Session
  <2> HIDE DEF pc, s
  <2>4. StoreTypeOK'
    BY <1>0, <2>1, <2>3 DEF StoreTypeOK
  <2>5. TurnsTaken'
    BY <1>0, <2>1, <2>3 DEF TurnsTaken
  <2>6. CheckHolds'
    BY <1>0, <2>1, <2>2, <2>3 DEF CheckHolds
  <2>7. WritesOwned'
    BY <1>0, <2>1, <2>3 DEF WritesOwned
  <2>8. QED
    BY <2>1, <2>4, <2>5, <2>6, <2>7 DEF StoreInv
<1>2. ASSUME NEW c \in Callers, Flush(c)
      PROVE  Good
  <2> DEFINE t == session[c].task
             k == ConnOf[c]
  <2>1. /\ session[c].pc = "flush" /\ UNCHANGED db
        /\ written' = [written EXCEPT ![k][t] = session[c].to]
        /\ session' = [session EXCEPT ![c].pc = "commit"]
    BY <1>2 DEF Flush
  <2>2. /\ t \in Tasks /\ session[c].to \in Status /\ CanMove(db[t], session[c].to)
        /\ k \in Connections
    BY <1>0, <2>1 DEF CheckHolds
  <2>3. /\ session' \in [Callers -> Session] /\ session'[c].pc = "commit"
        /\ session'[c].task = t /\ session'[c].to = session[c].to
        /\ \A x \in Callers \ {c} : session'[x] = session[x]
    BY <1>0, <2>1 DEF Session
  <2>4. /\ written' \in [Connections -> [Tasks -> Status \cup {Nothing}]]
        /\ \A j \in Connections, u \in Tasks :
             written'[j][u] = IF j = k /\ u = t THEN session[c].to ELSE written[j][u]
    BY <1>0, <2>1, <2>2
  <2>5. TurnsTaken' /\ CheckHolds'
    BY <1>0, <2>1, <2>3 DEF TurnsTaken, CheckHolds
  <2>6. WritesOwned'
    <3> SUFFICES ASSUME NEW j \in Connections, NEW u \in Tasks, written'[j][u] # Nothing
                 PROVE  \E x \in Callers :
                          /\ session'[x].pc = "commit" /\ session'[x].task = u
                          /\ ConnOf[x] = j
                          /\ written'[j][u] = session'[x].to
                          /\ CanMove(db'[u], session'[x].to)
      BY DEF WritesOwned
    <3>1. CASE j = k /\ u = t
      BY <2>1, <2>2, <2>3, <2>4, <3>1
    <3>2. CASE ~(j = k /\ u = t)
      <4>1. PICK x \in Callers : /\ session[x].pc = "commit" /\ session[x].task = u
                                 /\ ConnOf[x] = j
                                 /\ written[j][u] = session[x].to
                                 /\ CanMove(db[u], session[x].to)
        BY <1>0, <2>4, <3>2 DEF WritesOwned
      <4>2. x # c
        BY <2>1, <4>1
      <4>3. QED
        BY <2>1, <2>3, <2>4, <3>2, <4>1, <4>2
    <3>3. QED
      BY <3>1, <3>2
  <2>7. QED
    BY <1>0, <2>1, <2>3, <2>4, <2>5, <2>6 DEF StoreInv, StoreTypeOK
<1>3. ASSUME NEW c \in Callers, Commit(c)
      PROVE  Good
  <2> DEFINE k == ConnOf[c]
  <2>1. /\ session[c].pc = "commit" /\ db' = [t \in Tasks |-> Selected(k, t)]
        /\ written' = [written EXCEPT ![k] = Clean]
        /\ session' = [session EXCEPT ![c].pc = "refresh"] /\ k \in Connections
    BY <1>0, <1>3 DEF Commit
  <2>2. ASSUME NEW t \in Tasks
        PROVE  /\ db'[t] = IF written[k][t] = Nothing THEN db[t] ELSE written[k][t]
               /\ db'[t] # db[t] => CanMove(db[t], db'[t])
    BY <1>0, <2>1 DEF Selected, WritesOwned
  <2>3. db' \in [Tasks -> Status]
    BY <1>0, <2>1, <2>2
  <2>4. /\ session' \in [Callers -> Session] /\ session'[c].pc = "refresh"
        /\ session'[c].task = session[c].task
        /\ \A x \in Callers \ {c} : session'[x] = session[x]
    BY <1>0, <2>1 DEF Session
  <2>5. /\ written' \in [Connections -> [Tasks -> Status \cup {Nothing}]]
        /\ \A j \in Connections, t \in Tasks :
             written'[j][t] = IF j = k THEN Nothing ELSE written[j][t]
    BY <1>0, <2>1 DEF Clean
  <2>6. TurnsTaken'
    BY <1>0, <2>4 DEF TurnsTaken
  \* A caller between its check and its UPDATE, or with an UPDATE on another
  \* connection, is alone with its task: this commit does not move it.
  <2>7. ASSUME NEW x \in Callers, x # c, session[x].task \in Tasks,
               session[x].pc = "flush"
        PROVE  db'[session[x].task] = db[session[x].task]
    <3>1. \A y \in Callers : session[y].task = session[x].task => session[y].pc # "commit"
      BY <1>0, <2>7 DEF TurnsTaken
    <3>2. written[k][session[x].task] = Nothing
      BY <2>1, <2>7, <3>1, NothingWritten
    <3>3. QED
      BY <2>2, <2>7, <3>2
  <2>8. CheckHolds'
    BY <1>0, <2>4, <2>7 DEF CheckHolds
  <2>9. WritesOwned'
    <3> SUFFICES ASSUME NEW j \in Connections, NEW t \in Tasks, written'[j][t] # Nothing
                 PROVE  \E x \in Callers :
                          /\ session'[x].pc = "commit" /\ session'[x].task = t
                          /\ ConnOf[x] = j
                          /\ written'[j][t] = session'[x].to
                          /\ CanMove(db'[t], session'[x].to)
      BY DEF WritesOwned
    <3>1. j # k /\ written'[j][t] = written[j][t]
      BY <2>5
    <3>2. PICK x \in Callers : /\ session[x].pc = "commit" /\ session[x].task = t
                               /\ ConnOf[x] = j
                               /\ written[j][t] = session[x].to
                               /\ CanMove(db[t], session[x].to)
      BY <1>0, <3>1 DEF WritesOwned
    <3>3. written[k][t] = Nothing
      BY <1>0, <2>1, <3>1, <3>2 DEF WritesOwned, TurnsTaken
    <3>4. QED
      BY <2>1, <2>2, <2>4, <3>1, <3>2, <3>3
  <2>10. QED
    BY <1>0, <2>2, <2>3, <2>4, <2>5, <2>6, <2>8, <2>9 DEF StoreInv, StoreTypeOK
<1>4. ASSUME NEW c \in Callers, Refresh(c)
      PROVE  Good
  <2>1. /\ session[c].pc = "refresh" /\ UNCHANGED <<db, written>>
        /\ session' \in [Callers -> Session] /\ session'[c].pc = "close"
        /\ session'[c].task = session[c].task
        /\ \A x \in Callers \ {c} : session'[x] = session[x]
    BY <1>0, <1>4 DEF Refresh, Session
  <2>2. WritesOwned'
    BY <1>0, <2>1, WritesKept
  <2>3. QED
    BY <1>0, <2>1, <2>2 DEF StoreInv, StoreTypeOK, TurnsTaken, CheckHolds
<1>5. ASSUME NEW c \in Callers, Read(c)
      PROVE  Good
  <2>1. /\ session[c].pc = "closed" /\ UNCHANGED <<db, written>>
        /\ session' \in [Callers -> Session] /\ session'[c].pc = "close"
        /\ session'[c].task = session[c].task
        /\ \A x \in Callers \ {c} : session'[x] = session[x]
    BY <1>0, <1>5 DEF Read, Session
  <2>2. WritesOwned'
    BY <1>0, <2>1, WritesKept
  <2>3. QED
    BY <1>0, <2>1, <2>2 DEF StoreInv, StoreTypeOK, TurnsTaken, CheckHolds
<1>6. ASSUME NEW c \in Callers, Close(c)
      PROVE  Good
  <2> DEFINE k == ConnOf[c]
  <2>1. /\ session[c].pc = "close" /\ UNCHANGED db /\ k \in Connections
        /\ written' = [written EXCEPT ![k] = Clean]
        /\ session' = [session EXCEPT ![c] = Closed]
    BY <1>0, <1>6 DEF Close
  <2>2. /\ session' \in [Callers -> Session] /\ session'[c].pc = "closed"
        /\ session'[c].task = Nothing
        /\ \A x \in Callers \ {c} : session'[x] = session[x]
    BY <1>0, <2>1 DEF Session, Closed
  <2>3. /\ written' \in [Connections -> [Tasks -> Status \cup {Nothing}]]
        /\ \A j \in Connections, t \in Tasks :
             written'[j][t] = IF j = k THEN Nothing ELSE written[j][t]
    BY <1>0, <2>1 DEF Clean
  <2>4. TurnsTaken' /\ CheckHolds'
    BY <1>0, <2>1, <2>2 DEF TurnsTaken, CheckHolds
  <2>5. WritesOwned'
    BY <1>0, <2>1, <2>2, <2>3, WritesKept
  <2>6. QED
    BY <1>0, <2>1, <2>2, <2>3, <2>4, <2>5 DEF StoreInv, StoreTypeOK
<1>7. CASE UNCHANGED storeVars
  BY <1>0, <1>7 DEF storeVars, StoreInv, StoreTypeOK, TurnsTaken, CheckHolds, WritesOwned
<1>8. QED
  BY <1>1, <1>2, <1>3, <1>4, <1>5, <1>6, <1>7 DEF StoreNext

\* What is committed for a task only changes along an edge of TRANSITIONS when
\* the callers of transition take turns on a task, on one connection or many.
THEOREM EnforcedWhenSerial ==
    ASSUME OneCallPerTask
    PROVE  StoreSpec => Enforced
<1>1. StoreInit => StoreInv
  BY StoreInitInv
<1>2. StoreInv /\ [StoreNext]_storeVars =>
        StoreInv' /\ [\A t \in Tasks : db'[t] # db[t] => CanMove(db[t], db'[t])]_storeVars
  BY StoreNextInv
<1>3. QED
  BY <1>1, <1>2, PTL DEF StoreSpec, Enforced

-----------------------------------------------------------------------------
\* Without turns: what a session has under way, and what the transaction of a
\* caller alone on its connection holds.
Alone(c) == \A d \in Callers \ {c} : ConnOf[d] # ConnOf[c]

MovesFull ==
    \A c \in Callers :
        session[c].pc \in {"flush", "commit"} =>
            session[c].task \in Tasks /\ session[c].to \in Status

LoneWrites ==
    \A c \in Callers :
        Alone(c) /\ session[c].pc = "commit" =>
            written[ConnOf[c]][session[c].task] = session[c].to

LoneInv == StoreTypeOK /\ MovesFull /\ LoneWrites

\* A step of c that gives it session s and writes on its own connection only.
LEMMA LoneStep ==
    ASSUME LoneInv, NEW c \in Callers, NEW s \in Session,
           session' = [session EXCEPT ![c] = s],
           s.pc \in {"flush", "commit"} => s.task \in Tasks /\ s.to \in Status,
           s.pc = "commit" => written'[ConnOf[c]][s.task] = s.to,
           db' \in [Tasks -> Status],
           written' \in [Connections -> [Tasks -> Status \cup {Nothing}]],
           \A k \in Connections \ {ConnOf[c]} : written'[k] = written[k]
    PROVE  LoneInv'
<1>1. /\ session' \in [Callers -> Session] /\ session'[c] = s
      /\ \A x \in Callers \ {c} : session'[x] = session[x]
  BY DEF LoneInv, StoreTypeOK
<1>2. StoreTypeOK' /\ MovesFull'
  BY <1>1 DEF LoneInv, StoreTypeOK, MovesFull
<1>3. ASSUME NEW x \in Callers, x # c, Alone(x), session'[x].pc = "commit"
      PROVE  written'[ConnOf[x]][session'[x].task] = session'[x].to
  <2>1. ConnOf[x] \in Connections \ {ConnOf[c]}
    BY <1>3, StoreAssumption DEF Alone
  <2>2. QED
    BY <1>1, <1>3, <2>1 DEF LoneInv, LoneWrites
<1>4. LoneWrites'
  BY <1>1, <1>3 DEF LoneWrites, Alone
<1>5. QED
  BY <1>2, <1>4 DEF LoneInv

LEMMA LoneInit == StoreInit => LoneInv
<1> SUFFICES ASSUME StoreInit PROVE LoneInv
  OBVIOUS
<1>1. StoreTypeOK
  BY DEF StoreInit, StoreTypeOK, Status, Session, Closed, Clean
<1>2. MovesFull /\ LoneWrites
  BY DEF StoreInit, MovesFull, LoneWrites, Closed
<1>3. QED
  BY <1>1, <1>2 DEF LoneInv

LEMMA LoneNext ==
    ASSUME LoneInv, [StoreNext]_storeVars
    PROVE  LoneInv' /\ \A c \in Callers : Alone(c) => MoveOf(c)
<1> DEFINE Kept == \A c \in Callers : Alone(c) => MoveOf(c)
<1>0. /\ db \in [Tasks -> Status]
      /\ written \in [Connections -> [Tasks -> Status \cup {Nothing}]]
      /\ session \in [Callers -> Session]
      /\ MovesFull /\ LoneWrites
      /\ ConnOf \in [Callers -> Connections] /\ Nothing \notin Status /\ Nothing \notin Tasks
  BY StoreAssumption DEF LoneInv, StoreTypeOK
<1> DEFINE Moved(c, p) == [session[c] EXCEPT !.pc = p]
<1>a. ASSUME NEW c \in Callers,
             NEW p \in {"closed", "flush", "commit", "refresh", "close"}
      PROVE  /\ Moved(c, p) \in Session /\ Moved(c, p).pc = p
             /\ Moved(c, p).task = session[c].task /\ Moved(c, p).to = session[c].to
  BY <1>0 DEF Session
<1>b. ASSUME NEW c \in Callers, NEW p \in {"closed", "flush", "commit", "refresh", "close"},
             session' = [session EXCEPT ![c].pc = p]
      PROVE  session' = [session EXCEPT ![c] = Moved(c, p)]
  BY <1>0, <1>b
<1> HIDE DEF Moved
<1>1. ASSUME NEW c \in Callers, NEW t \in Tasks, NEW to \in Status, Get(c, t, to)
      PROVE  LoneInv' /\ Kept
  <2> DEFINE pc == IF CanMove(Selected(ConnOf[c], t), to) THEN "flush" ELSE "close"
             s == [pc |-> pc, task |-> t, to |-> to]
  <2>1. /\ session' = [session EXCEPT ![c] = s] /\ UNCHANGED <<db, written>>
        /\ session[c].pc = "closed"
    BY <1>1 DEF Get
  <2>2. pc \in {"flush", "close"}
    OBVIOUS
  <2>3. s \in Session /\ s.pc = pc /\ s.task = t /\ s.to = to
    BY <2>2 DEF Session
  <2> HIDE DEF pc, s
  <2>4. LoneInv'
    BY <1>0, <2>1, <2>2, <2>3, LoneStep
  <2>5. Kept
    BY <1>0, <2>1, <2>2, <2>3 DEF MoveOf
  <2>6. QED
    BY <2>4, <2>5
<1>2. ASSUME NEW c \in Callers, Flush(c)
      PROVE  LoneInv' /\ Kept
  <2> DEFINE t == session[c].task
             k == ConnOf[c]
  <2>1. /\ session[c].pc = "flush" /\ UNCHANGED db
        /\ written' = [written EXCEPT ![k][t] = session[c].to]
        /\ session' = [session EXCEPT ![c] = Moved(c, "commit")]
    BY <1>2, <1>b DEF Flush
  <2>2. t \in Tasks /\ session[c].to \in Status /\ k \in Connections
    BY <1>0, <2>1 DEF MovesFull
  <2>3. /\ written' \in [Connections -> [Tasks -> Status \cup {Nothing}]]
        /\ written'[k][t] = session[c].to
        /\ \A j \in Connections \ {k} : written'[j] = written[j]
    BY <1>0, <2>1, <2>2
  <2>4. LoneInv'
    BY <1>0, <1>a, <2>1, <2>2, <2>3, LoneStep
  <2>5. Kept
    BY <1>0, <1>a, <2>1 DEF MoveOf
  <2>6. QED
    BY <2>4, <2>5
<1>3. ASSUME NEW c \in Callers, Commit(c)
      PROVE  LoneInv' /\ Kept
  <2> DEFINE k == ConnOf[c]
  <2>1. /\ session[c].pc = "commit" /\ db' = [t \in Tasks |-> Selected(k, t)]
        /\ written' = [written EXCEPT ![k] = Clean]
        /\ session' = [session EXCEPT ![c] = Moved(c, "refresh")] /\ k \in Connections
    BY <1>0, <1>3, <1>b DEF Commit
  <2>2. db' \in [Tasks -> Status]
    BY <1>0, <2>1 DEF Selected
  <2>3. /\ written' \in [Connections -> [Tasks -> Status \cup {Nothing}]]
        /\ \A j \in Connections \ {k} : written'[j] = written[j]
    BY <1>0, <2>1 DEF Clean
  <2>4. LoneInv'
    BY <1>0, <1>a, <2>1, <2>2, <2>3, LoneStep
  \* The one that gets past its COMMIT is c, and it commits what it has written.
  <2>5. ASSUME NEW x \in Callers, Alone(x),
               session[x].pc = "commit", session'[x].pc = "refresh"
        PROVE  db'[session[x].task] = session[x].to
    <3>1. x = c
      BY <1>0, <2>1, <2>5
    <3>2. /\ session[c].task \in Tasks /\ session[c].to \in Status
          /\ written[k][session[c].task] = session[c].to
      BY <1>0, <2>1, <2>5, <3>1 DEF MovesFull, LoneWrites
    <3>3. QED
      BY <1>0, <2>1, <3>1, <3>2 DEF Selected
  <2>6. Kept
    BY <2>5 DEF MoveOf
  <2>7. QED
    BY <2>4, <2>6
<1>4. ASSUME NEW c \in Callers, Refresh(c) \/ Read(c)
      PROVE  LoneInv' /\ Kept
  <2>1. /\ session[c].pc \in {"refresh", "closed"} /\ UNCHANGED <<db, written>>
        /\ session' = [session EXCEPT ![c] = Moved(c, "close")]
    BY <1>4, <1>b DEF Refresh, Read
  <2>2. LoneInv'
    BY <1>0, <1>a, <2>1, LoneStep
  <2>3. Kept
    BY <1>0, <1>a, <2>1 DEF MoveOf
  <2>4. QED
    BY <2>2, <2>3
<1>5. ASSUME NEW c \in Callers, Close(c)
      PROVE  LoneInv' /\ Kept
  <2> DEFINE k == ConnOf[c]
  <2>1. /\ session[c].pc = "close" /\ UNCHANGED db /\ k \in Connections
        /\ written' = [written EXCEPT ![k] = Clean]
        /\ session' = [session EXCEPT ![c] = Closed]
    BY <1>0, <1>5 DEF Close
  <2>2. Closed \in Session /\ Closed.pc = "closed"
    BY DEF Session, Closed
  <2>3. /\ written' \in [Connections -> [Tasks -> Status \cup {Nothing}]]
        /\ \A j \in Connections \ {k} : written'[j] = written[j]
    BY <1>0, <2>1 DEF Clean
  <2>4. LoneInv'
    BY <1>0, <2>1, <2>2, <2>3, LoneStep
  <2>5. Kept
    BY <1>0, <2>1, <2>2 DEF MoveOf
  <2>6. QED
    BY <2>4, <2>5
<1>6. CASE UNCHANGED storeVars
  BY <1>0, <1>6 DEF storeVars, LoneInv, StoreTypeOK, MovesFull, LoneWrites, MoveOf
<1>7. QED
  BY <1>1, <1>2, <1>3, <1>4, <1>5, <1>6 DEF StoreNext

\* The committed statuses, the open transactions and the sessions keep their
\* shape, also for callers that overlap on a task.
THEOREM StoreTypeCorrect == StoreSpec => []StoreTypeOK
<1>1. StoreInit => LoneInv
  BY LoneInit
<1>2. LoneInv /\ [StoreNext]_storeVars => LoneInv'
  BY LoneNext
<1>3. LoneInv => StoreTypeOK
  BY DEF LoneInv
<1>4. QED
  BY <1>1, <1>2, <1>3, PTL DEF StoreSpec

\* A transition whose connection nobody shares has moved its task when it gets
\* past its COMMIT, whatever the other connections commit and roll back.
THEOREM LoneMoveKeptCorrect == StoreSpec => LoneMoveKept
<1>1. StoreInit => LoneInv
  BY LoneInit
<1>2. LoneInv /\ [StoreNext]_storeVars =>
        LoneInv' /\ [\A c \in Callers :
            (\A d \in Callers \ {c} : ConnOf[d] # ConnOf[c]) => MoveOf(c)]_storeVars
  BY LoneNext DEF Alone
<1>3. QED
  BY <1>1, <1>2, PTL DEF StoreSpec, LoneMoveKept

=============================================================================
