---------------------------- MODULE ServiceProofs ----------------------------
(***************************************************************************)
(* What the small services around the engine keep, for any number of       *)
(* writes, calls, trainings, steps, rows and nodes of a graph: the task    *)
(* store, the client of a remote agent, the projection of a collection,    *)
(* the agent loop, the import of a CSV file and the layout of a diagram.   *)
(* Each section has its inductive invariant, one lemma per action that     *)
(* disturbs it, and the theorem.                                           *)
(***************************************************************************)
EXTENDS TaskStore, AgentRemote, Projection, AgentLoop, CsvIndex, RenderLayout,
        SequenceTheorems, FiniteSetTheorems, WellFoundedInduction, NaturalsInduction, TLAPS

(***************************************************************************)
(* The task store                                                          *)
(***************************************************************************)
Labels == {"idle", "spawned", "opening", "script", "tables", "insert", "commit",
           "done", "failed", "skipped", "lost"}

StoreTypeOK ==
  /\ backend \in {"memory", "file", "postgres"}
  /\ conn \in Writes \cup {Nil}
  /\ dead \subseteq Writes
  /\ write \in [Writes -> Labels]
  /\ using \in [Writes -> Writes \cup {Nil}]
  /\ rows \subseteq Writes \X (Writes \cup {Nil})
  /\ pending \subseteq Writes \X (Writes \cup {Nil})
  /\ closing \in {"no", "flush", "close", "closed"}
  /\ awaited \subseteq Writes /\ owed \subseteq Writes
  /\ undone \subseteq Writes
  /\ raced \in BOOLEAN

\* Until close() takes the connection no write is lost: one that has opened a connection
\* finds one, and keeps it.  What close() owes, it waits for, and what has ended stays as it is.
WriteInv ==
  /\ closing \in {"no", "flush"} =>
       /\ dead = {}
       /\ \A w \in Writes : write[w] \in {"script", "tables"} => conn # Nil
       /\ \A w \in Writes : write[w] # "lost"
  /\ \A w \in Writes : write[w] \in {"insert", "commit"} => using[w] # Nil
  /\ closing # "no" => awaited = owed
  /\ closing = "close" => dead # {}
  /\ closing \in {"close", "closed"} => \A w \in owed : w \in Ended /\ write[w] # "lost"

\* A row is in the transaction until somebody commits it or an error rolls it back.
RowOf(w) ==
  /\ write[w] = "commit" =>
       <<w, using[w]>> \in pending \cup rows \/ w \in undone \/ using[w] \in dead
  /\ write[w] = "done" => w \in undone \/ \E r \in rows : r[1] = w
RowInv == \A w \in Writes : RowOf(w)

\* Without a race there is one connection: it is being opened by one write, which
\* found none, or everybody uses it.
ConnInv ==
  backend = "memory" /\ ~raced /\ dead = {} =>
    /\ \A v, w \in Opening : v = w
    /\ Opening # {} => conn = Nil
    /\ \A w \in Writes : write[w] \in {"script", "tables"} => conn # Nil
    /\ \A w \in Writes : write[w] \in {"insert", "commit"} => using[w] = conn /\ conn # Nil
    /\ \A r \in rows \cup pending : r[2] = conn /\ conn # Nil

TaskStoreInv == StoreTypeOK /\ WriteInv /\ RowInv /\ ConnInv

\* What one write does to the transaction loses no row of another one's.
LEMMA TransactionKeeps ==
  ASSUME StoreTypeOK, RowInv, NEW c \in Writes \cup {Nil}, NEW w \in Writes, NEW l \in Labels,
         At(w, l), \A v \in Writes : v # w => using'[v] = using[v], dead \subseteq dead',
         \/ Committed(c) \/ Raise(w, c) \/ UNCHANGED <<rows, pending, undone>>
         \/ pending' = pending \cup {<<w, c>>} /\ UNCHANGED <<rows, undone>>
         \/ rows' = rows \cup {<<w, c>>} /\ UNCHANGED <<pending, undone>>
  PROVE  /\ \A v \in Writes \ {w} : RowOf(v)'
         /\ rows' \subseteq rows \cup pending \cup {<<w, c>>}
         /\ pending' \subseteq pending \cup {<<w, c>>}
         /\ undone' \subseteq Writes
         /\ write' \in [Writes -> Labels]
<1>. USE DEF StoreTypeOK, InTransaction
<1>1. /\ rows' \subseteq rows \cup pending \cup {<<w, c>>}
      /\ pending' \subseteq pending \cup {<<w, c>>}
      /\ rows \subseteq rows' /\ undone \subseteq undone' /\ undone' \subseteq Writes
      /\ \A p \in pending : p \in pending' \cup rows' \/ p[1] \in undone'
  BY DEF Committed, Raise
<1>2. \A v \in Writes \ {w} : write'[v] = write[v]
  BY DEF At
<1>3. ASSUME NEW v \in Writes \ {w}, write'[v] = "commit"
      PROVE  <<v, using'[v]>> \in pending' \cup rows' \/ v \in undone' \/ using'[v] \in dead'
  <2>1. write[v] = "commit" /\ using'[v] = using[v]
    BY <1>2, <1>3
  <2>2. <<v, using[v]>> \in pending \cup rows \/ v \in undone \/ using[v] \in dead
    BY <2>1 DEF RowInv, RowOf
  <2>3. <<v, using[v]>>[1] = v
    OBVIOUS
  <2>4. QED
    BY <1>1, <2>1, <2>2, <2>3
<1>4. ASSUME NEW v \in Writes \ {w}, write'[v] = "done"
      PROVE  v \in undone' \/ \E r \in rows' : r[1] = v
  BY <1>1, <1>2, <1>4 DEF RowInv, RowOf
<1>5. QED
  BY <1>1, <1>3, <1>4 DEF RowOf, At

\* A write's steps: what has ended stays as it is, every row is accounted for, and without a
\* race there is one connection.
LEMMA WriteStepKeeps ==
  ASSUME TaskStoreInv, NEW w \in Writes,
         \/ Log(w) \/ Connect(w) \/ Opened(w) \/ Scripted(w) \/ Created(w)
         \/ Insert(w) \/ CommitWrite(w) \/ AddTask(w)
  PROVE  TaskStoreInv'
<1>. USE StoreAssumption DEF TaskStoreInv, StoreTypeOK
<1>1. UNCHANGED <<backend, dead, closing, awaited, owed>>
  BY DEF Log, Connect, Opened, Scripted, Created, Insert, CommitWrite, AddTask
<1>2. \A v \in Writes : v # w => write'[v] = write[v] /\ using'[v] = using[v]
  BY DEF Log, Connect, Opened, Scripted, Created, Insert, CommitWrite, AddTask, At, Raise
<1>3. CASE Log(w)
  <2>1. /\ write[w] = "idle" /\ write' = [write EXCEPT ![w] = "spawned"]
        /\ UNCHANGED <<conn, using, rows, pending, undone, raced>>
    BY <1>3 DEF Log, At
  <2>2. StoreTypeOK'
    BY <1>1, <2>1 DEF Labels
  <2>3. WriteInv' /\ RowInv'
    BY <1>1, <2>1 DEF WriteInv, RowInv, RowOf, Ended
  <2>4. ConnInv'
    BY <1>1, <2>1 DEF ConnInv, Opening
  <2>5. QED
    BY <2>2, <2>3, <2>4
<1>4. CASE Connect(w)
  <2>1. /\ write[w] = "spawned"
        /\ UNCHANGED <<conn, rows, pending, undone>>
        /\ \/ /\ conn = Nil /\ write' = [write EXCEPT ![w] = "opening"]
              /\ (raced' <=> (raced \/ Opening # {})) /\ using' = using
           \/ /\ conn # Nil /\ write' = [write EXCEPT ![w] = "insert"]
              /\ using' = [using EXCEPT ![w] = conn] /\ raced' = raced
    BY <1>4 DEF Connect, At
  <2>2. raced' \in BOOLEAN
    BY <1>4 DEF Connect
  <2>3. StoreTypeOK'
    BY <1>1, <2>1, <2>2 DEF Labels
  <2>4. WriteInv' /\ RowInv'
    BY <1>1, <2>1 DEF WriteInv, RowInv, RowOf, Ended
  <2>5. ConnInv'
    BY <1>1, <2>1 DEF ConnInv, Opening
  <2>6. QED
    BY <2>3, <2>4, <2>5
<1>5. CASE Opened(w)
  <2>1. /\ write[w] = "opening" /\ UNCHANGED <<using, rows, pending, undone, raced>>
        /\ \/ conn' = w /\ write' = [write EXCEPT ![w] = "script"]
           \/ conn' = conn /\ write' = [write EXCEPT ![w] = "failed"]
    BY <1>5 DEF Opened, At
  <2>2. StoreTypeOK'
    BY <1>1, <2>1 DEF Labels
  <2>3. WriteInv' /\ RowInv'
    BY <1>1, <2>1 DEF WriteInv, RowInv, RowOf, Ended
  <2>4. ConnInv'
    BY <1>1, <2>1 DEF ConnInv, Opening
  <2>5. QED
    BY <2>2, <2>3, <2>4
<1>6. CASE Scripted(w)
  <2>1. /\ write[w] = "script" /\ UNCHANGED <<conn, using, raced>>
        /\ \/ At(w, "failed") /\ UNCHANGED <<rows, pending, undone>>
           \/ conn \in dead \cup {Nil} /\ At(w, "lost") /\ UNCHANGED <<rows, pending, undone>>
           \/ At(w, "tables") /\ Committed(conn)
           \/ At(w, "failed") /\ Raise(w, conn)
    BY <1>6 DEF Scripted, Raise
  <2>2. PICK l \in {"failed", "lost", "tables"} :
          /\ At(w, l) /\ (l = "lost" => conn \in dead \cup {Nil})
          /\ Committed(conn) \/ Raise(w, conn) \/ UNCHANGED <<rows, pending, undone>>
    BY <2>1
  <2>3. /\ \A v \in Writes \ {w} : RowOf(v)'
        /\ undone' \subseteq Writes /\ write' \in [Writes -> Labels]
    <3>1. l \in Labels
      BY DEF Labels
    <3>2. QED
      BY <1>1, <1>2, <2>2, <3>1, TransactionKeeps
  <2>4. rows' \subseteq rows \cup pending /\ pending' \subseteq pending
    BY <2>2 DEF Committed, Raise, InTransaction
  <2>5. write'[w] = l
    BY <2>2 DEF At
  <2>6. StoreTypeOK'
    BY <1>1, <2>1, <2>3, <2>4
  <2>7. RowInv'
    BY <2>3, <2>5 DEF RowInv, RowOf
  <2>8. WriteInv'
    BY <1>1, <1>2, <2>1, <2>2, <2>5 DEF WriteInv, Ended
  <2>9. ConnInv'
    BY <1>1, <1>2, <2>1, <2>4, <2>5 DEF ConnInv, Opening
  <2>10. QED
    BY <2>6, <2>7, <2>8, <2>9
<1>7. CASE Created(w)
  <2>1. /\ write[w] = "tables" /\ using' = [using EXCEPT ![w] = conn]
        /\ write' = [write EXCEPT ![w] = IF conn = Nil THEN "lost" ELSE "insert"]
        /\ UNCHANGED <<conn, rows, pending, undone, raced>>
    BY <1>7 DEF Created, At
  <2>2. StoreTypeOK'
    BY <1>1, <2>1 DEF Labels
  <2>3. WriteInv' /\ RowInv'
    BY <1>1, <2>1 DEF WriteInv, RowInv, RowOf, Ended
  <2>4. ConnInv'
    BY <1>1, <2>1 DEF ConnInv, Opening
  <2>5. QED
    BY <2>2, <2>3, <2>4
<1>8. CASE Insert(w)
  <2>. DEFINE c == using[w]
  <2>1. /\ write[w] = "insert" /\ UNCHANGED <<conn, using, raced>>
        /\ \/ c \in dead /\ At(w, "lost") /\ UNCHANGED <<rows, pending, undone>>
           \/ /\ At(w, "commit") /\ pending' = pending \cup {<<w, c>>}
              /\ UNCHANGED <<rows, undone>>
           \/ At(w, "failed") /\ Raise(w, c)
    BY <1>8 DEF Insert, Raise
  <2>2. c \in Writes \cup {Nil}
    OBVIOUS
  <2>3. PICK l \in {"failed", "lost", "commit"} :
          /\ At(w, l) /\ (l = "lost" => c \in dead)
          /\ (l = "commit" => <<w, c>> \in pending')
          /\ \/ Raise(w, c) \/ UNCHANGED <<rows, pending, undone>>
             \/ pending' = pending \cup {<<w, c>>} /\ UNCHANGED <<rows, undone>>
    BY <2>1
  <2>. HIDE DEF c
  <2>4. /\ \A v \in Writes \ {w} : RowOf(v)'
        /\ undone' \subseteq Writes /\ write' \in [Writes -> Labels]
    <3>1. l \in Labels
      BY DEF Labels
    <3>2. QED
      BY <1>1, <1>2, <2>2, <2>3, <3>1, TransactionKeeps
  <2>5. rows' = rows /\ pending' \subseteq pending \cup {<<w, c>>}
    BY <2>3 DEF Raise, InTransaction
  <2>6. write'[w] = l
    BY <2>3 DEF At
  <2>7. StoreTypeOK'
    BY <1>1, <2>1, <2>2, <2>4, <2>5
  <2>8. RowInv'
    BY <2>1, <2>3, <2>4, <2>6 DEF RowInv, RowOf, c
  <2>9. WriteInv'
    BY <1>1, <1>2, <2>1, <2>3, <2>6 DEF WriteInv, Ended
  <2>10. ConnInv'
    <3>1. <<w, c>>[2] = c /\ (ConnInv => ConnInv')
      BY <1>1, <1>2, <2>1, <2>5, <2>6 DEF ConnInv, Opening, c
    <3>2. QED
      BY <3>1
  <2>11. QED
    BY <2>7, <2>8, <2>9, <2>10
<1>9. CASE CommitWrite(w)
  <2>. DEFINE c == using[w]
  <2>1. /\ write[w] = "commit" /\ UNCHANGED <<conn, using, raced>>
        /\ \/ c \in dead /\ At(w, "lost") /\ UNCHANGED <<rows, pending, undone>>
           \/ c \notin dead /\ At(w, "done") /\ Committed(c)
           \/ At(w, "failed") /\ Raise(w, c)
    BY <1>9 DEF CommitWrite, Raise
  <2>2. c \in Writes \cup {Nil}
    OBVIOUS
  <2>3. PICK l \in {"failed", "lost", "done"} :
          /\ At(w, l) /\ (l = "lost" => c \in dead)
          /\ (l = "done" => c \notin dead /\ Committed(c))
          /\ Committed(c) \/ Raise(w, c) \/ UNCHANGED <<rows, pending, undone>>
    BY <2>1
  <2>4. <<w, c>> \in pending \cup rows \/ w \in undone \/ c \in dead
    BY <2>1 DEF RowInv, RowOf
  <2>5. ASSUME l = "done" PROVE w \in undone' \/ \E r \in rows' : r[1] = w
    <3>1. <<w, c>>[1] = w /\ <<w, c>>[2] = c
      OBVIOUS
    <3>2. <<w, c>> \in rows' \/ w \in undone'
      BY <2>3, <2>4, <2>5, <3>1 DEF Committed, InTransaction
    <3>3. QED
      BY <3>1, <3>2
  <2>. HIDE DEF c
  <2>6. /\ \A v \in Writes \ {w} : RowOf(v)'
        /\ undone' \subseteq Writes /\ write' \in [Writes -> Labels]
    <3>1. l \in Labels
      BY DEF Labels
    <3>2. QED
      BY <1>1, <1>2, <2>2, <2>3, <3>1, TransactionKeeps
  <2>7. rows' \subseteq rows \cup pending /\ pending' \subseteq pending
    BY <2>3 DEF Committed, Raise, InTransaction
  <2>8. write'[w] = l
    BY <2>3 DEF At
  <2>9. StoreTypeOK'
    BY <1>1, <2>1, <2>6, <2>7
  <2>10. RowInv'
    BY <2>3, <2>5, <2>6, <2>8 DEF RowInv, RowOf
  <2>11. WriteInv'
    BY <1>1, <1>2, <2>1, <2>3, <2>8 DEF WriteInv, Ended
  <2>12. ConnInv'
    BY <1>1, <1>2, <2>1, <2>7, <2>8 DEF ConnInv, Opening
  <2>13. QED
    BY <2>9, <2>10, <2>11, <2>12
<1>10. CASE AddTask(w)
  <2>1. /\ write[w] = "spawned" /\ backend = "postgres"
        /\ UNCHANGED <<conn, using, pending, undone, raced>>
        /\ \/ write' = [write EXCEPT ![w] = "done"] /\ rows' = rows \cup {<<w, Nil>>}
           \/ write' = [write EXCEPT ![w] = "skipped"] /\ rows' = rows
           \/ write' = [write EXCEPT ![w] = "failed"] /\ rows' = rows
    BY <1>10 DEF AddTask, At
  <2>2. StoreTypeOK'
    BY <1>1, <2>1 DEF Labels
  <2>3. WriteInv'
    BY <1>1, <2>1 DEF WriteInv, Ended
  <2>4. RowInv'
    <3>1. write'[w] = "done" => \E r \in rows' : r[1] = w
      <4>1. <<w, Nil>>[1] = w
        OBVIOUS
      <4>2. write'[w] = "done" => <<w, Nil>> \in rows'
        BY <2>1
      <4>3. QED
        BY <4>1, <4>2
    <3>2. write'[w] # "commit" /\ rows \subseteq rows'
      BY <2>1
    <3>3. QED
      BY <1>1, <1>2, <2>1, <3>1, <3>2 DEF RowInv, RowOf
  <2>5. ConnInv'
    BY <1>1, <2>1 DEF ConnInv
  <2>6. QED
    BY <2>2, <2>3, <2>4, <2>5
<1>11. QED
  BY <1>3, <1>4, <1>5, <1>6, <1>7, <1>8, <1>9, <1>10

\* The steps of close().
LEMMA CloseStepKeeps ==
  ASSUME TaskStoreInv, Flush \/ CloseConnection \/ Forgotten \/ UNCHANGED storeVars
  PROVE  TaskStoreInv'
<1>. USE StoreAssumption DEF TaskStoreInv, StoreTypeOK
<1>1. CASE Flush
  BY <1>1 DEF Flush, Gathered, Background, Ended, WriteInv, RowInv, RowOf, ConnInv, Opening
<1>2. CASE CloseConnection
  <2>1. /\ closing = "flush" /\ awaited \subseteq Ended
        /\ closing' = IF conn = Nil THEN "closed" ELSE "close"
        /\ dead' = dead \cup ({conn} \ {Nil})
        /\ pending' = pending \ InTransaction(conn)
        /\ UNCHANGED <<backend, conn, write, using, rows, awaited, owed, undone, raced>>
    BY <1>2 DEF CloseConnection
  <2>2. StoreTypeOK'
    BY <2>1 DEF InTransaction
  <2>3. \A w \in owed : w \in Ended /\ write[w] # "lost"
    BY <2>1 DEF WriteInv
  <2>4. WriteInv'
    BY <2>1, <2>3 DEF WriteInv, Ended
  <2>5. ASSUME NEW w \in Writes, write[w] = "commit"
        PROVE  <<w, using[w]>> \in pending' \cup rows \/ w \in undone \/ using[w] \in dead'
    <3>1. <<w, using[w]>> \in pending \cup rows \/ w \in undone \/ using[w] \in dead
      BY <2>5 DEF RowInv, RowOf
    <3>2. <<w, using[w]>>[2] = using[w]
      OBVIOUS
    <3>3. using[w] = conn /\ conn # Nil => using[w] \in dead'
      BY <2>1
    <3>4. <<w, using[w]>> \in pending /\ using[w] # conn => <<w, using[w]>> \in pending'
      BY <2>1, <3>2 DEF InTransaction
    <3>5. using[w] # Nil
      BY <2>5 DEF WriteInv
    <3>6. QED
      BY <2>1, <3>1, <3>3, <3>4, <3>5
  <2>6. RowInv'
    BY <2>1, <2>5 DEF RowInv, RowOf
  <2>7. ConnInv'
    BY <2>1 DEF ConnInv, Opening
  <2>8. QED
    BY <2>2, <2>4, <2>6, <2>7
<1>3. CASE Forgotten
  <2>1. /\ closing = "close" /\ conn' = Nil /\ closing' = "closed"
        /\ UNCHANGED <<backend, dead, write, using, rows, pending, awaited, owed, undone, raced>>
    BY <1>3 DEF Forgotten
  <2>2. StoreTypeOK' /\ WriteInv' /\ RowInv'
    BY <2>1 DEF WriteInv, RowInv, RowOf, Ended
  <2>3. ConnInv'
    BY <2>1 DEF ConnInv, WriteInv
  <2>4. QED
    BY <2>2, <2>3
<1>4. CASE UNCHANGED storeVars
  BY <1>4 DEF storeVars, WriteInv, RowInv, RowOf, ConnInv, Ended, Opening
<1>5. QED
  BY <1>1, <1>2, <1>3, <1>4

\* When close() takes the connection every write logged before it has ended, none because of
\* the close, and one that ended without an error has its row, unless an error of
\* another write rolled it back; the rows of a private database are of the logger's
\* connection. For any number of writes, and errors at any await.
THEOREM FlushedKept == StoreSpec => []FlushedWritesAreKept
<1>1. StoreInit => TaskStoreInv
  <2>. SUFFICES ASSUME StoreInit PROVE TaskStoreInv
    OBVIOUS
  <2>1. QED
    BY DEF StoreInit, TaskStoreInv, StoreTypeOK, WriteInv, RowInv, RowOf, ConnInv, Labels, Opening
<1>2. TaskStoreInv /\ [StoreNext]_storeVars => TaskStoreInv'
  BY WriteStepKeeps, CloseStepKeeps DEF StoreNext
<1>3. TaskStoreInv => FlushedWritesAreKept
  BY DEF TaskStoreInv, StoreTypeOK, WriteInv, RowInv, RowOf, ConnInv, FlushedWritesAreKept
<1>4. QED
  BY <1>1, <1>2, <1>3, PTL DEF StoreSpec

(***************************************************************************)
(* The client's conversation                                               *)
(***************************************************************************)
RemoteTypeOK ==
  /\ sid \in ClientCalls \cup {NoSession}
  /\ schemas \in BOOLEAN
  /\ rpc \in [ClientCalls -> {"idle", "discover", "sent", "abandoned", "done", "failed"}]
  /\ given \in [ClientCalls -> ExternalKeys \cup {NoSession}]
  /\ sent \in [ClientCalls -> ClientCalls \cup {NoSession}]
  /\ served \in [ClientCalls -> ClientCalls \cup {NoSession}]
  /\ external \in [ExternalKeys -> ClientCalls \cup {NoSession}]
  /\ answered \subseteq ClientCalls
  /\ lateFor \in [ClientCalls -> SUBSET ClientCalls]

\* The client names the session of an answered call as soon as there is one, also when
\* later calls fail; a payload that was built after an answer names such a session,
\* and the server goes on with it.
SessionInv ==
  /\ \A d \in answered : served[d] # NoSession
  /\ answered # {} => \E d \in answered : sid = served[d]
  /\ \A c \in ClientCalls :
       /\ lateFor[c] \subseteq answered
       /\ rpc[c] \in {"idle", "discover"} => served[c] = NoSession
       /\ lateFor[c] # {} => \E d \in lateFor[c] : sent[c] = served[d]
       /\ lateFor[c] # {} /\ served[c] # NoSession => served[c] = sent[c]

RemoteInv == RemoteTypeOK /\ SessionInv

\* A call that builds its payload.
LEMMA SendKeeps ==
  ASSUME RemoteInv, NEW c \in ClientCalls, rpc[c] \in {"idle", "discover"}, Send(c),
         schemas' \in BOOLEAN, UNCHANGED <<sid, given, served, external, answered>>
  PROVE  RemoteInv'
<1>. USE RemoteAssumption DEF RemoteInv, RemoteTypeOK
<1>1. /\ sent' = [sent EXCEPT ![c] = sid] /\ lateFor' = [lateFor EXCEPT ![c] = answered]
      /\ rpc' = [rpc EXCEPT ![c] = "sent"]
  BY DEF Send, Move
<1>2. RemoteTypeOK'
  BY <1>1
<1>3. SessionInv'
  BY <1>1 DEF SessionInv
<1>4. QED
  BY <1>2, <1>3

\* The server runs a call: it continues the session of the payload.
LEMMA RunKeeps ==
  ASSUME RemoteInv, NEW c \in ClientCalls, RunAgent(c)
  PROVE  RemoteInv'
<1>. USE RemoteAssumption DEF RemoteInv, RemoteTypeOK
<1>1. PICK s \in ClientCalls :
        /\ served' = [served EXCEPT ![c] = s]
        /\ sent[c] # NoSession => s = sent[c]
        /\ external' \in [ExternalKeys -> ClientCalls \cup {NoSession}]
  <2>. DEFINE k == given[c]
              found == IF sent[c] # NoSession THEN sent[c]
                       ELSE IF k # NoSession THEN external[k] ELSE NoSession
              new == IF found = NoSession THEN c ELSE found
  <2>1. /\ served' = [served EXCEPT ![c] = new]
        /\ external' = IF found = NoSession /\ k # NoSession
                       THEN [external EXCEPT ![k] = new] ELSE external
    BY DEF RunAgent
  <2>2. k \in ExternalKeys \cup {NoSession} /\ found \in ClientCalls \cup {NoSession}
    OBVIOUS
  <2>3. new \in ClientCalls /\ (sent[c] # NoSession => new = sent[c])
    BY <2>2
  <2>. HIDE DEF found, new, k
  <2>4. external' \in [ExternalKeys -> ClientCalls \cup {NoSession}]
    BY <2>1, <2>2, <2>3
  <2>5. QED
    BY <2>1, <2>3, <2>4
<1>2. /\ UNCHANGED <<sid, schemas, rpc, given, sent, answered, lateFor>>
      /\ rpc[c] \in {"sent", "abandoned"} /\ served[c] = NoSession
  BY DEF RunAgent
<1>3. RemoteTypeOK'
  BY <1>1, <1>2
<1>4. c \notin answered /\ \A d \in answered : served'[d] = served[d]
  BY <1>1, <1>2 DEF SessionInv
<1>5. SessionInv'
  <2>1. ASSUME NEW b \in ClientCalls, lateFor[b] # {}
        PROVE  \E d \in lateFor[b] : sent[b] = served'[d] /\ sent[b] # NoSession
    BY <1>4, <2>1 DEF SessionInv
  <2>2. ASSUME NEW b \in ClientCalls, lateFor[b] # {}, served'[b] # NoSession
        PROVE  served'[b] = sent[b]
    BY <1>1, <2>1, <2>2 DEF SessionInv
  <2>3. QED
    BY <1>1, <1>2, <1>4, <2>1, <2>2 DEF SessionInv
<1>6. QED
  BY <1>3, <1>5

\* An answer, an error or a timeout.
LEMMA EndKeeps ==
  ASSUME RemoteInv, NEW c \in ClientCalls, Receive(c) \/ ErrorStatus(c) \/ Abandon(c)
  PROVE  RemoteInv'
<1>. USE RemoteAssumption DEF RemoteInv, RemoteTypeOK
<1>1. UNCHANGED <<schemas, given, sent, served, external, lateFor>>
  BY DEF Receive, ErrorStatus, Abandon
<1>2. \E l \in {"done", "failed", "abandoned"} : rpc' = [rpc EXCEPT ![c] = l]
  BY DEF Receive, ErrorStatus, Abandon, Move
<1>3. \/ sid' = sid /\ answered' = answered
      \/ sid' = served[c] /\ served[c] # NoSession /\ answered' = answered \cup {c}
  BY DEF Receive, ErrorStatus, Abandon, KeepOnError
<1>4. RemoteTypeOK'
  BY <1>1, <1>2, <1>3
<1>5. \A b \in ClientCalls : rpc'[b] \in {"idle", "discover"} => rpc[b] \in {"idle", "discover"}
  BY <1>2
<1>6. SessionInv'
  BY <1>1, <1>3, <1>5 DEF SessionInv
<1>7. QED
  BY <1>4, <1>6

\* Once an answer has arrived a call opens no session: it continues an answered one's,
\* for any number of overlapping calls and external ids.
THEOREM ClientContinues == RemoteSpec => []ConversationContinues
<1>1. RemoteInit => RemoteInv
  BY DEF RemoteInit, RemoteInv, RemoteTypeOK, SessionInv
<1>2. RemoteInv /\ [RemoteNext]_remoteVars => RemoteInv'
  <2>. SUFFICES ASSUME RemoteInv, [RemoteNext]_remoteVars PROVE RemoteInv'
    OBVIOUS
  <2>1. ASSUME NEW c \in ClientCalls, Begin(c) PROVE RemoteInv'
    <3>1. CASE schemas
      BY <2>1, <3>1, SendKeeps DEF Begin, RemoteInv, RemoteTypeOK
    <3>2. CASE ~schemas
      BY <2>1, <3>2 DEF Begin, Move, RemoteInv, RemoteTypeOK, SessionInv
    <3>3. QED
      BY <3>1, <3>2
  <2>2. ASSUME NEW c \in ClientCalls, DiscoverSchemas(c) PROVE RemoteInv'
    BY <2>2, SendKeeps DEF DiscoverSchemas
  <2>3. CASE UNCHANGED remoteVars
    BY <2>3 DEF remoteVars, RemoteInv, RemoteTypeOK, SessionInv
  <2>4. QED
    BY <2>1, <2>2, <2>3, RunKeeps, EndKeeps DEF RemoteNext
<1>3. RemoteInv => ConversationContinues
  BY DEF RemoteInv, SessionInv, ConversationContinues
<1>4. QED
  BY <1>1, <1>2, <1>3, PTL DEF RemoteSpec

(***************************************************************************)
(* The projection of a collection                                          *)
(***************************************************************************)
ProjTypeOK ==
  /\ models \in [Trainings -> Trainings \cup {Empty}]
  /\ samples \in [Trainings -> Trainings \cup {Empty}]
  /\ projectGone \in BOOLEAN
  /\ train \in [Trainings -> {"idle", "fit", "model", "flush", "sample", "commit", "done",
                              "failed"}]
  /\ plan \in [Trainings -> [model : Trainings \cup {Empty}, sample : Trainings \cup {Empty}]]
  /\ view \in [Queries -> [at : {"idle", "samples", "answered", "noview", "failed"},
                           model : Trainings \cup {Empty}, sample : Trainings \cup {Empty}]]
  /\ twoFirst \in BOOLEAN
  /\ since \in [Queries -> SUBSET Trainings]

\* Both tables are written together; unless two first trainings overlapped each has one
\* row at most, and they are of one training.
PairInv ==
  /\ (RowsOf(models) = {}) <=> (RowsOf(samples) = {})
  /\ ~twoFirst =>
       /\ \A r, s \in RowsOf(models) : r = s
       /\ \A r, s \in RowsOf(samples) : r = s
       /\ \A r \in RowsOf(models), s \in RowsOf(samples) : models[r] = samples[s]

\* A training adds its own row or found one that is still there; it finds the sample of
\* a model it found.
PlanInv ==
  \A t \in Trainings :
    /\ train[t] # "done" => t \notin RowsOf(models) /\ t \notin RowsOf(samples)
    /\ ~projectGone /\ train[t] \in {"flush", "sample", "commit"} =>
         plan[t].model \in RowsOf(models) \cup {t}
    /\ ~projectGone /\ train[t] = "commit" =>
         /\ plan[t].sample \in RowsOf(samples) \cup {t}
         /\ plan[t].model \in RowsOf(models) => plan[t].sample \in RowsOf(samples)
    /\ train[t] \in {"sample", "commit"} => ~projectGone

Excused(q) == twoFirst \/ since[q] # {} \/ projectGone

\* What a query has read is what is there, unless it is excused.
ViewInv ==
  \A q \in Queries :
    /\ view[q].at = "samples" =>
         Excused(q) \/ \E r \in RowsOf(models) : view[q].model = models[r]
    /\ view[q].at = "answered" /\ view[q].sample # view[q].model => Excused(q)

ProjInv == ProjTypeOK /\ PairInv /\ PlanInv /\ ViewInv

\* A training that commits nothing, and adds or finds rows.
LEMMA TrainingMoves ==
  ASSUME ProjInv, NEW t \in Trainings,
         NEW l \in {"fit", "model", "flush", "sample", "commit", "failed"},
         train[t] # "done", train' = [train EXCEPT ![t] = l],
         plan' \in [Trainings -> [model : Trainings \cup {Empty}, sample : Trainings \cup {Empty}]],
         \A u \in Trainings : u # t => plan'[u] = plan[u],
         UNCHANGED <<models, samples, projectGone, view, twoFirst, since>>,
         ~projectGone /\ l \in {"flush", "sample", "commit"} =>
           plan'[t].model \in RowsOf(models) \cup {t},
         l = "commit" =>
           /\ plan'[t].sample \in RowsOf(samples) \cup {t}
           /\ plan'[t].model \in RowsOf(models) => plan'[t].sample \in RowsOf(samples),
         l \in {"sample", "commit"} => ~projectGone
  PROVE  ProjInv'
<1>. USE DEF ProjInv, ProjTypeOK
<1>1. RowsOf(models)' = RowsOf(models) /\ RowsOf(samples)' = RowsOf(samples)
  BY DEF RowsOf
<1>2. ProjTypeOK'
  OBVIOUS
<1>3. PairInv' /\ ViewInv'
  BY <1>1 DEF PairInv, ViewInv, Excused
<1>4. PlanInv'
  BY <1>1 DEF PlanInv
<1>5. QED
  BY <1>2, <1>3, <1>4

\* Looking for the model or the sample row, and inserting or updating it.
LEMMA SelectKeeps ==
  ASSUME ProjInv, NEW t \in Trainings,
         \/ TrainPca(t) \/ ComputePca(t) \/ SelectModel(t) \/ FlushModel(t) \/ SelectSample(t)
         \/ TrainingFails(t)
  PROVE  ProjInv'
<1>. USE DEF ProjInv, ProjTypeOK, ToTraining
<1>1. \A r \in RowsOf(models) \cup RowsOf(samples) : r \in Trainings
  BY DEF RowsOf
<1>2. OneOrNone(models, t) \in RowsOf(models) \cup {t}
  BY DEF OneOrNone
<1>3. OneOrNone(samples, t) \in RowsOf(samples) \cup {t}
      /\ (RowsOf(samples) # {} => OneOrNone(samples, t) \in RowsOf(samples))
  BY DEF OneOrNone
<1>4. CASE TrainPca(t)
  <2>1. train[t] = "idle" /\ \E l \in {"fit", "failed"} : train' = [train EXCEPT ![t] = l]
    BY <1>4 DEF TrainPca
  <2>2. UNCHANGED <<models, samples, projectGone, plan, view, twoFirst, since>>
    BY <1>4 DEF TrainPca
  <2>3. QED
    BY <2>1, <2>2, TrainingMoves
<1>5. CASE ComputePca(t)
  <2>1. train[t] = "fit" /\ \E l \in {"model", "failed"} : train' = [train EXCEPT ![t] = l]
    BY <1>5 DEF ComputePca
  <2>2. UNCHANGED <<models, samples, projectGone, plan, view, twoFirst, since>>
    BY <1>5 DEF ComputePca
  <2>3. QED
    BY <2>1, <2>2, TrainingMoves
<1>6. CASE TrainingFails(t)
  <2>1. train[t] \in {"model", "flush", "sample", "commit"}
        /\ train' = [train EXCEPT ![t] = "failed"]
    BY <1>6 DEF TrainingFails
  <2>2. UNCHANGED <<models, samples, projectGone, plan, view, twoFirst, since>>
    BY <1>6 DEF TrainingFails
  <2>3. QED
    BY <2>1, <2>2, TrainingMoves
<1>7. CASE FlushModel(t)
  <2>1. /\ train[t] = "flush"
        /\ train' = [train EXCEPT ![t] = IF projectGone THEN "failed" ELSE "sample"]
        /\ UNCHANGED <<models, samples, projectGone, plan, view, twoFirst, since>>
    BY <1>7 DEF FlushModel
  <2>2. ~projectGone => plan[t].model \in RowsOf(models) \cup {t}
    BY <2>1 DEF PlanInv
  <2>3. CASE projectGone
    BY <2>1, <2>3, TrainingMoves
  <2>4. CASE ~projectGone
    BY <2>1, <2>2, <2>4, TrainingMoves
  <2>5. QED
    BY <2>3, <2>4
<1>8. CASE SelectModel(t)
  <2>1. train[t] = "model" /\ UNCHANGED <<models, samples, projectGone, view, twoFirst, since>>
    BY <1>8 DEF SelectModel
  <2>2. CASE train' = [train EXCEPT ![t] = "failed"] /\ plan' = plan
    BY <2>1, <2>2, TrainingMoves
  <2>3. CASE /\ plan' = [plan EXCEPT ![t].model = OneOrNone(models, t)]
             /\ train' = [train EXCEPT ![t] = "flush"]
    <3>1. OneOrNone(models, t) \in Trainings
      BY <1>1, <1>2
    <3>2. plan' \in [Trainings -> [model : Trainings \cup {Empty}, sample : Trainings \cup {Empty}]]
          /\ plan'[t].model = OneOrNone(models, t)
          /\ \A u \in Trainings : u # t => plan'[u] = plan[u]
      BY <2>3, <3>1
    <3>3. QED
      <4>1. plan'[t].model \in RowsOf(models) \cup {t} /\ train[t] # "done"
        BY <1>2, <2>1, <3>2
      <4>2. train' = [train EXCEPT ![t] = "flush"]
        BY <2>3
      <4>. HIDE DEF ProjInv, ProjTypeOK
      <4>3. QED
        BY <2>1, <3>2, <4>1, <4>2, TrainingMoves
  <2>4. QED
    BY <1>8, <2>2, <2>3 DEF SelectModel
<1>9. CASE SelectSample(t)
  <2>1. train[t] = "sample" /\ UNCHANGED <<models, samples, projectGone, view, twoFirst, since>>
    BY <1>9 DEF SelectSample
  <2>2. CASE train' = [train EXCEPT ![t] = "failed"] /\ plan' = plan
    BY <2>1, <2>2, TrainingMoves
  <2>3. CASE /\ plan' = [plan EXCEPT ![t].sample = OneOrNone(samples, t)]
             /\ train' = [train EXCEPT ![t] = "commit"]
    <3>1. OneOrNone(samples, t) \in Trainings
      BY <1>1, <1>3
    <3>2. plan' \in [Trainings -> [model : Trainings \cup {Empty}, sample : Trainings \cup {Empty}]]
          /\ plan'[t].sample = OneOrNone(samples, t) /\ plan'[t].model = plan[t].model
          /\ \A u \in Trainings : u # t => plan'[u] = plan[u]
      BY <2>3, <3>1
    <3>3. ~projectGone /\ plan[t].model \in RowsOf(models) \cup {t}
      BY <2>1 DEF PlanInv
    <3>4. plan[t].model \in RowsOf(models) => RowsOf(samples) # {}
      BY DEF PairInv
    <3>5. QED
      BY <1>3, <2>1, <2>3, <3>2, <3>3, <3>4, TrainingMoves
  <2>4. QED
    BY <1>9, <2>2, <2>3 DEF SelectSample
<1>10. QED
  BY <1>4, <1>5, <1>6, <1>7, <1>8, <1>9

\* A training commits its model and its samples.
LEMMA CommitKeeps ==
  ASSUME ProjInv, NEW t \in Trainings, CommitBoth(t)
  PROVE  ProjInv'
<1>. USE ProjectionAssumption DEF ProjInv, ProjTypeOK, ToTraining
<1>. DEFINE m == plan[t].model
            s == plan[t].sample
<1>1. train[t] = "commit" /\ ~projectGone
  BY DEF CommitBoth, PlanInv
<1>2. /\ models' = [models EXCEPT ![m] = t]
      /\ samples' = [samples EXCEPT ![s] = t]
      /\ twoFirst' <=> (twoFirst \/ RowsOf(models) \ {m} # {})
      /\ since' = [q \in Queries |-> IF view[q].at = "samples" THEN since[q] \cup {t} ELSE since[q]]
      /\ train' = [train EXCEPT ![t] = "done"]
      /\ UNCHANGED <<projectGone, plan, view>>
  BY <1>1 DEF CommitBoth, NewSamples
<1>3. twoFirst' \in BOOLEAN
  BY <1>1 DEF CommitBoth
<1>4. /\ m \in RowsOf(models) \cup {t} /\ s \in RowsOf(samples) \cup {t}
      /\ m \in RowsOf(models) => s \in RowsOf(samples)
      /\ t \notin RowsOf(models) /\ t \notin RowsOf(samples)
  BY <1>1 DEF PlanInv
<1>5. m \in Trainings /\ s \in Trainings /\ t # Empty
  BY <1>4 DEF RowsOf
<1>. HIDE DEF m, s
<1>6. RowsOf(models)' = RowsOf(models) \cup {m} /\ RowsOf(samples)' = RowsOf(samples) \cup {s}
  BY <1>2, <1>5 DEF RowsOf
<1>7. ProjTypeOK'
  BY <1>2, <1>3, <1>5
\* Without two first trainings the rows written are the only ones.
<1>8. ASSUME ~twoFirst'
      PROVE  RowsOf(models)' = {m} /\ RowsOf(samples)' = {s}
  <2>1. ~twoFirst /\ RowsOf(models) \subseteq {m}
    BY <1>2, <1>8
  <2>2. RowsOf(samples) \subseteq {s}
    <3>1. CASE m \in RowsOf(models)
      BY <1>4, <2>1, <3>1 DEF PairInv
    <3>2. CASE m \notin RowsOf(models)
      BY <2>1, <3>2 DEF PairInv
    <3>3. QED
      BY <3>1, <3>2
  <2>3. QED
    BY <1>6, <2>1, <2>2
<1>9. PairInv'
  <2>1. (RowsOf(models) = {})' <=> (RowsOf(samples) = {})'
    BY <1>6
  <2>2. models'[m] = t /\ samples'[s] = t
    BY <1>2, <1>5
  <2>3. QED
    BY <1>8, <2>1, <2>2 DEF PairInv
<1>10. PlanInv'
  <2>1. ASSUME NEW u \in Trainings, train'[u] # "done"
        PROVE  u \notin RowsOf(models)' /\ u \notin RowsOf(samples)'
    <3>1. u # t /\ train[u] # "done"
      BY <1>2, <2>1
    <3>2. u \notin RowsOf(models) /\ u \notin RowsOf(samples)
      BY <3>1 DEF PlanInv
    <3>3. QED
      BY <1>4, <1>6, <3>1, <3>2
  <2>2. ASSUME NEW u \in Trainings, train'[u] \in {"flush", "sample", "commit"}
        PROVE  u # t /\ train'[u] = train[u]
    BY <1>2, <2>2
  <2>3. ASSUME NEW u \in Trainings, train'[u] = "commit"
        PROVE  /\ plan[u].sample \in RowsOf(samples) \cup {u}
               /\ plan[u].model \in RowsOf(models)' => plan[u].sample \in RowsOf(samples)'
    <3>1. u # t /\ train[u] = "commit" /\ u \notin RowsOf(models)
          /\ plan[u].model \in RowsOf(models) \cup {u}
      BY <1>1, <2>2, <2>3 DEF PlanInv
    <3>2. plan[u].model \in RowsOf(models)' => plan[u].model \in RowsOf(models)
      BY <1>4, <1>6, <3>1
    <3>3. QED
      BY <1>1, <1>6, <3>1, <3>2 DEF PlanInv
  <2>4. QED
    BY <1>1, <1>2, <1>6, <2>1, <2>2, <2>3 DEF PlanInv
<1>11. ViewInv'
  <2>1. \A q \in Queries : Excused(q) => Excused(q)'
    BY <1>2 DEF Excused
  <2>2. \A q \in Queries : view[q].at = "samples" => Excused(q)'
    BY <1>2 DEF Excused
  <2>3. QED
    BY <1>2, <2>1, <2>2 DEF ViewInv
<1>12. QED
  BY <1>7, <1>9, <1>10, <1>11

\* The project goes, with its rows.
LEMMA DropKeeps ==
  ASSUME ProjInv, DropProject
  PROVE  ProjInv'
<1>1. RowsOf(models)' = {} /\ RowsOf(samples)' = {}
  BY DEF DropProject, RowsOf
<1>2. QED
  BY <1>1 DEF DropProject, ProjInv, ProjTypeOK, PairInv, PlanInv, ViewInv, Excused

\* A query reads the model, then the samples.
LEMMA QueryKeeps ==
  ASSUME ProjInv, NEW q \in Queries, QueryModel(q) \/ QuerySamples(q)
  PROVE  ProjInv'
<1>. USE ProjectionAssumption DEF ProjInv, ProjTypeOK
<1>1. UNCHANGED <<models, samples, projectGone, train, plan, twoFirst>>
  BY DEF QueryModel, QuerySamples
<1>2. RowsOf(models)' = RowsOf(models) /\ RowsOf(samples)' = RowsOf(samples)
  BY <1>1 DEF RowsOf
<1>3. PairInv' /\ PlanInv'
  BY <1>1, <1>2 DEF PairInv, PlanInv
<1>4. Only(models) \in Trainings \cup {Empty} /\ Only(samples) \in Trainings \cup {Empty}
  BY DEF Only, RowsOf
<1>5. \A p \in Queries : p # q => view'[p] = view[p] /\ since'[p] = since[p]
  BY DEF QueryModel, QuerySamples
<1>6. CASE QueryModel(q)
  <2>. DEFINE n == Cardinality(RowsOf(models))
              new == [at |-> CASE n > 1 -> "failed" [] n = 0 -> "noview" [] OTHER -> "samples",
                      model |-> IF n = 1 THEN Only(models) ELSE Empty,
                      sample |-> Empty]
  <2>1. view' = [view EXCEPT ![q] = new] /\ since' = [since EXCEPT ![q] = {}]
    BY <1>6 DEF QueryModel
  <2>. HIDE DEF n
  <2>2. /\ new.at \in {"failed", "noview", "samples"} /\ new.sample = Empty
        /\ new.at = "samples" => n # 0
        /\ new.model = IF n = 1 THEN Only(models) ELSE Empty
        /\ new \in [at : {"idle", "samples", "answered", "noview", "failed"},
                    model : Trainings \cup {Empty}, sample : Trainings \cup {Empty}]
    BY <1>4
  <2>. HIDE DEF new
  <2>3. ProjTypeOK'
    BY <1>1, <2>1, <2>2
  <2>4. ASSUME new.at = "samples", ~twoFirst
        PROVE  \E r \in RowsOf(models) : new.model = models[r]
    <3>1. PICK r \in RowsOf(models) : TRUE
      BY <2>2, <2>4, FS_EmptySet DEF n
    <3>2. RowsOf(models) = {r}
      BY <2>4, <3>1 DEF PairInv
    <3>3. n = 1 /\ Only(models) = models[r]
      BY <3>2, FS_Singleton DEF n, Only
    <3>4. QED
      BY <2>2, <3>1, <3>3
  <2>5. view'[q] = new
    BY <2>1
  <2>6. \A p \in Queries : p # q => (Excused(p)' <=> Excused(p))
    BY <1>1, <1>5 DEF Excused
  <2>7. ~twoFirst \/ Excused(q)'
    BY <1>1 DEF Excused
  <2>8. ViewInv'
    BY <1>1, <1>2, <1>5, <2>2, <2>4, <2>5, <2>6, <2>7 DEF ViewInv
  <2>9. QED
    BY <1>3, <2>3, <2>8
<1>7. CASE QuerySamples(q)
  <2>1. /\ view[q].at = "samples" /\ since' = since
        /\ \/ view' = [view EXCEPT ![q].at = "answered", ![q].sample = Only(samples)]
           \/ view' = [view EXCEPT ![q].at = "noview"]
    BY <1>7 DEF QuerySamples
  <2>2. ProjTypeOK'
    BY <1>1, <1>4, <2>1
  <2>3. \A p \in Queries : Excused(p)' <=> Excused(p)
    BY <1>1, <2>1 DEF Excused
  <2>4. view'[q].at # "samples" /\ view'[q].model = view[q].model
        /\ (view'[q].at = "answered" => view'[q].sample = Only(samples))
    BY <2>1
  <2>5. ASSUME ~Excused(q) PROVE view[q].model = Only(samples)
    <3>1. PICK r \in RowsOf(models) : view[q].model = models[r]
      BY <2>1, <2>5 DEF ViewInv
    <3>2. ~twoFirst /\ RowsOf(samples) # {}
      BY <2>5, <3>1 DEF PairInv, Excused
    <3>3. (CHOOSE s \in RowsOf(samples) : TRUE) \in RowsOf(samples)
      BY <3>2
    <3>4. QED
      BY <3>1, <3>2, <3>3 DEF PairInv, Only
  <2>6. ViewInv'
    BY <1>1, <1>2, <1>5, <2>3, <2>4, <2>5 DEF ViewInv
  <2>7. QED
    BY <1>3, <2>2, <2>6
<1>8. QED
  BY <1>6, <1>7

\* The model and the samples are of one training, and a query places both with one
\* model, for any number of overlapping, failing and repeated trainings.
THEOREM ProjectionConsistent == ProjSpec => []ProjectionIsOfOneTraining
<1>1. ProjInit => ProjInv
  <2>. SUFFICES ASSUME ProjInit PROVE ProjInv
    OBVIOUS
  <2>1. RowsOf(models) = {} /\ RowsOf(samples) = {}
    BY DEF ProjInit, RowsOf
  <2>2. QED
    BY <2>1 DEF ProjInit, ProjInv, ProjTypeOK, PairInv, PlanInv, ViewInv
<1>2. ProjInv /\ [ProjNext]_projVars => ProjInv'
  <2>. SUFFICES ASSUME ProjInv, UNCHANGED projVars PROVE ProjInv'
    BY SelectKeeps, CommitKeeps, DropKeeps, QueryKeeps DEF ProjNext
  <2>1. RowsOf(models)' = RowsOf(models) /\ RowsOf(samples)' = RowsOf(samples)
    BY DEF projVars, RowsOf
  <2>2. QED
    BY <2>1 DEF projVars, ProjInv, ProjTypeOK, PairInv, PlanInv, ViewInv, Excused
<1>3. ProjInv => ProjectionIsOfOneTraining
  BY DEF ProjInv, PairInv, ViewInv, Excused, ProjectionIsOfOneTraining
<1>4. QED
  BY <1>1, <1>2, <1>3, PTL DEF ProjSpec

(***************************************************************************)
(* The agent loop                                                          *)
(***************************************************************************)
Calls == {[q EXCEPT !.id = k] : q \in Requests, k \in Int}
Batches == UNION {[1 .. n -> Calls] : n \in 0 .. MaxBatch}
Outcomes == Nat \X Nat \X {"ok", "error"}
ResultMaps == UNION {[D -> Outcomes] : D \in SUBSET (1 .. MaxBatch)}
Entries == [calls : Batches, results : ResultMaps, output : BOOLEAN]

\* A step of the record is a step that was taken; what a gather has read or returned is
\* of calls of its batch.
LoopTypeOK ==
  /\ phase \in {"setup", "render", "ask", "tools", "ended"}
  /\ step \in Nat
  /\ record \in Seq(Entries) /\ Len(record) = step
  /\ batch \in Batches
  /\ DOMAIN read \subseteq DOMAIN batch
  /\ result \in ResultMaps
  /\ output \in BOOLEAN

\* The planner context has every id that was used, with the result of the last call of
\* the latest step that used it.
ContextInv ==
  \A k :
    /\ k \in DOMAIN context <=> Uses(k) # {}
    /\ Uses(k) # {} =>
         /\ \E s \in Uses(k) : \A y \in Uses(k) : y <= s
         /\ context[k] = record[Latest(Uses(k))].results[LastCall(record[Latest(Uses(k))].calls, k)]

\* While a batch is gathered its calls have read the context of before it.
ReadInv ==
  phase = "tools" => \A i \in DOMAIN read : \A k \in DOMAIN read[i] : read[i][k] = Lookup(k)

Answers == {s \in DOMAIN record : record[s].output}

FinalInv ==
  IF Answers = {} THEN final = NoStep
  ELSE final + 1 \in Answers /\ \A s \in Answers : s <= final + 1

LoopInv == LoopTypeOK /\ ContextInv /\ ReadInv /\ FinalInv /\ final \in Int

\* A step that leaves the record and the context alone.
LEMMA SameRecordKeeps ==
  ASSUME LoopInv, UNCHANGED <<step, context, record, final>>, LoopTypeOK', ReadInv'
  PROVE  LoopInv'
<1>1. \A k : Uses(k)' = Uses(k)
  BY DEF Uses
<1>2. \A k : Latest(Uses(k))' = Latest(Uses(k))
  BY <1>1 DEF Latest
<1>3. ContextInv'
  <2>1. \A k : LastCall(record[Latest(Uses(k))].calls, k)' = LastCall(record[Latest(Uses(k))].calls, k)
    BY <1>2 DEF LastCall
  <2>2. QED
    BY <1>1, <1>2, <2>1 DEF LoopInv, ContextInv
<1>4. FinalInv' /\ final' \in Int
  BY DEF LoopInv, FinalInv, Answers
<1>5. QED
  BY <1>3, <1>4 DEF LoopInv

\* Registration, rendering the prompt, no answer, and the end of the steps.
LEMMA PhaseKeeps ==
  ASSUME LoopInv, RegisterAny \/ Prompt \/ Render \/ NoAnswer \/ OutOfSteps \/ UNCHANGED agentVars
  PROVE  LoopInv'
<1>1. UNCHANGED <<step, context, batch, read, result, record, output, final>>
  BY DEF RegisterAny, Prompt, Render, NoAnswer, OutOfSteps, agentVars
<1>2. phase' = phase \/ phase' \in {"render", "ask", "ended"}
  BY DEF RegisterAny, Prompt, Render, NoAnswer, OutOfSteps, agentVars
<1>3. LoopTypeOK'
  BY <1>1, <1>2 DEF LoopInv, LoopTypeOK
<1>4. ReadInv'
  BY <1>1, <1>2 DEF LoopInv, ReadInv, Lookup
<1>5. QED
  BY <1>1, <1>3, <1>4, SameRecordKeeps

\* The context is empty at first.
LEMMA NothingRead == DOMAIN NoFunction = {} /\ NoFunction \in ResultMaps
<1>1. DOMAIN NoFunction = {} /\ NoFunction \in [{} -> Outcomes]
  BY DEF NoFunction
<1>2. {} \in SUBSET (1 .. MaxBatch)
  OBVIOUS
<1> QED BY <1>1, <1>2 DEF ResultMaps

\* The model answers with a batch of calls.
LEMMA AnswerKeeps ==
  ASSUME LoopInv, Answer
  PROVE  LoopInv'
<1>1. /\ UNCHANGED <<step, context, record, final>>
      /\ phase' = "tools" /\ output' \in BOOLEAN
      /\ read' = NoFunction /\ result' = NoFunction
  BY DEF Answer
<1>2. batch' \in Batches
  <2>1. PICK calls \in StepOutputs : batch' = Named(calls)
    BY DEF Answer
  <2>2. PICK n \in 0 .. MaxBatch : calls \in [1 .. n -> Requests]
    BY <2>1 DEF StepOutputs
  <2>3. DOMAIN batch' = 1 .. n
    BY <2>1, <2>2 DEF Named
  <2>4. ASSUME NEW i \in 1 .. n PROVE batch'[i] \in Calls
    <3>1. calls[i] \in Requests
      BY <2>2, <2>4
    <3>. DEFINE k == IF calls[i].id = NoStep THEN AutoId(step, i) ELSE calls[i].id
    <3>2. batch'[i] = [calls[i] EXCEPT !.id = k]
      BY <2>1, <2>2, <2>4 DEF Named
    <3>3. AutoId(step, i) \in Int
      BY <2>4, AgentAssumption DEF AutoId, LoopInv, LoopTypeOK
    <3>4. calls[i].id \in Int
      <4>1. calls[i].id \in ModelIds \cup {-1}
        BY <3>1, AgentAssumption, Zenon
      <4>2. \A x \in ModelIds \cup {-1} : x \in Int
        BY AgentAssumption
      <4>3. QED
        BY <4>1, <4>2, Zenon
    <3>5. k \in Int
      BY <3>3, <3>4
    <3>6. QED
      BY <3>1, <3>2, <3>5 DEF Calls
  <2>5. batch' = [i \in 1 .. n |-> batch'[i]]
    BY <2>1, <2>2, <2>3 DEF Named
  <2>6. batch' \in [1 .. n -> Calls]
    BY <2>4, <2>5
  <2>7. QED
    BY <2>6 DEF Batches
<1>3. DOMAIN read' = {} /\ NoFunction \in ResultMaps
  BY <1>1, NothingRead
<1>4. LoopTypeOK'
  <2>1. step' \in Nat /\ record' \in Seq(Entries) /\ Len(record') = step'
    BY <1>1 DEF LoopInv, LoopTypeOK
  <2>2. phase' \in {"setup", "render", "ask", "tools", "ended"} /\ output' \in BOOLEAN
    BY <1>1
  <2>3. DOMAIN read' \subseteq DOMAIN batch' /\ result' \in ResultMaps
    BY <1>1, <1>3
  <2>4. QED
    BY <1>2, <2>1, <2>2, <2>3 DEF LoopTypeOK
<1>5. ReadInv'
  BY <1>3 DEF ReadInv
<1>6. QED
  BY <1>1, <1>4, <1>5, SameRecordKeeps

\* A call of the batch resolves its arguments.
LEMMA StartKeeps ==
  ASSUME LoopInv, StartTool
  PROVE  LoopInv'
<1>1. UNCHANGED <<phase, step, context, batch, result, record, output, final>>
  BY DEF StartTool
<1>2. PICK i \in DOMAIN batch :
        /\ DOMAIN read = 1 .. i - 1
        /\ read' = [j \in 1 .. i |-> IF j = i THEN [k \in batch[i].refs |-> Lookup(k)] ELSE read[j]]
  BY DEF StartTool
<1>3. i \in Nat /\ i >= 1 /\ 1 .. i \subseteq DOMAIN batch
  <2>1. PICK n \in 0 .. MaxBatch : DOMAIN batch = 1 .. n
    BY DEF LoopInv, LoopTypeOK, Batches
  <2>2. QED
    BY <1>2, <2>1, AgentAssumption
<1>4. LoopTypeOK'
  BY <1>1, <1>2, <1>3 DEF LoopInv, LoopTypeOK
<1>5. ASSUME phase = "tools", NEW j \in 1 .. i, NEW k \in DOMAIN read'[j]
      PROVE  read'[j][k] = Lookup(k)
  <2>1. CASE j = i
    BY <1>2, <1>5, <2>1
  <2>2. CASE j # i
    <3>1. j \in DOMAIN read /\ read'[j] = read[j]
      BY <1>2, <1>3, <1>5, <2>2
    <3>2. QED
      BY <1>5, <3>1 DEF LoopInv, ReadInv
  <2>3. QED
    BY <2>1, <2>2
<1>6. ReadInv'
  <2>1. \A k : Lookup(k)' = Lookup(k)
    BY <1>1 DEF Lookup
  <2>2. DOMAIN read' = 1 .. i
    BY <1>2
  <2>3. QED
    BY <1>1, <1>5, <2>1, <2>2 DEF ReadInv
<1>7. QED
  BY <1>1, <1>4, <1>6, SameRecordKeeps

\* A call returns; its result is kept for the gather alone.
LEMMA FinishKeeps ==
  ASSUME LoopInv, FinishTool
  PROVE  LoopInv'
<1>1. UNCHANGED <<phase, step, context, batch, read, record, output, final>>
  BY DEF FinishTool, KeepForGather
<1>2. PICK i \in DOMAIN read \ DOMAIN result :
        \E v \in {Failure(step, i)} \cup (IF CanSucceed(batch[i].tool) THEN {Success(step, i)} ELSE {}) :
          result' = [j \in DOMAIN result \cup {i} |-> IF j = i THEN v ELSE result[j]]
  BY Zenon DEF FinishTool
<1>v. PICK v \in {Failure(step, i), Success(step, i)} :
        result' = [j \in DOMAIN result \cup {i} |-> IF j = i THEN v ELSE result[j]]
  BY <1>2
<1>3. i \in 1 .. MaxBatch
  <2>1. PICK n \in 0 .. MaxBatch : DOMAIN batch = 1 .. n
    BY DEF LoopInv, LoopTypeOK, Batches
  <2>2. i \in 1 .. n
    BY <1>2, <2>1 DEF LoopInv, LoopTypeOK
  <2>3. QED
    BY <2>1, <2>2, AgentAssumption
<1>4. v \in Outcomes
  BY <1>3, <1>v, AgentAssumption DEF Failure, Success, Outcomes, LoopInv, LoopTypeOK
<1>5. PICK D \in SUBSET (1 .. MaxBatch) : result \in [D -> Outcomes]
  BY DEF LoopInv, LoopTypeOK, ResultMaps
<1>6. result' \in [D \cup {i} -> Outcomes]
  BY <1>4, <1>5, <1>v
<1>7. result' \in ResultMaps
  BY <1>3, <1>6 DEF ResultMaps
<1>8. LoopTypeOK' /\ ReadInv'
  BY <1>1, <1>7 DEF LoopInv, LoopTypeOK, ReadInv, Lookup
<1>9. QED
  BY <1>1, <1>8, SameRecordKeeps

\* The gather is over: the step is recorded and its results are stored.
LEMMA EndStepKeeps ==
  ASSUME LoopInv, EndStep
  PROVE  LoopInv'
<1>. DEFINE e == [calls |-> batch, results |-> result, output |-> output]
            ids == {batch[i].id : i \in DOMAIN batch}
<1>1. /\ phase' \in {"render", "ended"} /\ step' = step + 1
      /\ UNCHANGED <<batch, read, result, output>>
      /\ context' = [k \in DOMAIN context \cup ids |-> IF k \in ids THEN Stored(k) ELSE context[k]]
      /\ record' = Append(record, e)
      /\ final' = IF output THEN step ELSE final
  BY DEF EndStep, LatestOutput
<1>2. e \in Entries /\ e.calls = batch /\ e.results = result /\ e.output = output
  BY DEF LoopInv, LoopTypeOK, Entries
<1>. HIDE DEF e
<1>3. /\ record' \in Seq(Entries) /\ Len(record') = step + 1 /\ step \in Nat
      /\ DOMAIN record = 1 .. step /\ DOMAIN record' = 1 .. step + 1
      /\ \A s \in 1 .. step : record'[s] = record[s]
      /\ record'[step + 1] = e
  <2>1. record \in Seq(Entries) /\ Len(record) = step /\ step \in Nat
    BY DEF LoopInv, LoopTypeOK
  <2>2. record' \in Seq(Entries) /\ Len(record') = step + 1
        /\ (\A s \in 1 .. step : record'[s] = record[s]) /\ record'[step + 1] = e
    BY <1>1, <1>2, <2>1, AppendProperties
  <2>3. DOMAIN record = 1 .. step /\ DOMAIN record' = 1 .. step + 1
    BY <2>1, <2>2, LenProperties
  <2>4. QED
    BY <2>1, <2>2, <2>3
<1>4. LoopTypeOK'
  BY <1>1, <1>3 DEF LoopInv, LoopTypeOK
<1>5. ReadInv'
  BY <1>1 DEF ReadInv
<1>6. \A k : k \in ids => Uses(k)' = Uses(k) \cup {step + 1}
  BY <1>2, <1>3 DEF Uses
<1>7. \A k : k \notin ids => Uses(k)' = Uses(k)
  BY <1>2, <1>3 DEF Uses
<1>8. \A k : Uses(k) \subseteq 1 .. step
  BY <1>3 DEF Uses
<1>9. ASSUME NEW k, k \in ids
      PROVE  /\ k \in DOMAIN context' /\ Uses(k)' # {}
             /\ \E s \in Uses(k)' : \A y \in Uses(k)' : y <= s
             /\ context'[k] = record'[Latest(Uses(k))'].results[LastCall(record'[Latest(Uses(k))'].calls, k)]
  <2>1. step + 1 \in Uses(k)' /\ \A y \in Uses(k)' : y <= step + 1
    BY <1>3, <1>6, <1>8, <1>9
  <2>2. \A s \in Uses(k)' : (\A y \in Uses(k)' : y <= s) => s = step + 1
    BY <1>3, <1>6, <1>8, <1>9, <2>1
  <2>3. Latest(Uses(k))' = step + 1
    BY <2>1, <2>2 DEF Latest
  <2>4. context'[k] = result[LastCall(batch, k)]
    BY <1>1, <1>9 DEF Stored, LastCall
  <2>5. k \in DOMAIN context'
    BY <1>1, <1>9
  <2>6. QED
    BY <1>2, <1>3, <2>1, <2>3, <2>4, <2>5
<1>10. ASSUME NEW k, k \notin ids
       PROVE  /\ k \in DOMAIN context' <=> Uses(k)' # {}
              /\ Uses(k)' # {} =>
                   /\ \E s \in Uses(k)' : \A y \in Uses(k)' : y <= s
                   /\ context'[k] =
                        record'[Latest(Uses(k))'].results[LastCall(record'[Latest(Uses(k))'].calls, k)]
  <2>1. Uses(k)' = Uses(k) /\ (k \in DOMAIN context' <=> k \in DOMAIN context)
    BY <1>1, <1>7, <1>10
  <2>2. Latest(Uses(k))' = Latest(Uses(k))
    BY <2>1 DEF Latest
  <2>3. ASSUME Uses(k) # {}
        PROVE  /\ \E s \in Uses(k) : \A y \in Uses(k) : y <= s
               /\ context'[k] = context[k] /\ record'[Latest(Uses(k))] = record[Latest(Uses(k))]
    <3>1. k \in DOMAIN context /\ \E s \in Uses(k) : \A y \in Uses(k) : y <= s
      BY <2>3 DEF LoopInv, ContextInv
    <3>2. Latest(Uses(k)) \in Uses(k)
      BY <3>1 DEF Latest
    <3>3. QED
      BY <1>1, <1>3, <1>8, <1>10, <3>1, <3>2
  <2>4. QED
    BY <2>1, <2>2, <2>3 DEF LoopInv, ContextInv
<1>. HIDE DEF ids
<1>11. ContextInv'
  <2>1. \A k : LastCall(record[Latest(Uses(k))].calls, k)' = LastCall(record'[Latest(Uses(k))'].calls, k)
    BY DEF LastCall
  <2>2. QED
    BY <1>9, <1>10, <2>1 DEF ContextInv
<1>12. FinalInv' /\ final' \in Int
  <2>1. Answers' = Answers \cup (IF output THEN {step + 1} ELSE {}) /\ Answers \subseteq 1 .. step
    BY <1>2, <1>3 DEF Answers
  <2>2. CASE output
    <3>1. final' = step /\ Answers' = Answers \cup {step + 1}
      BY <1>1, <2>1, <2>2
    <3>2. step \in Nat /\ \A s \in 1 .. step : s <= step + 1
      BY <1>3
    <3>3. \A s \in Answers' : s <= step + 1
      BY <2>1, <3>1, <3>2
    <3>4. QED
      BY <3>1, <3>2, <3>3 DEF FinalInv
  <2>3. CASE ~output
    BY <1>1, <2>1, <2>3 DEF LoopInv, FinalInv
  <2>4. QED
    BY <2>2, <2>3
<1>13. QED
  BY <1>4, <1>5, <1>11, <1>12 DEF LoopInv

\* The inductive invariant of the loop.
THEOREM LoopInvariant == AgentSpec => []LoopInv
<1>1. AgentInit => LoopInv
  <2>. SUFFICES ASSUME AgentInit PROVE LoopInv
    OBVIOUS
  <2>1. record = <<>> /\ Len(record) = 0 /\ record \in Seq(Entries) /\ DOMAIN record = {}
    BY EmptySeq DEF AgentInit
  <2>2. <<>> \in Batches
    BY AgentAssumption DEF Batches
  <2>3. DOMAIN NoFunction = {} /\ NoFunction \in ResultMaps
    BY NothingRead
  <2>4. LoopTypeOK
    BY <2>1, <2>2, <2>3 DEF AgentInit, LoopTypeOK
  <2>5. \A k : Uses(k) = {}
    BY <2>1 DEF Uses
  <2>6. Answers = {} /\ final = NoStep /\ DOMAIN context = {}
    BY <2>1, <2>3 DEF Answers, AgentInit
  <2>7. QED
    BY <2>4, <2>5, <2>6 DEF LoopInv, ContextInv, ReadInv, FinalInv, NoStep, AgentInit
<1>2. LoopInv /\ [AgentNext]_agentVars => LoopInv'
  BY PhaseKeeps, AnswerKeeps, StartKeeps, FinishKeeps, EndStepKeeps DEF AgentNext
<1>3. QED
  BY <1>1, <1>2, PTL DEF AgentSpec

\* The calls of a step read what earlier steps returned, whatever order they end in.
THEOREM ReferencesEarlier == AgentSpec => []ReferencesReadEarlierSteps
<1>1. LoopInv => ReferencesReadEarlierSteps
  <2>. SUFFICES ASSUME LoopInv PROVE ReferencesReadEarlierSteps
    OBVIOUS
  <2>1. DOMAIN record = 1 .. step /\ step \in Nat
    BY LenProperties DEF LoopInv, LoopTypeOK
  <2>2. \A k : {s \in Uses(k) : s <= step} = Uses(k)
    BY <2>1 DEF Uses
  <2>3. ASSUME phase = "tools", NEW i \in DOMAIN read, NEW k \in DOMAIN read[i]
        PROVE  read[i][k] = IF Uses(k) = {} THEN Missing
                            ELSE record[Latest(Uses(k))].results[LastCall(record[Latest(Uses(k))].calls, k)]
    <3>1. read[i][k] = Lookup(k)
      BY <2>3 DEF LoopInv, ReadInv
    <3>2. QED
      BY <3>1 DEF LoopInv, ContextInv, Lookup
  <2>4. QED
    BY <2>2, <2>3 DEF ReferencesReadEarlierSteps
<1>2. QED
  BY <1>1, LoopInvariant, PTL

\* An agent that ends returns the output of the last step that had one.
THEOREM LatestAnswer == AgentSpec => []LatestAnswerIsReturned
<1>1. LoopInv => LatestAnswerIsReturned
  BY DEF LoopInv, FinalInv, Answers, LatestAnswerIsReturned
<1>2. QED
  BY <1>1, LoopInvariant, PTL

(***************************************************************************)
(* The import of a CSV file                                                *)
(***************************************************************************)
LEMMA Product ==
  ASSUME NEW B \in Nat, NEW m \in Nat, NEW n \in Nat, m <= n
  PROVE  B * m \in Nat /\ B * n \in Nat /\ B * m <= B * n
<1>1. B * (n - m) \in Nat
  OBVIOUS
<1>2. B * n = B * m + B * (n - m)
  OBVIOUS
<1>3. B * m \in Nat /\ B * n \in Nat
  OBVIOUS
<1> QED BY <1>1, <1>2, <1>3

\* Two starts of batches that are less than a batch apart are the same.
LEMMA SameStart ==
  ASSUME NEW B \in Nat \ {0}, NEW m \in Nat, NEW n \in Nat, B * m <= B * n, B * n < B * m + B
  PROVE  m = n
<1>1. CASE m < n
  <2>1. B * (m + 1) <= B * n
    BY <1>1, Product
  <2>2. B * (m + 1) = B * m + B
    OBVIOUS
  <2>3. B * m \in Nat /\ B * n \in Nat
    BY Product
  <2> QED BY <2>1, <2>2, <2>3
<1>2. CASE n < m
  <2>1. B * (n + 1) <= B * m
    BY <1>2, Product
  <2>2. B * (n + 1) = B * n + B
    OBVIOUS
  <2>3. B * m \in Nat /\ B * n \in Nat
    BY Product
  <2> QED BY <2>1, <2>2, <2>3
<1> QED BY <1>1, <1>2

\* Each row is of one batch.
LEMMA RowBatch ==
  ASSUME NEW j \in Nat \ {0}
  PROVE  \E d \in Nat : /\ FirstOf(j) = 1 + BatchSize * d
                        /\ FirstOf(j) <= j /\ j < FirstOf(j) + BatchSize
<1> DEFINE d == (j - 1) \div BatchSize
           r == (j - 1) % BatchSize
<1>1. BatchSize \in Nat /\ BatchSize > 0 /\ j - 1 \in Nat
  BY CsvAssumption
<1>2. d \in Nat /\ r \in 0 .. BatchSize - 1 /\ j - 1 = BatchSize * d + r
  BY <1>1
<1>3. FirstOf(j) = 1 + BatchSize * d
  BY DEF FirstOf
<1> HIDE DEF d, r
<1>4. BatchSize * d \in Nat
  BY <1>1, <1>2, Product
<1>5. FirstOf(j) <= j /\ j < FirstOf(j) + BatchSize
  BY <1>1, <1>2, <1>3, <1>4
<1> QED BY <1>2, <1>3, <1>5

\* The rows of the batch that begins at row 1 + BatchSize * q.
LEMMA BatchWindow ==
  ASSUME NEW j \in Nat \ {0}, NEW q \in Nat
  PROVE  /\ (1 + BatchSize * q <= j /\ j < 1 + BatchSize * q + BatchSize) <=> FirstOf(j) = 1 + BatchSize * q
         /\ (1 + BatchSize * q <= FirstOf(j) /\ FirstOf(j) < 1 + BatchSize * q + BatchSize)
              => FirstOf(j) = 1 + BatchSize * q
<1>1. PICK d \in Nat : FirstOf(j) = 1 + BatchSize * d /\ FirstOf(j) <= j /\ j < FirstOf(j) + BatchSize
  BY RowBatch
<1>2. BatchSize \in Nat \ {0} /\ BatchSize * d \in Nat /\ BatchSize * q \in Nat
  BY CsvAssumption, Product
<1>3. ASSUME 1 + BatchSize * q <= j, j < 1 + BatchSize * q + BatchSize PROVE FirstOf(j) = 1 + BatchSize * q
  <2>1. CASE d < q
    <3>1. BatchSize * (d + 1) <= BatchSize * q /\ BatchSize * (d + 1) = BatchSize * d + BatchSize
      BY <1>2, <2>1, Product
    <3> QED BY <1>1, <1>2, <1>3, <3>1
  <2>2. CASE q < d
    <3>1. BatchSize * (q + 1) <= BatchSize * d /\ BatchSize * (q + 1) = BatchSize * q + BatchSize
      BY <1>2, <2>2, Product
    <3> QED BY <1>1, <1>2, <1>3, <3>1
  <2> QED BY <1>1, <2>1, <2>2
<1>4. ASSUME 1 + BatchSize * q <= FirstOf(j), FirstOf(j) < 1 + BatchSize * q + BatchSize
      PROVE  FirstOf(j) = 1 + BatchSize * q
  <2>1. BatchSize * q <= BatchSize * d /\ BatchSize * d < BatchSize * q + BatchSize
    BY <1>1, <1>2, <1>4
  <2> QED BY <1>1, <1>2, <2>1, SameStart
<1>5. FirstOf(j) = 1 + BatchSize * q => 1 + BatchSize * q <= j /\ j < 1 + BatchSize * q + BatchSize
  BY <1>1
<1> QED BY <1>3, <1>4, <1>5

\* The row that a batch begins with is in that batch.
LEMMA StartsItself ==
  ASSUME NEW j \in Nat \ {0}
  PROVE  /\ FirstOf(j) \in Nat \ {0} /\ FirstOf(j) <= j
         /\ FirstOf(FirstOf(j)) = FirstOf(j)
<1>1. PICK d \in Nat : FirstOf(j) = 1 + BatchSize * d /\ FirstOf(j) <= j
  BY RowBatch
<1>2. BatchSize \in Nat \ {0} /\ BatchSize * d \in Nat
  BY CsvAssumption, Product
<1>3. FirstOf(j) \in Nat \ {0} /\ FirstOf(j) < 1 + BatchSize * d + BatchSize
  BY <1>1, <1>2
<1>4. FirstOf(FirstOf(j)) = 1 + BatchSize * d
  BY <1>1, <1>2, <1>3, BatchWindow
<1> QED BY <1>1, <1>3, <1>4

-----------------------------------------------------------------------------
Indexed == {texts[n] : n \in DOMAIN texts}

\* The batch that is being imported, while it is.
CsvTypeOK ==
  /\ csv \in Documents
  /\ \E q \in Nat : nextRow = 1 + BatchSize * q
  /\ \E c \in Nat : DOMAIN texts = 1 .. c
  /\ stage = "done" => nextRow > Len(csv)
  /\ stage \in {"delete", "index"} =>
       /\ \E q \in Nat : nextRow - BatchSize = 1 + BatchSize * q
       /\ Indexed = {i \in DOMAIN csv : FirstOf(i) = nextRow - BatchSize /\ Splits(i)}

OwnVectors == \A r \in collection : r.row # 0 => r.vector = r.row \/ Misaligned(r.row)

\* The chunks of the source are in one batch, and keep their vectors.
Together(s, b) == {FirstOf(j) : j \in ChunksOf(s)} = {b} /\ ~Misaligned(b)

StoredOf(s) == {r \in collection : r.source = s}
Imported(s) == {[row |-> j, source |-> s, vector |-> j, by |-> attempt] : j \in ChunksOf(s)}

\* What is behind the batch at hand is as the file has it; at hand nothing is left of
\* what it replaces, once that is deleted.
Replaced ==
  options.replace =>
    \A s : \A b : Together(s, b) =>
      /\ b < nextRow - BatchSize \/ (b < nextRow /\ stage \in {"read", "done"}) => StoredOf(s) = Imported(s)
      /\ stage = "index" /\ b = nextRow - BatchSize => StoredOf(s) = {}

CsvInv == CsvTypeOK /\ OwnVectors /\ Replaced

\* The rows of the file are numbered from 1.
LEMMA FileRows ==
  ASSUME CsvTypeOK
  PROVE  /\ Len(csv) \in Nat /\ DOMAIN csv = 1 .. Len(csv) /\ IsFiniteSet(DOMAIN csv)
         /\ DOMAIN csv \subseteq Nat \ {0}
         /\ BatchSize \in Nat \ {0} /\ nextRow \in Nat \ {0}
<1>1. Len(csv) \in Nat /\ DOMAIN csv = 1 .. Len(csv)
  BY CsvAssumption DEF CsvTypeOK
<1>2. IsFiniteSet(DOMAIN csv)
  BY <1>1, FS_Interval
<1>3. PICK q \in Nat : nextRow = 1 + BatchSize * q
  BY DEF CsvTypeOK
<1>4. BatchSize \in Nat \ {0} /\ BatchSize * q \in Nat
  BY CsvAssumption, Product
<1> QED BY <1>1, <1>2, <1>3, <1>4

\* A batch that has a chunk begins at the start of it.
LEMMA TogetherBatch ==
  ASSUME CsvTypeOK, NEW s, NEW b, Together(s, b)
  PROVE  /\ \E j \in DOMAIN csv : csv[j].source = s /\ Splits(j) /\ FirstOf(j) = b
         /\ \A j \in ChunksOf(s) : FirstOf(j) = b
         /\ b \in Nat \ {0} /\ b <= Len(csv) /\ FirstOf(b) = b
<1>1. PICK j \in ChunksOf(s) : FirstOf(j) = b
  BY DEF Together
<1>2. j \in DOMAIN csv /\ csv[j].source = s /\ Splits(j)
  BY DEF ChunksOf
<1>3. \A i \in ChunksOf(s) : FirstOf(i) = b
  BY DEF Together
<1>4. j \in Nat \ {0} /\ j <= Len(csv)
  BY <1>2, FileRows
<1>5. b \in Nat \ {0} /\ b <= j /\ FirstOf(b) = b
  BY <1>1, <1>4, StartsItself
<1>6. b <= Len(csv)
  BY <1>4, <1>5, FileRows
<1> QED BY <1>1, <1>2, <1>3, <1>5, <1>6

\* Without a blank text for Ollama, the vectors are those of the texts.
LEMMA VectorsOfTexts ==
  ASSUME CsvTypeOK, NEW vectors \in Embeddings,
         options.provider = "ollama" => \A n \in DOMAIN texts : ~csv[texts[n]].blank
  PROVE  DOMAIN vectors = DOMAIN texts /\ \A n \in DOMAIN texts : vectors[n] = texts[n]
<1>1. CASE options.provider # "ollama"
  BY <1>1 DEF Embeddings, AllAtOnce
<1>2. CASE options.provider = "ollama"
  <2> DEFINE vectored == {n \in DOMAIN texts : ~csv[texts[n]].blank}
  <2>1. PICK c \in Nat : DOMAIN texts = 1 .. c
    BY DEF CsvTypeOK
  <2>2. vectored = 1 .. c
    BY <1>2, <2>1
  <2>3. Cardinality(1 .. c) = c
    BY <2>1, FS_Interval
  <2>4. vectors \in TextByText
    BY <1>2 DEF Embeddings
  <2>5. /\ vectors \in [1 .. Cardinality(vectored) -> {texts[n] : n \in vectored}]
        /\ \A n \in vectored : vectors[Cardinality({m \in vectored : m <= n})] = texts[n]
    BY <2>4 DEF TextByText
  <2> HIDE DEF vectored
  <2>6. DOMAIN vectors = 1 .. c
    BY <2>2, <2>3, <2>5
  <2>7. ASSUME NEW n \in 1 .. c PROVE vectors[n] = texts[n]
    <3>1. {m \in vectored : m <= n} = 1 .. n
      BY <2>2, <2>7
    <3>2. Cardinality(1 .. n) = n
      BY <2>7, FS_Interval
    <3> QED BY <2>2, <2>5, <2>7, <3>1, <3>2
  <2> QED BY <2>1, <2>6, <2>7
<1> QED BY <1>1, <1>2

-----------------------------------------------------------------------------
\* The next batch of the file is read, or there is none.
LEMMA ReadsBatch ==
  ASSUME CsvInv, ReadBatch
  PROVE  CsvInv'
<1>1. /\ stage = "read" /\ nextRow <= Len(csv)
      /\ nextRow' = nextRow + BatchSize
      /\ csv' = csv /\ options' = options /\ collection' = collection /\ attempt' = attempt
  BY DEF ReadBatch
<1> DEFINE S == {i \in BatchRows : Splits(i)}
<1>2. texts' \in InOrder(S)
  BY DEF ReadBatch
<1>3. stage' = IF texts' = <<>> THEN "read" ELSE IF options.replace THEN "delete" ELSE "index"
  BY DEF ReadBatch
<1>4. PICK q \in Nat : nextRow = 1 + BatchSize * q
  BY DEF CsvInv, CsvTypeOK
<1>5. BatchSize \in Nat \ {0} /\ BatchSize * q \in Nat /\ BatchSize * (q + 1) = BatchSize * q + BatchSize
  BY <1>4, CsvAssumption, Product
<1>6. nextRow' = 1 + BatchSize * (q + 1) /\ nextRow' - BatchSize = nextRow
  BY <1>1, <1>4, <1>5
<1>7. S = {i \in DOMAIN csv : FirstOf(i) = nextRow /\ Splits(i)}
  <2>1. ASSUME NEW i \in DOMAIN csv PROVE i \in BatchRows <=> FirstOf(i) = nextRow
    <3>1. i \in Nat \ {0}
      BY FileRows DEF CsvInv
    <3> QED BY <3>1, <1>4, BatchWindow DEF BatchRows
  <2> QED BY <2>1 DEF BatchRows
<1>8. IsFiniteSet(S)
  <2>1. S \subseteq DOMAIN csv
    BY <1>7
  <2> QED BY <2>1, FS_Subset, FileRows DEF CsvInv
<1>9. Cardinality(S) \in Nat
  BY <1>8, FS_CardinalityType
<1>10. texts' \in [1 .. Cardinality(S) -> S] /\ S = {texts'[n] : n \in DOMAIN texts'}
  BY <1>2 DEF InOrder
<1> HIDE DEF S
<1>11. DOMAIN texts' = 1 .. Cardinality(S)
  BY <1>10
<1>12. \A i : Splits(i)' <=> Splits(i)
  BY <1>1 DEF Splits
<1>13. Indexed' = S
  BY <1>10 DEF Indexed
<1>14. Indexed' = {i \in DOMAIN csv' : FirstOf(i) = nextRow' - BatchSize /\ Splits(i)'}
  BY <1>1, <1>6, <1>7, <1>12, <1>13
<1>15. CsvTypeOK'
  <2>1. csv' \in Documents
    BY <1>1 DEF CsvInv, CsvTypeOK
  <2>2. \E d \in Nat : nextRow' = 1 + BatchSize * d
    BY <1>6
  <2>3. \E d \in Nat : nextRow' - BatchSize = 1 + BatchSize * d
    BY <1>4, <1>6
  <2>4. stage' # "done"
    BY <1>3
  <2>5. \E c \in Nat : DOMAIN texts' = 1 .. c
    BY <1>9, <1>11
  <2> QED BY <2>1, <2>2, <2>3, <2>4, <2>5, <1>14 DEF CsvTypeOK, FirstOf
<1>16. OwnVectors'
  BY <1>1 DEF CsvInv, OwnVectors, Misaligned, Splits, FirstOf
<1>17. ASSUME options.replace, NEW s, NEW b, Together(s, b)',
              b < nextRow' - BatchSize \/ (b < nextRow' /\ stage' \in {"read", "done"})
       PROVE  StoredOf(s)' = Imported(s)'
  <2>1. Together(s, b)
    BY <1>1, <1>17 DEF Together, ChunksOf, Misaligned, Splits, FirstOf
  <2>2. /\ \E j \in DOMAIN csv : csv[j].source = s /\ Splits(j) /\ FirstOf(j) = b
        /\ b \in Nat \ {0}
        /\ FirstOf(b) = b
    BY <2>1, TogetherBatch DEF CsvInv
  <2>3. CASE b < nextRow
    <3>1. StoredOf(s) = Imported(s)
      BY <1>1, <1>17, <2>1, <2>3 DEF CsvInv, Replaced
    <3> QED BY <1>1, <3>1 DEF StoredOf, Imported, ChunksOf, Splits
  <2>4. CASE ~(b < nextRow)
    <3>1. b < nextRow' /\ stage' = "read" /\ nextRow <= b
      BY <1>1, <1>3, <1>4, <1>5, <1>6, <1>17, <2>2, <2>4
    <3>2. texts' = <<>>
      BY <1>3, <3>1, <1>17
    <3>3. S = {}
      BY <1>10, <3>2
    <3>4. FirstOf(b) = nextRow
      <4>1. 1 + BatchSize * q <= b /\ b < 1 + BatchSize * q + BatchSize
        BY <1>1, <1>4, <3>1
      <4> QED BY <4>1, <1>4, <2>2, BatchWindow
    <3>5. \E j \in DOMAIN csv : Splits(j) /\ FirstOf(j) = nextRow
      BY <2>2, <3>4
    <3> QED BY <1>7, <3>3, <3>5
  <2> QED BY <2>3, <2>4
<1>18. stage' = "index" => ~options.replace
  BY <1>3
<1>19. Replaced'
  BY <1>1, <1>17, <1>18 DEF Replaced
<1> QED BY <1>15, <1>16, <1>19 DEF CsvInv

\* The sources of the batch at hand, and no other, have chunks in it.
LEMMA SourcesAtHand ==
  ASSUME CsvTypeOK, stage \in {"delete", "index"}, NEW s, NEW b, Together(s, b)
  PROVE  s \in UniqueSources <=> b = nextRow - BatchSize
<1>1. Indexed = {i \in DOMAIN csv : FirstOf(i) = nextRow - BatchSize /\ Splits(i)}
  BY DEF CsvTypeOK
<1>2. UniqueSources = {csv[i].source : i \in Indexed}
  BY DEF UniqueSources, Indexed
<1>3. PICK j \in DOMAIN csv : csv[j].source = s /\ Splits(j) /\ FirstOf(j) = b
  BY TogetherBatch
<1>4. ASSUME s \in UniqueSources PROVE b = nextRow - BatchSize
  <2>1. PICK i \in Indexed : csv[i].source = s
    BY <1>2, <1>4
  <2>2. i \in ChunksOf(s) /\ FirstOf(i) = nextRow - BatchSize
    BY <1>1, <2>1 DEF ChunksOf
  <2> QED BY <2>2, TogetherBatch
<1>5. ASSUME b = nextRow - BatchSize PROVE s \in UniqueSources
  BY <1>1, <1>2, <1>3, <1>5
<1> QED BY <1>4, <1>5

\* With replace, the stored chunks of the sources at hand are deleted.
LEMMA DeletesBySource ==
  ASSUME CsvInv, DeleteBySource
  PROVE  CsvInv'
<1>1. /\ stage = "delete" /\ stage' = "index"
      /\ csv' = csv /\ options' = options /\ nextRow' = nextRow /\ texts' = texts /\ attempt' = attempt
      /\ collection' = {r \in collection : r.source \notin UniqueSources}
  BY DEF DeleteBySource
<1>2. CsvTypeOK'
  BY <1>1 DEF CsvInv, CsvTypeOK, Indexed, Splits, FirstOf
<1>3. OwnVectors'
  BY <1>1 DEF CsvInv, OwnVectors, Misaligned, Splits, FirstOf
<1>4. ASSUME options.replace, NEW s, NEW b, Together(s, b)'
      PROVE  /\ b < nextRow - BatchSize => StoredOf(s)' = Imported(s)'
             /\ b = nextRow - BatchSize => StoredOf(s)' = {}
  <2>1. Together(s, b)
    BY <1>1, <1>4 DEF Together, ChunksOf, Misaligned, Splits, FirstOf
  <2>2. s \in UniqueSources <=> b = nextRow - BatchSize
    BY <1>1, <2>1, SourcesAtHand DEF CsvInv
  <2>3. ASSUME b < nextRow - BatchSize PROVE StoredOf(s)' = Imported(s)'
    <3>1. StoredOf(s) = Imported(s)
      BY <1>4, <2>1, <2>3 DEF CsvInv, Replaced
    <3>2. b \in Nat /\ nextRow \in Nat /\ BatchSize \in Nat
      BY <2>1, TogetherBatch, FileRows DEF CsvInv
    <3>3. s \notin UniqueSources
      BY <2>2, <2>3, <3>2
    <3>4. StoredOf(s)' = StoredOf(s)
      BY <1>1, <3>3 DEF StoredOf
    <3>5. Imported(s)' = Imported(s)
      BY <1>1 DEF Imported, ChunksOf, Splits
    <3> QED BY <3>1, <3>4, <3>5
  <2>4. ASSUME b = nextRow - BatchSize PROVE StoredOf(s)' = {}
    BY <1>1, <2>2, <2>4 DEF StoredOf
  <2> QED BY <2>3, <2>4
<1>5. Replaced'
  BY <1>1, <1>4 DEF Replaced
<1> QED BY <1>2, <1>3, <1>5 DEF CsvInv

\* The same file is imported in the same batches.
LEMMA SameSources ==
  ASSUME csv' = csv, options' = options, collection' = collection, attempt' = attempt,
         NEW s, NEW b
  PROVE  /\ Together(s, b)' <=> Together(s, b)
         /\ StoredOf(s)' = StoredOf(s) /\ Imported(s)' = Imported(s)
<1>1. ChunksOf(s)' = ChunksOf(s)
  BY DEF ChunksOf, Splits
<1>2. Misaligned(b)' <=> Misaligned(b)
  BY DEF Misaligned, Splits, FirstOf
<1>3. Together(s, b)' <=> Together(s, b)
  BY <1>1, <1>2 DEF Together, FirstOf
<1> QED BY <1>1, <1>3 DEF StoredOf, Imported

\* The chunks of the batch are embedded and stored.
LEMMA IndexesBatch ==
  ASSUME CsvInv, IndexBatchOf
  PROVE  CsvInv'
<1>1. /\ stage = "index"
      /\ csv' = csv /\ options' = options /\ nextRow' = nextRow /\ texts' = texts /\ attempt' = attempt
  BY DEF IndexBatchOf
<1>2. PICK vectors \in Embeddings :
        IF DOMAIN vectors = {} THEN stage' = "stopped" /\ UNCHANGED collection
        ELSE stage' = "read" /\ collection' = collection \cup Chunks(vectors)
  BY DEF IndexBatchOf
<1>3. stage' \in {"stopped", "read"}
  BY <1>2
<1>4. CsvTypeOK'
  BY <1>1, <1>3 DEF CsvInv, CsvTypeOK
<1>5. CASE stage' = "stopped"
  <2>1. collection' = collection
    BY <1>2, <1>5
  <2>2. OwnVectors'
    BY <1>1, <2>1 DEF CsvInv, OwnVectors, Misaligned, Splits, FirstOf
  <2>3. Replaced'
    BY <1>1, <1>5, <2>1, SameSources DEF CsvInv, Replaced
  <2> QED BY <1>4, <2>2, <2>3 DEF CsvInv
<1>6. CASE stage' = "read"
  <2>1. collection' = collection \cup Chunks(vectors)
    BY <1>2, <1>6
  <2>2. Indexed = {i \in DOMAIN csv : FirstOf(i) = nextRow - BatchSize /\ Splits(i)}
    BY <1>1 DEF CsvInv, CsvTypeOK
  <2>3. ASSUME ~Misaligned(nextRow - BatchSize), FirstOf(nextRow - BatchSize) = nextRow - BatchSize
        PROVE  DOMAIN vectors = DOMAIN texts /\ \A n \in DOMAIN texts : vectors[n] = texts[n]
    <3>1. ASSUME options.provider = "ollama", NEW n \in DOMAIN texts PROVE ~csv[texts[n]].blank
      <4>1. texts[n] \in Indexed
        BY DEF Indexed
      <4>2. texts[n] \in DOMAIN csv /\ FirstOf(texts[n]) = nextRow - BatchSize /\ Splits(texts[n])
        BY <2>2, <4>1
      <4> QED BY <2>3, <3>1, <4>2 DEF Misaligned
    <3> QED BY <3>1, VectorsOfTexts DEF CsvInv
  <2>4. PICK q \in Nat : nextRow - BatchSize = 1 + BatchSize * q
    BY <1>1 DEF CsvInv, CsvTypeOK
  <2>5. BatchSize \in Nat \ {0} /\ nextRow \in Nat /\ BatchSize * q \in Nat
    BY <2>4, CsvAssumption, Product, FileRows DEF CsvInv
  <2>6. FirstOf(nextRow - BatchSize) = nextRow - BatchSize
    <3>1. nextRow - BatchSize \in Nat \ {0}
      BY <2>4, <2>5
    <3>2. 1 + BatchSize * q <= nextRow - BatchSize /\ nextRow - BatchSize < 1 + BatchSize * q + BatchSize
      BY <2>4, <2>5
    <3> QED BY <2>4, <3>1, <3>2, BatchWindow
  <2>7. OwnVectors'
    <3>1. ASSUME NEW r \in collection', r.row # 0 PROVE r.vector = r.row \/ Misaligned(r.row)'
      <4>1. CASE r \in collection
        BY <1>1, <3>1, <4>1 DEF CsvInv, OwnVectors, Misaligned, Splits, FirstOf
      <4>2. CASE r \in Chunks(vectors)
        <5>1. PICK n \in DOMAIN texts : r.row = texts[n] /\ r.vector = vectors[n]
          BY <4>2 DEF Chunks
        <5>2. FirstOf(texts[n]) = nextRow - BatchSize
          BY <2>2 DEF Indexed
        <5>3. CASE Misaligned(nextRow - BatchSize)
          <6>1. Misaligned(r.row)
            BY <2>6, <5>1, <5>2, <5>3 DEF Misaligned
          <6> QED BY <1>1, <6>1 DEF Misaligned, Splits, FirstOf
        <5>4. CASE ~Misaligned(nextRow - BatchSize)
          BY <2>3, <2>6, <5>1, <5>4
        <5> QED BY <5>3, <5>4
      <4> QED BY <2>1, <3>1, <4>1, <4>2
    <3> QED BY <3>1 DEF OwnVectors
  <2>8. ASSUME options.replace, NEW s, NEW b, Together(s, b)',
               b < nextRow
        PROVE  StoredOf(s)' = Imported(s)'
    <3>1. Together(s, b)
      BY <1>1, <2>8 DEF Together, ChunksOf, Misaligned, Splits, FirstOf
    <3>2. s \in UniqueSources <=> b = nextRow - BatchSize
      BY <1>1, <3>1, SourcesAtHand DEF CsvInv
    <3>3. b \in Nat \ {0} /\ FirstOf(b) = b
      BY <3>1, TogetherBatch DEF CsvInv
    <3>4. Imported(s)' = Imported(s)
      BY <1>1 DEF Imported, ChunksOf, Splits
    <3>5. CASE b < nextRow - BatchSize
      <4>1. StoredOf(s) = Imported(s)
        BY <2>8, <3>1, <3>5 DEF CsvInv, Replaced
      <4>2. s \notin UniqueSources
        BY <2>5, <3>2, <3>3, <3>5
      <4>3. \A r \in Chunks(vectors) : r.source # s
        BY <4>2 DEF Chunks, UniqueSources
      <4>4. StoredOf(s)' = StoredOf(s)
        BY <2>1, <4>3 DEF StoredOf
      <4> QED BY <3>4, <4>1, <4>4
    <3>6. CASE ~(b < nextRow - BatchSize)
      <4>1. FirstOf(b) = nextRow - BatchSize
        <5>1. 1 + BatchSize * q <= b /\ b < 1 + BatchSize * q + BatchSize
          BY <2>4, <2>5, <2>8, <3>3, <3>6
        <5> QED BY <2>4, <3>3, <5>1, BatchWindow
      <4>2. b = nextRow - BatchSize
        BY <3>3, <4>1
      <4>3. StoredOf(s) = {}
        BY <1>1, <2>8, <3>1, <4>2 DEF CsvInv, Replaced
      <4>4. ~Misaligned(nextRow - BatchSize)
        BY <3>1, <4>2 DEF Together
      <4>5. DOMAIN vectors = DOMAIN texts /\ \A n \in DOMAIN texts : vectors[n] = texts[n]
        BY <2>3, <2>6, <4>4
      <4>6. Chunks(vectors) = {[row |-> i, source |-> csv[i].source, vector |-> i, by |-> attempt] : i \in Indexed}
        BY <4>5 DEF Chunks, Indexed
      <4>7. ChunksOf(s) = {i \in Indexed : csv[i].source = s}
        <5>1. \A j \in ChunksOf(s) : FirstOf(j) = b
          BY <3>1, TogetherBatch DEF CsvInv
        <5> QED BY <2>2, <4>2, <5>1 DEF ChunksOf
      <4>8. {r \in Chunks(vectors) : r.source = s} = Imported(s)
        BY <4>6, <4>7 DEF Imported
      <4>9. StoredOf(s)' = StoredOf(s) \cup {r \in Chunks(vectors) : r.source = s}
        BY <2>1 DEF StoredOf
      <4> QED BY <3>4, <4>3, <4>8, <4>9
    <3> QED BY <3>5, <3>6
  <2>9. Replaced'
    <3>1. \A b : b < nextRow' - BatchSize \/ (b < nextRow' /\ stage' \in {"read", "done"}) => b < nextRow' - BatchSize \/ b < nextRow
      BY <1>1
    <3>2. ASSUME NEW s, NEW b, Together(s, b)', b < nextRow - BatchSize PROVE b < nextRow
      <4>1. Together(s, b)
        BY <1>1, <3>2 DEF Together, ChunksOf, Misaligned, Splits, FirstOf
      <4>2. b \in Nat \ {0}
        BY <4>1, TogetherBatch DEF CsvInv
      <4> QED BY <2>5, <3>2, <4>2
    <3> QED BY <1>1, <1>6, <2>8, <3>1, <3>2 DEF Replaced
  <2> QED BY <1>4, <2>7, <2>9 DEF CsvInv
<1> QED BY <1>3, <1>5, <1>6

\* An import that stops, or starts again, leaves what is stored.
LEMMA StopsOrStarts ==
  ASSUME CsvInv, ImportDone \/ ImportFails \/ StartAgain \/ UNCHANGED csvVars
  PROVE  CsvInv'
<1>1. csv' = csv /\ options' = options /\ collection' = collection
  BY DEF ImportDone, ImportFails, StartAgain, csvVars
<1>2. OwnVectors'
  BY <1>1 DEF CsvInv, OwnVectors, Misaligned, Splits, FirstOf
<1>3. CASE StartAgain
  <2>1. nextRow' = 1 /\ texts' = <<>> /\ stage' = "read"
    BY <1>3 DEF StartAgain
  <2>2. CsvTypeOK'
    <3>1. BatchSize * 0 = 0 /\ BatchSize \in Nat
      BY CsvAssumption
    <3>2. \E q \in Nat : nextRow' = 1 + BatchSize * q
      BY <2>1, <3>1
    <3>3. DOMAIN texts' = 1 .. 0
      BY <2>1
    <3>4. csv' \in Documents /\ stage' = "read"
      BY <1>1, <2>1 DEF CsvInv, CsvTypeOK
    <3> QED BY <3>2, <3>3, <3>4 DEF CsvTypeOK
  <2>3. ASSUME NEW s, NEW b, Together(s, b)' PROVE ~(b < nextRow') /\ ~(b < nextRow' - BatchSize)
    <3>1. Together(s, b)
      BY <1>1, <2>3 DEF Together, ChunksOf, Misaligned, Splits, FirstOf
    <3>2. b \in Nat \ {0} /\ BatchSize \in Nat
      BY <3>1, TogetherBatch, CsvAssumption DEF CsvInv
    <3> QED BY <2>1, <3>2
  <2>4. Replaced'
    BY <2>1, <2>3 DEF Replaced
  <2> QED BY <1>2, <2>2, <2>4 DEF CsvInv
<1>4. CASE ~StartAgain
  <2>1. /\ nextRow' = nextRow /\ texts' = texts /\ attempt' = attempt
        /\ \/ stage' = stage
           \/ stage' = "stopped"
           \/ stage = "read" /\ stage' = "done" /\ nextRow > Len(csv)
    BY <1>4 DEF ImportDone, ImportFails, csvVars
  <2>2. CsvTypeOK'
    BY <1>1, <2>1 DEF CsvInv, CsvTypeOK, Indexed, Splits, FirstOf
  <2>3. Replaced'
    BY <1>1, <2>1, SameSources DEF CsvInv, Replaced
  <2> QED BY <1>2, <2>2, <2>3 DEF CsvInv
<1> QED BY <1>3, <1>4

\* What an import with --replace that ran to its end leaves in the collection
\* (tools/index_csv.py): of each source whose chunks are in one batch, exactly the
\* chunks of the file, whatever earlier imports stored or left unfinished.
THEOREM ImportsReplace == CsvSpec => []ImportReplaces
<1>1. CsvInit => CsvInv
  <2> SUFFICES ASSUME CsvInit PROVE CsvInv
    OBVIOUS
  <2>1. nextRow = 1 /\ texts = <<>> /\ stage = "read" /\ csv \in Documents
    BY DEF CsvInit
  <2>2. CsvTypeOK
    <3>1. BatchSize * 0 = 0 /\ BatchSize \in Nat
      BY CsvAssumption
    <3>2. \E q \in Nat : nextRow = 1 + BatchSize * q
      BY <2>1, <3>1
    <3>3. DOMAIN texts = 1 .. 0
      BY <2>1
    <3> QED BY <2>1, <3>2, <3>3 DEF CsvTypeOK
  <2>3. OwnVectors
    BY DEF CsvInit, OwnVectors, Earlier
  <2>4. ASSUME NEW s, NEW b, Together(s, b) PROVE ~(b < nextRow) /\ ~(b < nextRow - BatchSize)
    <3>1. b \in Nat \ {0} /\ BatchSize \in Nat
      BY <2>2, <2>4, TogetherBatch, CsvAssumption
    <3> QED BY <2>1, <3>1
  <2>5. Replaced
    BY <2>1, <2>4 DEF Replaced
  <2> QED BY <2>2, <2>3, <2>5 DEF CsvInv
<1>2. CsvInv /\ [CsvNext]_csvVars => CsvInv'
  BY ReadsBatch, DeletesBySource, IndexesBatch, StopsOrStarts DEF CsvNext
<1>3. CsvInv => ImportReplaces
  <2> SUFFICES ASSUME CsvInv PROVE ImportReplaces
    OBVIOUS
  <2>1. ASSUME stage = "done", options.replace, NEW i \in DOMAIN csv, NEW b,
               {FirstOf(j) : j \in ChunksOf(csv[i].source)} = {b}, ~Misaligned(b)
        PROVE  StoredOf(csv[i].source) = Imported(csv[i].source)
    <3>1. Together(csv[i].source, b)
      BY <2>1 DEF Together
    <3>2. b \in Nat /\ b <= Len(csv) /\ Len(csv) \in Nat /\ nextRow \in Nat
      BY <3>1, TogetherBatch, FileRows DEF CsvInv
    <3>3. b < nextRow
      BY <2>1, <3>2 DEF CsvInv, CsvTypeOK
    <3> QED BY <2>1, <3>1, <3>3 DEF CsvInv, Replaced
  <2> QED BY <2>1 DEF CsvInv, OwnVectors, ImportReplaces, StoredOf, Imported
<1> QED BY <1>1, <1>2, <1>3, PTL DEF CsvSpec

(***************************************************************************)
(* The layout of a diagram                                                 *)
(***************************************************************************)
Frames == [node : Names, left : Seq(Targets)]

LayoutTypeOK ==
  /\ arrows \in [Names -> Seq(Targets)]
  /\ color \in [Names -> 0 .. 2]
  /\ stack \in Seq(Frames)
  /\ back \subseteq Names \X Names
  /\ depth \in [Targets -> Int]
  /\ pass \in 0 .. NodeCount
  /\ layout \in {"search", "relax", "park", "done"}

Finished == {n \in Names : color[n] = 2}

\* t comes right after n on the path of the search.
Child(n, t) ==
  \E i \in DOMAIN stack : i + 1 \in DOMAIN stack /\ stack[i].node = n /\ stack[i + 1].node = t

\* The arrow from n to t has been followed.
Followed(n, t) == t \in Names => color[t] = 2 \/ <<n, t>> \in back \/ Child(n, t)

\* The arrows that are known to be forward ones for good.
Kept(n, t) == IsArrow(n, t) /\ <<n, t>> \notin back /\ (color[t] = 2 \/ Child(n, t))

\* Node 1 leads to all of V over such arrows.
Spans(V) ==
  \A C \in SUBSET Names : 1 \in C /\ (\A n \in C, t \in Names : Kept(n, t) => t \in C) => V \subseteq C

\* The stack is a path, of which the arrows that are left have not been followed.
PathInv ==
  /\ \A n \in Names : color[n] = 1 <=> \E i \in DOMAIN stack : stack[i].node = n
  /\ \A i, j \in DOMAIN stack : stack[i].node = stack[j].node => i = j
  /\ \A i, j \in DOMAIN stack : \A n, t \in Names :
       i <= j /\ stack[i].node = n /\ stack[j].node = t => Leads(n, t)
  /\ \A n, t \in Names : Child(n, t) => IsArrow(n, t) /\ <<n, t>> \notin back
  /\ \A i \in DOMAIN stack : \A n \in Names, t \in Targets :
       stack[i].node = n /\ IsArrow(n, t) => Followed(n, t) \/ \E k \in DOMAIN stack[i].left : stack[i].left[k] = t
  /\ \A i \in DOMAIN stack : \A k \in DOMAIN stack[i].left : \A n \in Names, t \in Targets :
       stack[i].node = n /\ stack[i].left[k] = t => IsArrow(n, t)

\* The arrows of a finished node lead to nodes that were finished before it, or close a loop.
Ranked(rank) ==
  \A n \in Finished :
    /\ rank[n] \in 1 .. Cardinality(Finished)
    /\ \A t \in Names : IsArrow(n, t) /\ <<n, t>> \notin back => color[t] = 2 /\ rank[t] < rank[n]

ArrowInv == \A arrow \in back : Leads(arrow[2], arrow[1]) /\ color[arrow[1]] # 0 /\ color[arrow[2]] # 0

\* What the search from node 1 meets, first of all, is what node 1 leads to.
FirstInv ==
  /\ color[1] = 0 => \A n \in Names : color[n] = 0
  /\ color[1] = 1 => /\ stack[1].node = 1
                     /\ \E V \in SUBSET Names : Spans(V) /\ \A n \in Names : n \in V <=> color[n] # 0
  /\ color[1] = 2 => \E V \in SUBSET Finished : 1 \in V /\ Closed(V) /\ Spans(V)

FirstDepth == [n \in Targets |-> IF n = 1 THEN 0 ELSE -1]

SearchInv ==
  layout = "search" =>
    /\ PathInv /\ ArrowInv /\ FirstInv
    /\ \E rank \in [Names -> 0 .. NodeCount] : Ranked(rank)
    /\ depth = FirstDepth /\ pass = 0

-----------------------------------------------------------------------------
\* What the search has found: the forward arrows have an order, and those that can
\* be reached can be reached over forward arrows.
Over(C) == \A n \in C, t \in Names : <<n, t>> \in Forward => t \in C
Levels(h) ==
  /\ \A n \in Names : h[n] <= NodeCount
  /\ \A n \in Names, t \in Targets : <<n, t>> \in Forward => h[n] < h[t]

Stable(t) == \A m \in Names : depth[m] # -1 /\ <<m, t>> \in Forward => depth[m] + 1 <= depth[t]

LoopsFound == \A arrow \in back : Leads(arrow[2], arrow[1])
ReachFound ==
  \E V \in SUBSET Names :
    /\ 1 \in V /\ Closed(V)
    /\ \A C \in SUBSET Names : 1 \in C /\ Over(C) => V \subseteq C

\* The rows of the relaxation.
DepthInv ==
  /\ \A t \in Targets : depth[t] \in -1 .. pass
  /\ depth[1] # -1
  /\ \A t \in Names : depth[t] # -1 => Leads(1, t)
  /\ \A t \in Targets : depth[t] > 0 => \E m \in Names : <<m, t>> \in Forward /\ depth[m] >= depth[t] - 1

RelaxInv ==
  layout \in {"relax", "park"} =>
    /\ LoopsFound /\ ReachFound /\ DepthInv
    /\ layout = "relax" => pass < NodeCount
    /\ layout = "relax" => \E h \in [Targets -> 1 .. NodeCount + 1] :
         Levels(h) /\ \A t \in Targets : h[t] <= pass + 1 => Stable(t)
    /\ layout = "park" => \A t \in Targets : Stable(t)

RenderInv == LayoutTypeOK /\ SearchInv /\ RelaxInv /\ ReachedArrowsPointDown

-----------------------------------------------------------------------------
\* A set of numbers has a least element.
LEMMA LeastOf ==
  ASSUME NEW T \in SUBSET Nat, T # {}
  PROVE  \E n \in T : \A m \in T : n <= m
<1> DEFINE R == {p \in Nat \X Nat : p[1] < p[2]}
<1>1. IsWellFoundedOn(R, Nat)
  BY NatLessThanWellFounded DEF OpToRel
<1>2. PICK n \in T : \A m \in T : <<m, n>> \notin R
  <2> HIDE DEF R
  <2> QED BY <1>1, WFMin
<1>3. \A m \in T : ~(m < n)
  BY <1>2
<1> QED BY <1>3

\* Min finds it.
LEMMA MinOf ==
  ASSUME NEW T \in SUBSET Nat, T # {}
  PROVE  Min(T) \in T /\ \A m \in T : Min(T) <= m
<1>1. PICK n \in T : \A m \in T : n <= m
  BY LeastOf
<1>2. \E x \in T : \A y \in T : x <= y
  BY <1>1
<1> QED BY <1>2 DEF Min

\* A bounded set of integers has a greatest element.
LEMMA MaxOf ==
  ASSUME NEW S \in SUBSET Int, S # {}, NEW b \in Int, \A x \in S : x <= b
  PROVE  Max(S) \in S /\ \A y \in S : y <= Max(S)
<1> DEFINE T == {n \in Nat : b - n \in S}
<1>1. PICK x \in S : TRUE
  OBVIOUS
<1>2. b - x \in T
  <2>1. b - x \in Nat /\ b - (b - x) = x
    BY <1>1
  <2> QED BY <1>1, <2>1
<1>3. PICK n \in T : \A m \in T : n <= m
  BY <1>2, LeastOf
<1>4. ASSUME NEW y \in S PROVE b - n >= y
  <2>1. b - y \in Nat /\ b - (b - y) = y
    BY <1>4
  <2>2. b - y \in T
    BY <2>1, <1>4
  <2>3. n <= b - y
    BY <1>3, <2>2
  <2> QED BY <1>3, <1>4, <2>3
<1>5. b - n \in S
  BY <1>3
<1>6. \E m \in S : \A y \in S : m >= y
  BY <1>4, <1>5
<1>7. Max(S) \in S /\ \A y \in S : Max(S) >= y
  BY <1>6 DEF Max
<1> QED BY <1>7

-----------------------------------------------------------------------------
\* Paths of arrows.
LEMMA LeadsOn ==
  /\ \A s : Leads(s, s)
  /\ \A s, n \in Names, t \in Names : Leads(s, n) /\ IsArrow(n, t) => Leads(s, t)
BY DEF Leads, Closed

\* There are nodes, they are numbered, and they are targets.
LEMMA NodesAndTargets ==
  /\ NodeCount \in Nat \ {0} /\ 1 \in Names /\ Names \subseteq Targets /\ Targets \subseteq Nat
  /\ IsFiniteSet(Names) /\ Cardinality(Names) = NodeCount
<1>1. NodeCount \in Nat \ {0}
  BY LayoutAssumption
<1>2. IsFiniteSet(1 .. NodeCount) /\ Cardinality(1 .. NodeCount) = NodeCount
  BY <1>1, FS_Interval
<1> QED BY <1>1, <1>2 DEF Names, Targets

\* The graph does not change, nor what leads where.
LEMMA SameGraph ==
  ASSUME arrows' = arrows
  PROVE  /\ \A n, t : IsArrow(n, t)' <=> IsArrow(n, t)
         /\ \A C : Closed(C)' <=> Closed(C)
         /\ \A s, t : Leads(s, t)' <=> Leads(s, t)
<1>1. \A n, t : IsArrow(n, t)' <=> IsArrow(n, t)
  BY DEF IsArrow
<1>2. \A C : Closed(C)' <=> Closed(C)
  BY <1>1 DEF Closed
<1> QED BY <1>1, <1>2 DEF Leads

\* What was followed stays followed, and what is kept is kept: when nodes are only
\* finished, loops found and the path changes at its end.
Grows ==
  /\ arrows' = arrows
  /\ back \subseteq back'
  /\ \A n \in Names : color[n] = 2 => color'[n] = 2
  /\ \A n, t \in Names : Child(n, t) => Child(n, t)' \/ color'[t] = 2
  /\ \A n, t \in Names : <<n, t>> \in back' \ back => color[t] = 1 /\ ~Child(n, t)

\* A turn of the search forgets nothing.
LEMMA GrowsKeeps ==
  ASSUME Grows
  PROVE  /\ \A n \in Names, t \in Targets : Followed(n, t) => Followed(n, t)'
         /\ \A n, t \in Names : Kept(n, t) => Kept(n, t)'
         /\ \A V : Spans(V) => Spans(V)'
<1>1. \A n \in Names, t \in Targets : Followed(n, t) => Followed(n, t)'
  BY DEF Grows, Followed
<1>2. \A n, t \in Names : Kept(n, t) => Kept(n, t)'
  BY SameGraph DEF Grows, Kept
<1>3. \A V : Spans(V) => Spans(V)'
  <2> SUFFICES ASSUME NEW V, Spans(V),
                      NEW C \in SUBSET Names, 1 \in C, \A n \in C, t \in Names : Kept(n, t)' => t \in C
               PROVE  V \subseteq C
    BY DEF Spans
  <2>1. \A n \in C, t \in Names : Kept(n, t) => t \in C
    BY <1>2
  <2> QED BY <2>1 DEF Spans
<1> QED BY <1>1, <1>2, <1>3

-----------------------------------------------------------------------------
\* What is left of a sequence without its first element.
LEMMA TailOf ==
  ASSUME NEW S, NEW s \in Seq(S), s # <<>>
  PROVE  /\ Len(s) \in Nat \ {0} /\ 1 \in DOMAIN s /\ Head(s) = s[1] /\ Head(s) \in S /\ Tail(s) \in Seq(S)
         /\ \A k \in DOMAIN Tail(s) : k + 1 \in DOMAIN s /\ Tail(s)[k] = s[k + 1]
         /\ \A k \in DOMAIN s : k = 1 \/ (k - 1 \in DOMAIN Tail(s) /\ Tail(s)[k - 1] = s[k])
<1>1. Len(s) \in Nat \ {0} /\ DOMAIN s = 1 .. Len(s)
  OBVIOUS
<1>2. Head(s) = s[1] /\ Head(s) \in S /\ Tail(s) \in Seq(S)
  OBVIOUS
<1>3. Len(Tail(s)) = Len(s) - 1 /\ \A k \in 1 .. Len(s) - 1 : Tail(s)[k] = s[k + 1]
  OBVIOUS
<1>4. DOMAIN Tail(s) = 1 .. Len(s) - 1
  BY <1>2, <1>3
<1> QED BY <1>1, <1>2, <1>3, <1>4

\* What is left of a sequence without its last element.
LEMMA WithoutLast ==
  ASSUME NEW S, NEW s \in Seq(S), s # <<>>, NEW b, b = SubSeq(s, 1, Len(s) - 1)
  PROVE  b \in Seq(S) /\ Len(b) = Len(s) - 1 /\ \A i \in 1 .. Len(s) - 1 : b[i] = s[i]
<1>1. Len(s) \in Nat \ {0} /\ 1 \in 1 .. Len(s) + 1 /\ Len(s) - 1 \in 1 - 1 .. Len(s)
  OBVIOUS
<1> DEFINE m == Len(s) - 1
<1>2. m \in 1 - 1 .. Len(s) /\ m - 1 + 1 = m /\ \A i \in 1 .. m : 1 + i - 1 = i
  BY <1>1
<1>3. b = SubSeq(s, 1, m)
  OBVIOUS
<1> HIDE DEF m
<1>4. /\ b \in Seq(S)
      /\ Len(b) = IF 1 <= m THEN m - 1 + 1 ELSE 0
      /\ \A i \in 1 .. m - 1 + 1 : b[i] = s[1 + i - 1]
  BY <1>1, <1>2, <1>3, SubSeqProperties
<1>5. Len(b) = m
  BY <1>1, <1>2, <1>4
<1>6. \A i \in 1 .. m : b[i] = s[i]
  BY <1>2, <1>4
<1> QED BY <1>4, <1>5, <1>6 DEF m

\* What a turn of the loop does to the path: the node at its end is finished, or has an
\* arrow followed, to a node that is not new or that goes on the path.
Pops(L, n) ==
  /\ stack[L].left = <<>>
  /\ Len(stack') = L - 1 /\ \A i \in 1 .. L - 1 : stack'[i] = stack[i]
  /\ color' = [color EXCEPT ![n] = 2] /\ back' = back

FollowsFirst(L, n, t) ==
  /\ stack[L].left # <<>> /\ t = Head(stack[L].left)
  /\ \A i \in 1 .. L - 1 : stack'[i] = stack[i]
  /\ stack'[L].node = n /\ stack'[L].left = Tail(stack[L].left)

Passes(L, n, t) ==
  /\ FollowsFirst(L, n, t)
  /\ Len(stack') = L
  /\ t \in Names => color[t] # 0
  /\ color' = color
  /\ back' = IF t \in Names /\ color[t] = 1 THEN back \cup {<<n, t>>} ELSE back

Pushes(L, n, t) ==
  /\ FollowsFirst(L, n, t)
  /\ t \in Names /\ color[t] = 0
  /\ Len(stack') = L + 1 /\ stack'[L + 1] = [node |-> t, left |-> arrows[t]]
  /\ color' = [color EXCEPT ![t] = 1] /\ back' = back

\* A turn of the loop does one of the three.
LEMMA FollowEffect ==
  ASSUME LayoutTypeOK, Follow,
         NEW L, L = Len(stack), NEW n, n = stack[L].node
  PROVE  /\ L \in Nat \ {0} /\ n \in Names /\ stack[L].left \in Seq(Targets)
         /\ stack' \in Seq(Frames)
         /\ Pops(L, n) \/ \E t \in Targets : Passes(L, n, t) \/ Pushes(L, n, t)
<1> DEFINE below == SubSeq(stack, 1, Len(stack) - 1)
           e == stack[L].left
           top == stack[Len(stack)]
           moved == [top EXCEPT !.left = Tail(@)]
<1>1. stack \in Seq(Frames) /\ stack # <<>> /\ arrows \in [Names -> Seq(Targets)]
  BY DEF LayoutTypeOK, Follow
<1>2. L \in Nat \ {0} /\ stack[L] \in Frames
  BY <1>1
<1>3. n \in Names /\ e \in Seq(Targets) /\ stack[L] = [node |-> n, left |-> e]
  BY <1>2 DEF Frames
<1>4. below \in Seq(Frames) /\ Len(below) = L - 1 /\ \A i \in 1 .. L - 1 : below[i] = stack[i]
  <2> HIDE DEF below
  <2>1. below = SubSeq(stack, 1, Len(stack) - 1)
    BY DEF below
  <2> QED BY <1>1, <2>1, WithoutLast
<1>5. moved.node = n /\ moved.left = Tail(e)
  BY <1>3
<1>6. CASE top.left = <<>>
  <2>1. color' = [color EXCEPT ![n] = 2] /\ stack' = below /\ back' = back
    BY <1>6 DEF Follow
  <2>2. Pops(L, n)
    BY <1>4, <1>6, <2>1 DEF Pops
  <2> QED BY <1>2, <1>3, <1>4, <2>1, <2>2
<1>7. CASE top.left # <<>>
  <2> DEFINE t == Head(e)
             rest == Append(below, moved)
  <2>1. t \in Targets /\ Tail(e) \in Seq(Targets)
    BY <1>3, <1>7
  <2>2. moved \in Frames
    BY <1>2, <1>3, <2>1 DEF Frames
  <2>3. rest \in Seq(Frames) /\ Len(rest) = L /\ rest[L] = moved /\ \A i \in 1 .. L - 1 : rest[i] = stack[i]
    <3> HIDE DEF below, moved
    <3> QED BY <1>2, <1>4, <2>2
  <2>4. back' = IF t \in Names /\ OnPath(t) THEN back \cup {<<n, t>>} ELSE back
    BY <1>7 DEF Follow
  <2>5. IF t \in Names /\ color[t] = 0
        THEN color' = [color EXCEPT ![t] = 1] /\ stack' = Append(rest, [node |-> t, left |-> arrows[t]])
        ELSE stack' = rest /\ color' = color
    BY <1>7 DEF Follow
  <2> HIDE DEF rest
  <2>6. CASE t \in Names /\ color[t] = 0
    <3>1. color' = [color EXCEPT ![t] = 1] /\ stack' = Append(rest, [node |-> t, left |-> arrows[t]]) /\ back' = back
      BY <2>4, <2>5, <2>6 DEF OnPath
    <3>2. [node |-> t, left |-> arrows[t]] \in Frames
      BY <1>1, <2>6 DEF Frames
    <3>3. stack' \in Seq(Frames) /\ Len(stack') = L + 1 /\ stack'[L + 1] = [node |-> t, left |-> arrows[t]]
          /\ \A i \in 1 .. L : stack'[i] = rest[i]
      <4> HIDE DEF t
      <4> QED BY <1>2, <2>3, <3>1, <3>2
    <3>4. L \in 1 .. L /\ \A i \in 1 .. L - 1 : i \in 1 .. L
      BY <1>2
    <3>5. FollowsFirst(L, n, t)
      BY <1>5, <1>7, <2>3, <3>3, <3>4 DEF FollowsFirst
    <3>6. Pushes(L, n, t)
      BY <2>6, <3>1, <3>3, <3>5 DEF Pushes
    <3> QED BY <1>2, <1>3, <2>1, <3>3, <3>6
  <2>7. CASE ~(t \in Names /\ color[t] = 0)
    <3>1. stack' = rest /\ color' = color
      BY <2>5, <2>7
    <3>2. FollowsFirst(L, n, t)
      BY <1>5, <1>7, <2>3, <3>1 DEF FollowsFirst
    <3>3. Passes(L, n, t)
      BY <2>3, <2>4, <2>7, <3>1, <3>2 DEF Passes, OnPath
    <3> QED BY <1>2, <1>3, <2>1, <2>3, <3>1, <3>3
  <2> QED BY <2>6, <2>7
<1> QED BY <1>6, <1>7

\* Where the last node of the path stands.
LEMMA AtTheEnd ==
  ASSUME LayoutTypeOK, PathInv, NEW L \in Nat \ {0}, L = Len(stack), NEW n, n = stack[L].node
  PROVE  /\ DOMAIN stack = 1 .. L /\ L \in DOMAIN stack /\ n \in Names /\ color[n] = 1
         /\ \A i \in DOMAIN stack : stack[i].node \in Names
         /\ \A i \in DOMAIN stack : stack[i].node = n => i = L
         /\ \A t : ~Child(n, t)
<1>1. stack \in Seq(Frames)
  BY DEF LayoutTypeOK
<1>2. DOMAIN stack = 1 .. L /\ L \in DOMAIN stack
  BY <1>1
<1>3. \A i \in DOMAIN stack : stack[i].node \in Names
  <2>1. \A i \in DOMAIN stack : stack[i] \in Frames
    BY <1>1
  <2> QED BY <2>1 DEF Frames
<1>4. color[n] = 1
  BY <1>2, <1>3 DEF PathInv
<1>5. \A i \in DOMAIN stack : stack[i].node = n => i = L
  BY <1>2 DEF PathInv
<1>6. \A t : ~Child(n, t)
  BY <1>2, <1>5 DEF Child
<1> QED BY <1>2, <1>3, <1>4, <1>5, <1>6

-----------------------------------------------------------------------------
\* The search as it goes on.
Searching(rank) == PathInv /\ ArrowInv /\ FirstInv /\ Ranked(rank)

\* The last node of the path is finished.
LEMMA PopKeeps ==
  ASSUME LayoutTypeOK, NEW rank \in [Names -> 0 .. NodeCount], Searching(rank),
         NEW L \in Nat \ {0}, L = Len(stack), NEW n, n = stack[L].node,
         arrows' = arrows, stack' \in Seq(Frames), Pops(L, n)
  PROVE  \E r \in [Names -> 0 .. NodeCount] : Searching(r)'
<1> USE DEF Searching
<1>1. /\ DOMAIN stack = 1 .. L /\ L \in DOMAIN stack /\ n \in Names /\ color[n] = 1
      /\ \A i \in DOMAIN stack : stack[i].node \in Names
      /\ \A i \in DOMAIN stack : stack[i].node = n => i = L
      /\ \A t : ~Child(n, t)
  BY AtTheEnd
<1>2. /\ stack[L].left = <<>> /\ back' = back
      /\ DOMAIN stack' = 1 .. L - 1 /\ \A i \in 1 .. L - 1 : stack'[i] = stack[i]
  BY DEF Pops
<1>3. \A m \in Names : color'[m] = IF m = n THEN 2 ELSE color[m]
  BY DEF Pops, LayoutTypeOK
<1>4. \A a, b : Child(a, b)' => Child(a, b)
  BY <1>1, <1>2 DEF Child
<1>5. \A a, b \in Names : Child(a, b) => Child(a, b)' \/ color'[b] = 2
  <2> SUFFICES ASSUME NEW a \in Names, NEW b \in Names, Child(a, b), b # n PROVE Child(a, b)'
    BY <1>3
  <2>1. PICK i \in DOMAIN stack : i + 1 \in DOMAIN stack /\ stack[i].node = a /\ stack[i + 1].node = b
    BY DEF Child
  <2>2. i + 1 # L
    BY <1>1, <2>1
  <2>3. i \in 1 .. L - 1 /\ i + 1 \in 1 .. L - 1
    BY <1>1, <2>1, <2>2
  <2>4. stack'[i] = stack[i] /\ stack'[i + 1] = stack[i + 1]
    BY <1>2, <2>3
  <2> QED BY <1>2, <2>1, <2>3, <2>4 DEF Child
<1>6. Grows
  BY <1>2, <1>3, <1>5 DEF Grows
<1>7. /\ \A a \in Names, t \in Targets : Followed(a, t) => Followed(a, t)'
      /\ \A V : Spans(V) => Spans(V)'
  BY <1>6, GrowsKeeps
<1>8. /\ \A a, t : IsArrow(a, t)' <=> IsArrow(a, t)
      /\ \A C : Closed(C)' <=> Closed(C)
      /\ \A s, t : Leads(s, t)' <=> Leads(s, t)
  BY SameGraph
<1>9. PathInv'
  <2>1. ASSUME NEW m \in Names PROVE color'[m] = 1 <=> \E i \in DOMAIN stack' : stack'[i].node = m
    <3>1. CASE m = n
      <4>1. color'[m] = 2
        BY <1>3, <3>1
      <4>2. \A i \in 1 .. L - 1 : i \in DOMAIN stack /\ i # L
        BY <1>1
      <4>3. \A i \in DOMAIN stack' : stack'[i].node # m
        BY <1>1, <1>2, <3>1, <4>2
      <4> QED BY <4>1, <4>3
    <3>2. CASE m # n
      <4>1. color[m] = 1 <=> \E i \in DOMAIN stack : stack[i].node = m
        BY DEF PathInv
      <4>2. \A i \in DOMAIN stack : stack[i].node = m => i \in 1 .. L - 1
        BY <1>1, <3>2
      <4>a. \A i \in 1 .. L - 1 : i \in DOMAIN stack
        BY <1>1
      <4>3. (\E i \in DOMAIN stack : stack[i].node = m) <=> \E i \in DOMAIN stack' : stack'[i].node = m
        BY <1>2, <4>a, <4>2
      <4> QED BY <1>3, <3>2, <4>1, <4>3
    <3> QED BY <3>1, <3>2
  <2>2. \A i \in DOMAIN stack' : i \in DOMAIN stack /\ stack'[i] = stack[i]
    BY <1>1, <1>2
  <2>3. \A i, j \in DOMAIN stack' : stack'[i].node = stack'[j].node => i = j
    BY <2>2 DEF PathInv
  <2>4. \A i, j \in DOMAIN stack' : \A m, t \in Names :
          i <= j /\ stack'[i].node = m /\ stack'[j].node = t => Leads(m, t)'
    BY <1>8, <2>2 DEF PathInv
  <2>5. \A a, t \in Names : Child(a, t)' => IsArrow(a, t)' /\ <<a, t>> \notin back'
    BY <1>2, <1>4, <1>8 DEF PathInv
  <2>6. ASSUME NEW i \in DOMAIN stack', NEW m \in Names, NEW t \in Targets, stack'[i].node = m, IsArrow(m, t)'
        PROVE  Followed(m, t)' \/ \E k \in DOMAIN stack'[i].left : stack'[i].left[k] = t
    <3>1. Followed(m, t) \/ \E k \in DOMAIN stack[i].left : stack[i].left[k] = t
      BY <1>8, <2>2, <2>6 DEF PathInv
    <3>2. Followed(m, t) => Followed(m, t)'
      BY <1>7
    <3> QED BY <2>2, <3>1, <3>2
  <2>7. \A i \in DOMAIN stack' : \A k \in DOMAIN stack'[i].left : \A m \in Names, t \in Targets :
          stack'[i].node = m /\ stack'[i].left[k] = t => IsArrow(m, t)'
    BY <1>8, <2>2 DEF PathInv
  <2> QED BY <2>1, <2>3, <2>4, <2>5, <2>6, <2>7 DEF PathInv
<1>10. ArrowInv'
  BY <1>2, <1>3, <1>8 DEF ArrowInv, LayoutTypeOK
<1> DEFINE c == Cardinality(Finished)
<1>11. /\ Finished' = Finished \cup {n} /\ n \notin Finished
  BY <1>1, <1>3 DEF Finished
<1>12. /\ c \in Nat /\ Cardinality(Finished') = c + 1 /\ c + 1 <= NodeCount
  <2>1. IsFiniteSet(Finished) /\ IsFiniteSet(Finished') /\ Finished' \subseteq Names
    <3>1. Finished \subseteq Names /\ Finished' \subseteq Names
      BY DEF Finished
    <3> QED BY <3>1, NodesAndTargets, FS_Subset
  <2>2. Cardinality(Finished') <= NodeCount
    BY <2>1, NodesAndTargets, FS_Subset
  <2>3. c \in Nat
    BY <2>1, FS_CardinalityType
  <2>4. Cardinality(Finished \cup {n}) = c + 1
    BY <1>11, <2>1, FS_AddElement
  <2> QED BY <1>11, <2>2, <2>3, <2>4
<1> HIDE DEF c
<1>13. PICK r \in [Names -> 0 .. NodeCount] : r[n] = c + 1 /\ \A m \in Names : m # n => r[m] = rank[m]
  <2>1. [rank EXCEPT ![n] = c + 1] \in [Names -> 0 .. NodeCount]
    BY <1>1, <1>12, NodesAndTargets
  <2> QED BY <1>1, <2>1
<1>14. Ranked(r)'
  <2>1. ASSUME NEW m \in Finished', NEW t \in Names, IsArrow(m, t), <<m, t>> \notin back
        PROVE  color'[t] = 2 /\ r[t] < r[m]
    <3>1. CASE m \in Finished
      <4>1. color[t] = 2 /\ rank[t] < rank[m]
        BY <2>1, <3>1 DEF Ranked
      <4>2. t # n /\ m # n /\ m \in Names
        BY <1>1, <1>11, <3>1, <4>1 DEF Finished
      <4> QED BY <1>3, <1>13, <4>1, <4>2
    <3>2. CASE m = n
      <4>1. t \in Targets
        BY NodesAndTargets
      <4>2. Followed(n, t)
        BY <1>1, <1>2, <2>1, <3>2, <4>1 DEF PathInv
      <4>3. color[t] = 2
        BY <1>1, <2>1, <3>2, <4>2 DEF Followed
      <4>4. t \in Finished /\ t # n
        BY <1>1, <4>3 DEF Finished
      <4>5. rank[t] \in 1 .. c
        BY <4>4 DEF Ranked, c
      <4> QED BY <1>3, <1>12, <1>13, <3>2, <4>3, <4>4, <4>5
    <3> QED BY <1>11, <3>1, <3>2
  <2>2. ASSUME NEW m \in Finished' PROVE r[m] \in 1 .. c + 1
    <3>1. CASE m \in Finished
      <4>1. rank[m] \in 1 .. c /\ m \in Names /\ m # n
        BY <1>11, <3>1 DEF Ranked, c, Finished
      <4> QED BY <1>12, <1>13, <4>1
    <3>2. CASE m = n
      BY <1>12, <1>13, <3>2
    <3> QED BY <1>11, <3>1, <3>2
  <2> QED BY <1>2, <1>8, <1>12, <2>1, <2>2 DEF Ranked
<1>15. FirstInv'
  <2>1. 1 \in Names
    BY NodesAndTargets
  <2>2. color[1] # 0
    BY <1>1, <2>1 DEF FirstInv
  <2>3. ASSUME color'[1] = 1 PROVE stack'[1].node = 1 /\ \E V \in SUBSET Names : Spans(V)' /\ \A m \in Names : m \in V <=> color'[m] # 0
    <3>1. color[1] = 1 /\ n # 1
      BY <1>3, <2>1, <2>3
    <3>2. stack[1].node = 1 /\ \E V \in SUBSET Names : Spans(V) /\ \A m \in Names : m \in V <=> color[m] # 0
      BY <3>1 DEF FirstInv
    <3>3. L # 1
      BY <3>1, <3>2
    <3>4. stack'[1] = stack[1]
      BY <1>2, <3>3
    <3>a. color[n] # 0
      BY <1>1
    <3>5. \A m \in Names : color'[m] # 0 <=> color[m] # 0
      BY <1>3, <3>a
    <3> QED BY <1>7, <3>2, <3>4, <3>5
  <2>4. ASSUME color'[1] = 2 PROVE \E V \in SUBSET Finished' : 1 \in V /\ Closed(V)' /\ Spans(V)'
    <3>1. CASE color[1] = 2
      <4>1. PICK V \in SUBSET Finished : 1 \in V /\ Closed(V) /\ Spans(V)
        BY <3>1 DEF FirstInv
      <4> QED BY <1>7, <1>8, <1>11, <4>1
    <3>2. CASE color[1] # 2
      <4>1. n = 1 /\ color[1] = 1
        BY <1>1, <1>3, <2>1, <2>4, <3>2
      <4>2. PICK V \in SUBSET Names : stack[1].node = 1 /\ Spans(V) /\ \A m \in Names : m \in V <=> color[m] # 0
        BY <4>1 DEF FirstInv
      <4>3. L = 1
        BY <1>1, <4>1, <4>2
      <4>4. ASSUME NEW m \in V PROVE m \in Finished'
        <5>1. CASE color[m] = 1
          <6>1. PICK i \in DOMAIN stack : stack[i].node = m
            BY <5>1 DEF PathInv
          <6>2. i = 1
            BY <1>1, <4>3, <6>1
          <6> QED BY <1>11, <4>1, <4>2, <6>1, <6>2
        <5>2. CASE color[m] = 2
          BY <1>11, <5>2 DEF Finished
        <5> QED BY <4>2, <5>1, <5>2 DEF LayoutTypeOK
      <4>5. ASSUME NEW m \in V, NEW t \in Names, IsArrow(m, t) PROVE t \in V
        <5>1. CASE <<m, t>> \in back
          BY <4>2, <5>1 DEF ArrowInv
        <5>2. CASE <<m, t>> \notin back
          <6>1. color'[t] = 2
            BY <1>2, <1>8, <1>14, <4>4, <4>5, <5>2 DEF Ranked
          <6>2. color[t] = 2 \/ t = n
            BY <1>3, <6>1
          <6> QED BY <1>1, <4>2, <6>2
        <5> QED BY <5>1, <5>2
      <4>6. Closed(V)
        BY <4>5 DEF Closed
      <4>7. V \in SUBSET Finished' /\ 1 \in V
        BY <2>1, <4>1, <4>2, <4>4
      <4> QED BY <1>7, <1>8, <4>2, <4>6, <4>7
    <3> QED BY <3>1, <3>2
  <2>5. color'[1] # 0
    BY <1>3, <2>1, <2>2
  <2> QED BY <2>3, <2>4, <2>5 DEF FirstInv
<1> QED BY <1>9, <1>10, <1>13, <1>14, <1>15

\* An arrow is followed to a node that is not new, or to none.
LEMMA PassKeeps ==
  ASSUME LayoutTypeOK, NEW rank \in [Names -> 0 .. NodeCount], Searching(rank),
         NEW L \in Nat \ {0}, L = Len(stack), NEW n, n = stack[L].node, NEW t \in Targets,
         stack[L].left \in Seq(Targets),
         arrows' = arrows, stack' \in Seq(Frames), Passes(L, n, t)
  PROVE  Searching(rank)'
<1> USE DEF Searching
<1>1. /\ DOMAIN stack = 1 .. L /\ L \in DOMAIN stack /\ n \in Names /\ color[n] = 1
      /\ \A i \in DOMAIN stack : stack[i].node \in Names
      /\ \A i \in DOMAIN stack : stack[i].node = n => i = L
      /\ \A u : ~Child(n, u)
  BY AtTheEnd
<1>2. /\ stack[L].left # <<>> /\ t = Head(stack[L].left)
      /\ DOMAIN stack' = 1 .. L /\ \A i \in 1 .. L - 1 : stack'[i] = stack[i]
      /\ stack'[L].node = n /\ stack'[L].left = Tail(stack[L].left)
      /\ t \in Names => color[t] # 0
      /\ color' = color
      /\ back' = IF t \in Names /\ color[t] = 1 THEN back \cup {<<n, t>>} ELSE back
  BY DEF Passes, FollowsFirst
<1>3. /\ \A i \in DOMAIN stack : i # L => stack'[i] = stack[i]
      /\ \A i \in DOMAIN stack : stack'[i].node = stack[i].node
      /\ DOMAIN stack' = DOMAIN stack
  <2>1. \A i \in DOMAIN stack : i # L => i \in 1 .. L - 1
    BY <1>1
  <2> QED BY <1>1, <1>2, <2>1
<1>4. \A a, b : Child(a, b)' <=> Child(a, b)
  BY <1>3 DEF Child
<1>5. /\ back \subseteq back'
      /\ \A a, b : <<a, b>> \in back' \ back => a = n /\ b = t /\ t \in Names /\ color[t] = 1
  BY <1>2
<1>6. Grows
  BY <1>1, <1>2, <1>4, <1>5 DEF Grows
<1>7. /\ \A a \in Names, u \in Targets : Followed(a, u) => Followed(a, u)'
      /\ \A V : Spans(V) => Spans(V)'
  BY <1>6, GrowsKeeps
<1>8. /\ \A a, u : IsArrow(a, u)' <=> IsArrow(a, u)
      /\ \A C : Closed(C)' <=> Closed(C)
      /\ \A s, u : Leads(s, u)' <=> Leads(s, u)
  BY SameGraph
<1>9. /\ \A k \in DOMAIN stack'[L].left : k + 1 \in DOMAIN stack[L].left /\ stack'[L].left[k] = stack[L].left[k + 1]
      /\ \A k \in DOMAIN stack[L].left :
           stack[L].left[k] = t \/ (k - 1 \in DOMAIN stack'[L].left /\ stack'[L].left[k - 1] = stack[L].left[k])
  BY <1>2, TailOf
<1>10. PathInv'
  <2>1. ASSUME NEW m \in Names PROVE color'[m] = 1 <=> \E i \in DOMAIN stack' : stack'[i].node = m
    BY <1>2, <1>3 DEF PathInv
  <2>2. \A i, j \in DOMAIN stack' : stack'[i].node = stack'[j].node => i = j
    BY <1>3 DEF PathInv
  <2>3. \A i, j \in DOMAIN stack' : \A a, u \in Names :
          i <= j /\ stack'[i].node = a /\ stack'[j].node = u => Leads(a, u)'
    BY <1>3, <1>8 DEF PathInv
  <2>4. \A a, u \in Names : Child(a, u)' => IsArrow(a, u)' /\ <<a, u>> \notin back'
    BY <1>1, <1>4, <1>5, <1>8 DEF PathInv
  <2>5. ASSUME NEW i \in DOMAIN stack', NEW m \in Names, NEW u \in Targets, stack'[i].node = m, IsArrow(m, u)'
        PROVE  Followed(m, u)' \/ \E k \in DOMAIN stack'[i].left : stack'[i].left[k] = u
    <3>1. i \in DOMAIN stack /\ (Followed(m, u) \/ \E k \in DOMAIN stack[i].left : stack[i].left[k] = u)
      BY <1>3, <1>8, <2>5 DEF PathInv
    <3>2. Followed(m, u) => Followed(m, u)'
      BY <1>7
    <3>3. CASE i # L
      BY <1>3, <3>1, <3>2, <3>3
    <3>4. CASE i = L
      <4>1. m = n
        BY <1>2, <2>5, <3>4
      <4>2. Followed(n, t)'
        <5>1. t \in Names => color[t] = 1 \/ color[t] = 2
          BY <1>2 DEF LayoutTypeOK
        <5> QED BY <1>2, <5>1 DEF Followed
      <4> QED BY <1>9, <3>1, <3>2, <3>4, <4>1, <4>2
    <3> QED BY <3>3, <3>4
  <2>6. ASSUME NEW i \in DOMAIN stack', NEW k \in DOMAIN stack'[i].left, NEW m \in Names, NEW u \in Targets,
               stack'[i].node = m, stack'[i].left[k] = u
        PROVE  IsArrow(m, u)'
    <3>1. CASE i # L
      BY <1>3, <1>8, <2>6, <3>1 DEF PathInv
    <3>2. CASE i = L
      <4>1. m = n /\ k \in DOMAIN stack'[L].left /\ stack'[L].left[k] = u
        BY <1>2, <2>6, <3>2
      <4>2. PICK q \in DOMAIN stack[L].left : stack[L].left[q] = u
        BY <1>9, <4>1
      <4>a. \A h \in DOMAIN stack : \A p \in DOMAIN stack[h].left : \A a \in Names, b \in Targets :
              stack[h].node = a /\ stack[h].left[p] = b => IsArrow(a, b)
        BY DEF PathInv
      <4>3. IsArrow(n, u)
        BY <1>1, <4>2, <4>a
      <4> QED BY <1>8, <4>1, <4>3
    <3> QED BY <3>1, <3>2
  <2> QED BY <2>1, <2>2, <2>3, <2>4, <2>5, <2>6 DEF PathInv
<1>11. ArrowInv'
  <2>1. ASSUME t \in Names, color[t] = 1 PROVE Leads(t, n)
    <3>1. PICK j \in DOMAIN stack : stack[j].node = t
      BY <2>1 DEF PathInv
    <3>2. j <= L
      BY <1>1
    <3> QED BY <1>1, <2>1, <3>1, <3>2 DEF PathInv
  <2>2. ASSUME NEW x \in back' PROVE Leads(x[2], x[1]) /\ color[x[1]] # 0 /\ color[x[2]] # 0
    <3>1. CASE x \in back
      BY <3>1 DEF ArrowInv
    <3>2. CASE x \notin back
      <4>1. x = <<n, t>> /\ t \in Names /\ color[t] = 1
        BY <1>2, <2>2, <3>2
      <4> QED BY <1>1, <2>1, <4>1
    <3> QED BY <3>1, <3>2
  <2> QED BY <1>2, <1>8, <2>2 DEF ArrowInv
<1>12. Ranked(rank)'
  <2>1. Finished' = Finished
    BY <1>2 DEF Finished
  <2> QED BY <1>2, <1>5, <1>8, <2>1 DEF Ranked
<1>13. FirstInv'
  <2>1. color[1] = 1 => stack'[1].node = 1
    <3>1. 1 \in DOMAIN stack
      BY <1>1
    <3> QED BY <1>3, <3>1 DEF FirstInv
  <2>2. Finished' = Finished
    BY <1>2 DEF Finished
  <2> QED BY <1>2, <1>7, <1>8, <2>1, <2>2 DEF FirstInv
<1> QED BY <1>10, <1>11, <1>12, <1>13

\* An arrow is followed to a new node, which goes on the path.
LEMMA PushKeeps ==
  ASSUME LayoutTypeOK, NEW rank \in [Names -> 0 .. NodeCount], Searching(rank),
         NEW L \in Nat \ {0}, L = Len(stack), NEW n, n = stack[L].node, NEW t \in Targets,
         stack[L].left \in Seq(Targets),
         arrows' = arrows, stack' \in Seq(Frames), Pushes(L, n, t)
  PROVE  Searching(rank)'
<1> USE DEF Searching
<1>1. /\ DOMAIN stack = 1 .. L /\ L \in DOMAIN stack /\ n \in Names /\ color[n] = 1
      /\ \A i \in DOMAIN stack : stack[i].node \in Names
      /\ \A i \in DOMAIN stack : stack[i].node = n => i = L
      /\ \A u : ~Child(n, u)
  BY AtTheEnd
<1>2. /\ stack[L].left # <<>> /\ t = Head(stack[L].left)
      /\ DOMAIN stack' = 1 .. L + 1 /\ \A i \in 1 .. L - 1 : stack'[i] = stack[i]
      /\ stack'[L].node = n /\ stack'[L].left = Tail(stack[L].left)
      /\ t \in Names /\ color[t] = 0
      /\ stack'[L + 1].node = t /\ stack'[L + 1].left = arrows[t]
      /\ back' = back
  BY DEF Pushes, FollowsFirst
<1>3. /\ \A i \in DOMAIN stack : i # L => stack'[i] = stack[i]
      /\ \A i \in DOMAIN stack : stack'[i].node = stack[i].node
      /\ \A i \in DOMAIN stack' : i = L + 1 \/ i \in DOMAIN stack
      /\ \A i \in DOMAIN stack : i \in DOMAIN stack' /\ i # L + 1 /\ i \in Nat
      /\ L + 1 \in DOMAIN stack' /\ L + 2 \notin DOMAIN stack'
  <2>1. \A i \in DOMAIN stack : i # L => i \in 1 .. L - 1
    BY <1>1
  <2>2. \A i \in DOMAIN stack' : i = L + 1 \/ i \in DOMAIN stack
    BY <1>1, <1>2
  <2>3. \A i \in DOMAIN stack : i \in DOMAIN stack' /\ i # L + 1 /\ i \in Nat
    BY <1>1, <1>2
  <2>4. L + 1 \in DOMAIN stack' /\ L + 2 \notin DOMAIN stack'
    BY <1>2
  <2> QED BY <1>1, <1>2, <2>1, <2>2, <2>3, <2>4
<1>4. \A m \in Names : color'[m] = IF m = t THEN 1 ELSE color[m]
  BY DEF Pushes, LayoutTypeOK
<1>5. \A i \in DOMAIN stack : stack[i].node # t
  BY <1>2 DEF PathInv
<1>6. \A a, b : Child(a, b)' <=> Child(a, b) \/ (a = n /\ b = t)
  <2>1. ASSUME NEW a, NEW b, Child(a, b) PROVE Child(a, b)'
    BY <1>3, <2>1 DEF Child
  <2>2. Child(n, t)'
    BY <1>1, <1>2, <1>3 DEF Child
  <2>3. ASSUME NEW a, NEW b, Child(a, b)' PROVE Child(a, b) \/ (a = n /\ b = t)
    <3>1. PICK i \in DOMAIN stack' : i + 1 \in DOMAIN stack' /\ stack'[i].node = a /\ stack'[i + 1].node = b
      BY <2>3 DEF Child
    <3>2. i \in 1 .. L
      BY <1>2, <3>1
    <3>3. CASE i = L
      BY <1>2, <3>1, <3>3
    <3>4. CASE i # L
      <4>1. i \in DOMAIN stack /\ i + 1 \in DOMAIN stack
        BY <1>1, <3>2, <3>4
      <4> QED BY <1>3, <3>1, <4>1 DEF Child
    <3> QED BY <3>3, <3>4
  <2> QED BY <2>1, <2>2, <2>3
<1>7. Grows
  BY <1>2, <1>4, <1>6 DEF Grows
<1>8. /\ \A a \in Names, u \in Targets : Followed(a, u) => Followed(a, u)'
      /\ \A V : Spans(V) => Spans(V)'
  BY <1>7, GrowsKeeps
<1>9. /\ \A a, u : IsArrow(a, u)' <=> IsArrow(a, u)
      /\ \A C : Closed(C)' <=> Closed(C)
      /\ \A s, u : Leads(s, u)' <=> Leads(s, u)
  BY SameGraph
<1>10. /\ \A k \in DOMAIN stack'[L].left : k + 1 \in DOMAIN stack[L].left /\ stack'[L].left[k] = stack[L].left[k + 1]
       /\ \A k \in DOMAIN stack[L].left :
            stack[L].left[k] = t \/ (k - 1 \in DOMAIN stack'[L].left /\ stack'[L].left[k - 1] = stack[L].left[k])
       /\ 1 \in DOMAIN stack[L].left /\ stack[L].left[1] = t
  BY <1>2, TailOf
<1>11. IsArrow(n, t) /\ <<n, t>> \notin back
  <2>1. IsArrow(n, t)
    BY <1>1, <1>10 DEF PathInv
  <2>2. <<n, t>> \notin back
    BY <1>2 DEF ArrowInv
  <2> QED BY <2>1, <2>2
<1>12. PathInv'
  <2>1. ASSUME NEW m \in Names PROVE color'[m] = 1 <=> \E i \in DOMAIN stack' : stack'[i].node = m
    <3>1. CASE m = t
      BY <1>2, <1>3, <1>4, <3>1
    <3>2. CASE m # t
      <4>a. ASSUME NEW i \in DOMAIN stack, stack[i].node = m PROVE \E j \in DOMAIN stack' : stack'[j].node = m
        BY <1>3, <4>a
      <4>b. ASSUME NEW i \in DOMAIN stack', stack'[i].node = m PROVE \E j \in DOMAIN stack : stack[j].node = m
        <5>1. i \in DOMAIN stack
          BY <1>2, <1>3, <3>2, <4>b
        <5> QED BY <1>3, <4>b, <5>1
      <4>1. (\E i \in DOMAIN stack : stack[i].node = m) <=> \E i \in DOMAIN stack' : stack'[i].node = m
        BY <4>a, <4>b
      <4>2. color[m] = 1 <=> \E i \in DOMAIN stack : stack[i].node = m
        BY DEF PathInv
      <4> QED BY <1>4, <3>2, <4>1, <4>2
    <3> QED BY <3>1, <3>2
  <2>2. ASSUME NEW i \in DOMAIN stack', NEW j \in DOMAIN stack', stack'[i].node = stack'[j].node PROVE i = j
    BY <1>2, <1>3, <1>5, <2>2 DEF PathInv
  <2>3. ASSUME NEW i \in DOMAIN stack', NEW j \in DOMAIN stack', NEW a \in Names, NEW u \in Names,
               i <= j, stack'[i].node = a, stack'[j].node = u
        PROVE  Leads(a, u)
    <3>1. CASE i \in DOMAIN stack /\ j \in DOMAIN stack
      BY <1>3, <2>3, <3>1 DEF PathInv
    <3>2. CASE i \in DOMAIN stack /\ j = L + 1
      <4>1. i <= L /\ stack[i].node = a
        BY <1>1, <1>3, <2>3, <3>2
      <4>2. Leads(a, n)
        BY <1>1, <3>2, <4>1 DEF PathInv
      <4> QED BY <1>1, <1>2, <1>11, <2>3, <3>2, <4>2, LeadsOn
    <3>3. CASE i = L + 1
      <4>1. j = L + 1
        BY <1>1, <1>2, <2>3, <3>3
      <4> QED BY <2>3, <3>3, <4>1, LeadsOn
    <3> QED BY <1>3, <3>1, <3>2, <3>3
  <2>4. ASSUME NEW a \in Names, NEW u \in Names, Child(a, u)' PROVE IsArrow(a, u)' /\ <<a, u>> \notin back'
    <3>1. CASE Child(a, u)
      BY <1>2, <1>9, <3>1 DEF PathInv
    <3>2. CASE a = n /\ u = t
      BY <1>2, <1>9, <1>11, <3>2
    <3> QED BY <1>6, <2>4, <3>1, <3>2
  <2>5. ASSUME NEW i \in DOMAIN stack', NEW m \in Names, NEW u \in Targets, stack'[i].node = m, IsArrow(m, u)'
        PROVE  Followed(m, u)' \/ \E k \in DOMAIN stack'[i].left : stack'[i].left[k] = u
    <3>1. CASE i = L + 1
      <4>1. m = t /\ stack'[i].left = arrows[m]
        BY <1>2, <2>5, <3>1
      <4> QED BY <1>9, <2>5, <4>1 DEF IsArrow
    <3>2. CASE i \in DOMAIN stack
      <4>1. Followed(m, u) \/ \E k \in DOMAIN stack[i].left : stack[i].left[k] = u
        BY <1>3, <1>9, <2>5, <3>2 DEF PathInv
      <4>2. Followed(m, u) => Followed(m, u)'
        BY <1>8
      <4>3. CASE i # L
        BY <1>3, <3>2, <4>1, <4>2, <4>3
      <4>4. CASE i = L
        <5>1. m = n
          BY <1>2, <2>5, <4>4
        <5>2. Followed(n, t)'
          BY <1>6 DEF Followed
        <5> QED BY <1>10, <4>1, <4>2, <4>4, <5>1, <5>2
      <4> QED BY <4>3, <4>4
    <3> QED BY <1>3, <3>1, <3>2
  <2>6. ASSUME NEW i \in DOMAIN stack', NEW k \in DOMAIN stack'[i].left, NEW m \in Names, NEW u \in Targets,
               stack'[i].node = m, stack'[i].left[k] = u
        PROVE  IsArrow(m, u)'
    <3>1. CASE i = L + 1
      <4>1. m = t /\ stack'[i].left = arrows[m]
        BY <1>2, <2>6, <3>1
      <4> QED BY <1>9, <2>6, <4>1 DEF IsArrow
    <3>2. CASE i \in DOMAIN stack /\ i # L
      <4>1. \A h \in DOMAIN stack : \A p \in DOMAIN stack[h].left : \A a \in Names, b \in Targets :
              stack[h].node = a /\ stack[h].left[p] = b => IsArrow(a, b)
        BY DEF PathInv
      <4>2. stack'[i] = stack[i]
        BY <1>3, <3>2
      <4>3. IsArrow(m, u)
        BY <2>6, <3>2, <4>1, <4>2
      <4> QED BY <1>9, <4>3
    <3>3. CASE i = L
      <4>1. m = n /\ k \in DOMAIN stack'[L].left /\ stack'[L].left[k] = u
        BY <1>2, <2>6, <3>3
      <4>2. PICK q \in DOMAIN stack[L].left : stack[L].left[q] = u
        BY <1>10, <4>1
      <4>a. \A h \in DOMAIN stack : \A p \in DOMAIN stack[h].left : \A a \in Names, b \in Targets :
              stack[h].node = a /\ stack[h].left[p] = b => IsArrow(a, b)
        BY DEF PathInv
      <4>3. IsArrow(n, u)
        BY <1>1, <4>2, <4>a
      <4> QED BY <1>9, <4>1, <4>3
    <3> QED BY <1>3, <3>1, <3>2, <3>3
  <2> QED BY <1>9, <2>1, <2>2, <2>3, <2>4, <2>5, <2>6 DEF PathInv
<1>13. ArrowInv'
  BY <1>2, <1>4, <1>9 DEF ArrowInv, LayoutTypeOK
<1>14. Finished' = Finished
  BY <1>2, <1>4 DEF Finished
<1>15. Ranked(rank)'
  BY <1>2, <1>4, <1>9, <1>14 DEF Ranked
<1>16. FirstInv'
  <2>1. 1 \in Names
    BY NodesAndTargets
  <2>2. color[1] # 0
    BY <1>1 DEF FirstInv
  <2>3. color'[1] = color[1]
    BY <1>2, <1>4, <2>1, <2>2
  <2>4. ASSUME color[1] = 1
        PROVE  stack'[1].node = 1 /\ \E V \in SUBSET Names : Spans(V)' /\ \A m \in Names : m \in V <=> color'[m] # 0
    <3>1. PICK V \in SUBSET Names : Spans(V) /\ \A m \in Names : m \in V <=> color[m] # 0
      BY <2>4 DEF FirstInv
    <3>2. Kept(n, t)'
      BY <1>2, <1>6, <1>9, <1>11 DEF Kept
    <3>3. n \in V
      BY <1>1, <3>1
    <3>4. Spans(V)'
      BY <1>8, <3>1
    <3>5. Spans(V \cup {t})'
      <4> SUFFICES ASSUME NEW C \in SUBSET Names, 1 \in C, \A a \in C, b \in Names : Kept(a, b)' => b \in C
                   PROVE  V \cup {t} \subseteq C
        BY DEF Spans
      <4>1. V \subseteq C
        BY <3>4 DEF Spans
      <4>2. t \in C
        BY <1>2, <3>2, <3>3, <4>1
      <4> QED BY <4>1, <4>2
    <3>6. \A m \in Names : m \in V \cup {t} <=> color'[m] # 0
      BY <1>4, <3>1
    <3>7. V \cup {t} \in SUBSET Names
      BY <1>2
    <3>8. stack'[1].node = 1
      <4>1. 1 \in DOMAIN stack
        BY <1>1
      <4> QED BY <1>3, <2>4, <4>1 DEF FirstInv
    <3> QED BY <3>5, <3>6, <3>7, <3>8
  <2> QED BY <1>8, <1>9, <1>14, <2>2, <2>3, <2>4 DEF FirstInv
<1> QED BY <1>12, <1>13, <1>15, <1>16

\* A new search begins at a new node, the first one at node 1.
LEMMA RootKeeps ==
  ASSUME LayoutTypeOK, NEW rank \in [Names -> 0 .. NodeCount], Searching(rank),
         stack = <<>>, NEW t \in Names, color[t] = 0, \A u \in Names : color[u] = 0 => t <= u,
         arrows' = arrows, back' = back, color' = [color EXCEPT ![t] = 1],
         stack' = <<[node |-> t, left |-> arrows[t]]>>
  PROVE  Searching(rank)'
<1> USE DEF Searching
<1>1. /\ DOMAIN stack = {} /\ DOMAIN stack' = {1}
      /\ stack'[1].node = t /\ stack'[1].left = arrows[t]
  OBVIOUS
<1>2. /\ \A m \in Names : color'[m] = IF m = t THEN 1 ELSE color[m]
      /\ \A m \in Names : color[m] # 1
  BY <1>1 DEF LayoutTypeOK, PathInv
<1>3. \A a, b : ~Child(a, b) /\ ~Child(a, b)'
  BY <1>1 DEF Child
<1>4. Grows
  BY <1>2, <1>3 DEF Grows
<1>5. \A V : Spans(V) => Spans(V)'
  BY <1>4, GrowsKeeps
<1>6. /\ \A a, u : IsArrow(a, u)' <=> IsArrow(a, u)
      /\ \A C : Closed(C)' <=> Closed(C)
      /\ \A s, u : Leads(s, u)' <=> Leads(s, u)
  BY SameGraph
<1>7. PathInv'
  <2>1. ASSUME NEW m \in Names PROVE color'[m] = 1 <=> \E i \in DOMAIN stack' : stack'[i].node = m
    BY <1>1, <1>2
  <2>2. \A i, j \in DOMAIN stack' : stack'[i].node = stack'[j].node => i = j
    BY <1>1
  <2>3. \A i, j \in DOMAIN stack' : \A a, u \in Names :
          i <= j /\ stack'[i].node = a /\ stack'[j].node = u => Leads(a, u)'
    BY <1>1, <1>6, LeadsOn
  <2>4. \A a, u \in Names : Child(a, u)' => IsArrow(a, u)' /\ <<a, u>> \notin back'
    BY <1>3
  <2>5. ASSUME NEW i \in DOMAIN stack', NEW m \in Names, NEW u \in Targets, stack'[i].node = m, IsArrow(m, u)'
        PROVE  Followed(m, u)' \/ \E k \in DOMAIN stack'[i].left : stack'[i].left[k] = u
    BY <1>1, <1>6, <2>5 DEF IsArrow
  <2>6. ASSUME NEW i \in DOMAIN stack', NEW k \in DOMAIN stack'[i].left, NEW m \in Names, NEW u \in Targets,
               stack'[i].node = m, stack'[i].left[k] = u
        PROVE  IsArrow(m, u)'
    BY <1>1, <1>6, <2>6 DEF IsArrow
  <2> QED BY <2>1, <2>2, <2>3, <2>4, <2>5, <2>6 DEF PathInv
<1>8. ArrowInv'
  BY <1>2, <1>6 DEF ArrowInv, LayoutTypeOK
<1>9. Finished' = Finished
  BY <1>2 DEF Finished
<1>10. Ranked(rank)'
  BY <1>2, <1>6, <1>9 DEF Ranked
<1>11. FirstInv'
  <2>1. 1 \in Names
    BY NodesAndTargets
  <2>2. CASE color[1] = 0
    <3>1. t = 1
      <4>1. t <= 1 /\ t \in Nat /\ 1 <= t
        BY <2>1, <2>2 DEF Names
      <4> QED BY <4>1
    <3>2. \A m \in Names : m \in {1} <=> color'[m] # 0
      BY <1>2, <2>2, <3>1 DEF FirstInv
    <3>3. Spans({1})'
      BY DEF Spans
    <3>4. color'[1] = 1
      BY <1>2, <2>1, <3>1
    <3>5. stack'[1].node = 1 /\ {1} \in SUBSET Names
      BY <1>1, <2>1, <3>1
    <3> QED BY <3>2, <3>3, <3>4, <3>5 DEF FirstInv
  <2>3. CASE color[1] # 0
    <3>1. color'[1] = color[1] /\ color[1] # 1
      BY <1>2, <2>1, <2>3
    <3> QED BY <1>5, <1>6, <1>9, <2>3, <3>1 DEF FirstInv
  <2> QED BY <2>2, <2>3
<1> QED BY <1>7, <1>8, <1>10, <1>11

\* When every node is finished, the search has found the loops, what node 1 leads to
\* and an order of the nodes.
LEMMA SearchEnds ==
  ASSUME LayoutTypeOK, NEW rank \in [Names -> 0 .. NodeCount], Searching(rank),
         stack = <<>>, \A n \in Names : color[n] # 0
  PROVE  /\ LoopsFound /\ ReachFound
         /\ \E h \in [Targets -> 1 .. NodeCount + 1] : Levels(h)
<1> USE DEF Searching
<1>1. Names \subseteq Targets /\ 1 \in Names /\ NodeCount \in Nat \ {0}
  BY NodesAndTargets
<1>2. \A n \in Names : color[n] = 2
  <2>1. DOMAIN stack = {}
    OBVIOUS
  <2> QED BY <2>1 DEF LayoutTypeOK, PathInv
<1>3. Finished = Names
  BY <1>2 DEF Finished
<1>4. LoopsFound
  BY DEF ArrowInv, LoopsFound
<1>5. ReachFound
  <2>1. PICK V \in SUBSET Names : 1 \in V /\ Closed(V) /\ Spans(V)
    BY <1>1, <1>2, <1>3 DEF FirstInv
  <2>2. \A n, t \in Names : Kept(n, t) => <<n, t>> \in Forward
    BY <1>1 DEF Kept, Forward
  <2>3. ASSUME NEW C \in SUBSET Names, 1 \in C, Over(C) PROVE V \subseteq C
    <3>1. \A n \in C, t \in Names : Kept(n, t) => t \in C
      BY <2>2, <2>3 DEF Over
    <3> QED BY <2>1, <2>3, <3>1 DEF Spans
  <2> QED BY <2>1, <2>3 DEF ReachFound
<1>6. \A n \in Names : rank[n] \in 1 .. NodeCount
  BY <1>3, NodesAndTargets DEF Ranked
<1>7. \A n, t \in Names : <<n, t>> \in Forward => rank[t] < rank[n]
  BY <1>3 DEF Ranked, Forward
<1> DEFINE h == [t \in Targets |-> IF t \in Names THEN NodeCount + 1 - rank[t] ELSE NodeCount + 1]
<1>8. h \in [Targets -> 1 .. NodeCount + 1]
  <2>1. \A t \in Names : NodeCount + 1 - rank[t] \in 1 .. NodeCount + 1
    BY <1>1, <1>6
  <2> QED BY <1>1, <2>1
<1>9. ASSUME NEW n \in Names PROVE h[n] <= NodeCount /\ h[n] = NodeCount + 1 - rank[n]
  BY <1>1, <1>6
<1>10. ASSUME NEW n \in Names, NEW t \in Targets, <<n, t>> \in Forward PROVE h[n] < h[t]
  <2>1. CASE t \in Names
    <3>1. rank[t] < rank[n] /\ rank[t] \in 1 .. NodeCount /\ rank[n] \in 1 .. NodeCount
      BY <1>6, <1>7, <1>10, <2>1
    <3>2. h[n] = NodeCount + 1 - rank[n] /\ h[t] = NodeCount + 1 - rank[t]
      BY <1>9, <2>1
    <3> HIDE DEF h
    <3> QED BY <1>1, <3>1, <3>2
  <2>2. CASE t \notin Names
    <3>1. h[t] = NodeCount + 1 /\ h[n] <= NodeCount
      BY <1>9, <2>2
    <3>2. h[n] \in 1 .. NodeCount + 1
      BY <1>1, <1>8
    <3> HIDE DEF h
    <3> QED BY <1>1, <3>1, <3>2
  <2> QED BY <2>1, <2>2
<1> HIDE DEF h
<1>11. Levels(h)
  BY <1>9, <1>10 DEF Levels
<1> QED BY <1>4, <1>5, <1>8, <1>11

-----------------------------------------------------------------------------
\* What the search has found stays when the rows are computed.
LEMMA FoundStays ==
  ASSUME arrows' = arrows, back' = back
  PROVE  /\ Forward' = Forward
         /\ LoopsFound => LoopsFound'
         /\ ReachFound => ReachFound'
         /\ \A h : Levels(h) => Levels(h)'
<1>1. Forward' = Forward
  BY SameGraph DEF Forward
<1>2. LoopsFound => LoopsFound'
  BY SameGraph DEF LoopsFound
<1>3. \A C : Over(C)' <=> Over(C)
  BY <1>1 DEF Over
<1>4. ReachFound => ReachFound'
  BY <1>3, SameGraph DEF ReachFound
<1> QED BY <1>1, <1>2, <1>4 DEF Levels

\* The nodes an arrow leads from to t, that have a row.
Above(t) == {m \in Names : depth[m] # -1 /\ <<m, t>> \in Forward}

\* What a pass makes of a row.
LEMMA LoweredIs ==
  ASSUME LayoutTypeOK, DepthInv, NEW t \in Targets
  PROVE  /\ Lowered(t) \in -1 .. pass + 1
         /\ depth[t] <= Lowered(t)
         /\ \A m \in Above(t) : depth[m] + 1 <= Lowered(t)
         /\ Lowered(t) = depth[t] \/ \E m \in Above(t) : Lowered(t) = depth[m] + 1
<1> DEFINE S == {depth[t]} \cup {depth[n] + 1 : n \in Above(t)}
<1>1. Names \subseteq Targets /\ NodeCount \in Nat /\ pass \in Nat
  BY NodesAndTargets DEF LayoutTypeOK
<1>2. \A n \in Targets : depth[n] \in -1 .. pass
  BY DEF DepthInv
<1>3. \A n \in Above(t) : n \in Names /\ depth[n] \in 0 .. pass
  BY <1>1, <1>2 DEF Above
<1>4. \A x \in S : x \in -1 .. pass + 1
  BY <1>1, <1>2, <1>3
<1>5. depth[t] \in S /\ \A m \in Above(t) : depth[m] + 1 \in S
  OBVIOUS
<1>6. S \in SUBSET Int /\ S # {} /\ pass + 1 \in Int /\ \A x \in S : x <= pass + 1
  BY <1>1, <1>4, <1>5
<1>7. Lowered(t) = Max(S)
  BY DEF Lowered, Above
<1>8. \A x \in S : x = depth[t] \/ \E m \in Above(t) : x = depth[m] + 1
  OBVIOUS
<1> HIDE DEF S
<1>9. Max(S) \in S /\ \A y \in S : y <= Max(S)
  BY <1>6, MaxOf
<1> QED BY <1>4, <1>5, <1>7, <1>8, <1>9

\* A pass of the relaxation: one level more is stable.
LEMMA RelaxKeeps ==
  ASSUME LayoutTypeOK, RelaxInv, Relax
  PROVE  LayoutTypeOK' /\ RelaxInv'
<1>1. /\ layout = "relax" /\ pass' = pass + 1
      /\ arrows' = arrows /\ back' = back /\ color' = color /\ stack' = stack
      /\ depth' = [t \in Targets |-> Lowered(t)]
      /\ layout' = IF depth' = depth \/ pass' = NodeCount THEN "park" ELSE "relax"
  BY DEF Relax
<1>2. LoopsFound /\ ReachFound /\ DepthInv /\ pass < NodeCount
  BY <1>1 DEF RelaxInv
<1>3. PICK h \in [Targets -> 1 .. NodeCount + 1] : Levels(h) /\ \A t \in Targets : h[t] <= pass + 1 => Stable(t)
  BY <1>1 DEF RelaxInv
<1>4. Names \subseteq Targets /\ NodeCount \in Nat /\ pass \in Nat /\ 1 \in Names /\ Targets \subseteq Nat
  BY NodesAndTargets DEF LayoutTypeOK
<1>5. /\ \A t \in Targets : depth[t] \in -1 .. pass
      /\ \A t \in Targets : depth'[t] = Lowered(t)
  BY <1>1, <1>2 DEF DepthInv
<1>6. \A t \in Targets :
        /\ depth'[t] \in -1 .. pass + 1
        /\ depth[t] <= depth'[t]
        /\ \A m \in Above(t) : depth[m] + 1 <= depth'[t]
        /\ depth'[t] = depth[t] \/ \E m \in Above(t) : depth'[t] = depth[m] + 1
  BY <1>2, <1>5, LoweredIs
<1>7. LayoutTypeOK'
  <2>1. depth' \in [Targets -> Int]
    BY <1>1, <1>4, <1>5, <1>6
  <2>2. pass' \in 0 .. NodeCount
    BY <1>1, <1>2, <1>4
  <2> QED BY <1>1, <2>1, <2>2 DEF LayoutTypeOK
<1>8. Forward' = Forward /\ LoopsFound' /\ ReachFound' /\ Levels(h)'
  BY <1>1, <1>2, <1>3, FoundStays
<1>9. DepthInv'
  <2>1. \A t \in Targets : depth'[t] \in -1 .. pass'
    BY <1>1, <1>6
  <2>2. depth'[1] # -1
    <3>1. depth[1] # -1 /\ depth[1] \in -1 .. pass /\ depth[1] <= depth'[1]
      BY <1>2, <1>4, <1>5, <1>6 DEF DepthInv
    <3> QED BY <3>1
  <2>3. ASSUME NEW t \in Names, depth'[t] # -1 PROVE Leads(1, t)'
    <3>1. CASE depth'[t] = depth[t]
      BY <1>1, <1>2, <2>3, <3>1, SameGraph DEF DepthInv
    <3>2. CASE depth'[t] # depth[t]
      <4>1. PICK m \in Above(t) : depth'[t] = depth[m] + 1
        BY <1>4, <1>6, <3>2
      <4>2. m \in Names /\ Leads(1, m) /\ IsArrow(m, t)
        BY <1>2, <4>1 DEF DepthInv, Above, Forward
      <4>3. Leads(1, t)
        BY <1>4, <2>3, <4>2, LeadsOn
      <4> QED BY <1>1, <4>3, SameGraph
    <3> QED BY <3>1, <3>2
  <2>4. ASSUME NEW t \in Targets, depth'[t] > 0
        PROVE  \E m \in Names : <<m, t>> \in Forward /\ depth'[m] >= depth'[t] - 1
    <3>1. CASE depth'[t] = depth[t]
      <4>1. PICK m \in Names : <<m, t>> \in Forward /\ depth[m] >= depth[t] - 1
        BY <1>2, <2>4, <3>1 DEF DepthInv
      <4>2. depth[m] <= depth'[m] /\ depth[m] \in Int /\ depth'[m] \in Int /\ depth[t] \in Int
        BY <1>4, <1>5, <1>6
      <4>3. depth'[m] >= depth'[t] - 1
        BY <3>1, <4>1, <4>2
      <4> QED BY <4>1, <4>3
    <3>2. CASE depth'[t] # depth[t]
      <4>1. PICK m \in Above(t) : depth'[t] = depth[m] + 1
        BY <1>6, <3>2
      <4>2. m \in Names /\ <<m, t>> \in Forward
        BY DEF Above
      <4>3. depth[m] <= depth'[m] /\ depth[m] \in Int /\ depth'[m] \in Int
        BY <1>4, <1>5, <1>6, <4>2
      <4>4. depth'[m] >= depth'[t] - 1
        BY <4>1, <4>3
      <4> QED BY <4>2, <4>4
    <3> QED BY <3>1, <3>2
  <2> QED BY <1>8, <2>1, <2>2, <2>3, <2>4 DEF DepthInv
<1>10. ASSUME NEW t \in Targets, h[t] <= pass' + 1 PROVE Stable(t)'
  <2>1. ASSUME NEW m \in Names, depth'[m] # -1, <<m, t>> \in Forward PROVE depth'[m] + 1 <= depth'[t]
    <3>1. h[m] < h[t] /\ h[m] \in Nat /\ h[t] \in Nat
      BY <1>3, <1>4, <2>1 DEF Levels
    <3>2. h[m] <= pass + 1
      BY <1>1, <1>4, <1>10, <3>1
    <3>3. Stable(m)
      BY <1>3, <1>4, <3>2
    <3>4. depth'[m] = depth[m]
      <4>1. depth[m] \in Int /\ depth'[m] \in Int /\ depth[m] <= depth'[m]
        BY <1>4, <1>5, <1>6
      <4>2. ASSUME NEW p \in Above(m), depth'[m] = depth[p] + 1 PROVE depth'[m] <= depth[m]
        BY <3>3, <4>2 DEF Stable, Above
      <4>3. depth'[m] = depth[m] \/ \E p \in Above(m) : depth'[m] = depth[p] + 1
        BY <1>4, <1>6
      <4> QED BY <4>1, <4>2, <4>3
    <3>5. m \in Above(t)
      BY <2>1, <3>4 DEF Above
    <3> QED BY <1>6, <3>4, <3>5
  <2> QED BY <1>8, <2>1 DEF Stable
<1>11. ASSUME layout' = "park", NEW t \in Targets PROVE Stable(t)'
  <2>1. CASE pass' = NodeCount
    <3>1. h[t] <= pass' + 1
      BY <1>3, <2>1
    <3> QED BY <1>10, <3>1
  <2>2. CASE depth' = depth
    <3>1. \A m \in Above(t) : depth[m] + 1 <= depth[t]
      BY <1>6, <2>2
    <3> QED BY <1>8, <2>2, <3>1 DEF Stable, Above
  <2>3. pass' = NodeCount \/ depth' = depth
    BY <1>1, <1>11
  <2> QED BY <2>1, <2>2, <2>3
<1>12. layout' = "relax" => pass' < NodeCount
  BY <1>1, <1>2, <1>4
<1> QED BY <1>3, <1>7, <1>8, <1>9, <1>10, <1>11, <1>12 DEF RelaxInv

\* The nodes without a row get the rows below the others.
LEMMA ParkKeeps ==
  ASSUME LayoutTypeOK, RelaxInv, Park
  PROVE  LayoutTypeOK' /\ ReachedArrowsPointDown'
<1> DEFINE D == {n \in Names : depth[n] # -1}
           lost == {n \in Names : depth[n] = -1}
           used == {depth[t] : t \in Targets}
           upTo(n) == {m \in lost : m <= n}
<1>1. /\ layout = "park" /\ layout' = "done" /\ pass' = pass
      /\ arrows' = arrows /\ back' = back /\ color' = color /\ stack' = stack
      /\ depth' = [t \in Targets |-> IF t \in lost THEN Max(used) + Cardinality(upTo(t)) ELSE depth[t]]
  BY DEF Park
<1>2. LoopsFound /\ ReachFound /\ DepthInv /\ \A t \in Targets : Stable(t)
  BY <1>1 DEF RelaxInv
<1>3. Names \subseteq Targets /\ pass \in Nat /\ 1 \in Names /\ Targets \subseteq Nat /\ IsFiniteSet(Names)
  BY NodesAndTargets DEF LayoutTypeOK
<1>4. \A t \in Targets : depth[t] \in -1 .. pass
  BY <1>2 DEF DepthInv
<1>5. \A n \in Names, t \in Names : n \in D /\ <<n, t>> \in Forward => t \in D /\ depth[n] + 1 <= depth[t]
  <2> SUFFICES ASSUME NEW n \in Names, NEW t \in Names, n \in D, <<n, t>> \in Forward
               PROVE  t \in D /\ depth[n] + 1 <= depth[t]
    OBVIOUS
  <2>1. depth[n] + 1 <= depth[t]
    BY <1>2, <1>3 DEF Stable
  <2>2. depth[n] \in 0 .. pass /\ depth[t] \in -1 .. pass
    BY <1>3, <1>4
  <2>3. depth[t] # -1
    BY <2>1, <2>2
  <2> QED BY <2>1, <2>3
<1>6. \A n \in Names : Leads(1, n) <=> n \in D
  <2>1. PICK V \in SUBSET Names : 1 \in V /\ Closed(V) /\ \A C \in SUBSET Names : 1 \in C /\ Over(C) => V \subseteq C
    BY <1>2 DEF ReachFound
  <2>2. Over(D) /\ 1 \in D /\ D \in SUBSET Names
    BY <1>2, <1>3, <1>5 DEF Over, DepthInv
  <2>3. V \subseteq D
    BY <2>1, <2>2
  <2>4. \A n \in Names : Leads(1, n) => n \in D
    BY <2>1, <2>3 DEF Leads
  <2>5. \A n \in Names : n \in D => Leads(1, n)
    BY <1>2 DEF DepthInv
  <2> QED BY <2>4, <2>5
<1>7. Max(used) \in Int /\ \A t \in Targets : depth[t] <= Max(used)
  <2>1. \A t \in Targets : depth[t] \in Int /\ depth[t] <= pass
    BY <1>3, <1>4
  <2>2. \A t \in Targets : depth[t] \in used
    OBVIOUS
  <2>3. \A x \in used : x \in Int /\ x <= pass
    BY <2>1
  <2>4. used # {}
    BY <1>3, <2>2
  <2> HIDE DEF used
  <2>5. used \in SUBSET Int
    BY <2>3
  <2>6. pass \in Int
    BY <1>3
  <2>7. Max(used) \in used /\ \A x \in used : x <= Max(used)
    BY <2>3, <2>4, <2>5, <2>6, MaxOf
  <2> QED BY <2>2, <2>5, <2>7
<1>8. ASSUME NEW n \in lost
      PROVE  /\ IsFiniteSet(upTo(n)) /\ Cardinality(upTo(n)) \in Nat /\ Cardinality(upTo(n)) > 0
             /\ n \in upTo(n)
  <2>1. n \in upTo(n)
    BY <1>3, <1>8
  <2>2. upTo(n) \subseteq Names
    OBVIOUS
  <2> HIDE DEF upTo
  <2>3. IsFiniteSet(upTo(n))
    BY <1>3, <2>2, FS_Subset
  <2>4. Cardinality(upTo(n)) \in Nat
    BY <2>3, FS_CardinalityType
  <2>5. Cardinality(upTo(n)) # 0
    BY <2>1, <2>3, FS_EmptySet
  <2> QED BY <2>1, <2>3, <2>4, <2>5
<1>9. ASSUME NEW n \in lost, NEW m \in lost, n < m PROVE Cardinality(upTo(n)) < Cardinality(upTo(m))
  <2>0. lost \subseteq Nat
    BY <1>3
  <2>1. upTo(n) \subseteq upTo(m)
    <3>1. ASSUME NEW k \in lost, k <= n PROVE k <= m
      <4>1. k \in Nat /\ n \in Nat /\ m \in Nat
        BY <2>0, <1>9
      <4> HIDE DEF lost
      <4> QED BY <1>9, <3>1, <4>1
    <3> QED BY <3>1
  <2>2. m \notin upTo(n) /\ m \in upTo(m)
    <3>1. n \in Nat /\ m \in Nat
      BY <2>0, <1>9
    <3>2. ~(m <= n) /\ m <= m
      BY <1>9, <3>1
    <3> QED BY <3>2
  <2>3. /\ IsFiniteSet(upTo(m)) /\ Cardinality(upTo(m)) \in Nat
        /\ IsFiniteSet(upTo(n)) /\ Cardinality(upTo(n)) \in Nat
    BY <1>8
  <2> HIDE DEF upTo
  <2>4. Cardinality(upTo(n)) <= Cardinality(upTo(m)) /\ (Cardinality(upTo(n)) = Cardinality(upTo(m)) => upTo(n) = upTo(m))
    BY <2>1, <2>3, FS_Subset
  <2> QED BY <2>2, <2>3, <2>4
<1>10. /\ \A t \in Targets : t \notin lost => depth'[t] = depth[t]
       /\ \A t \in lost : t \in Targets /\ depth'[t] = Max(used) + Cardinality(upTo(t))
  BY <1>1, <1>3
<1>11. LayoutTypeOK'
  <2>1. \A t \in Targets : depth'[t] \in Int
    <3> HIDE DEF used, upTo, lost
    <3> QED BY <1>3, <1>4, <1>7, <1>8, <1>10
  <2>2. depth' \in [Targets -> Int]
    BY <1>1, <2>1
  <2> QED BY <1>1, <2>2 DEF LayoutTypeOK
<1>12. Forward' = Forward /\ LoopsFound'
  BY <1>1, <1>2, FoundStays
<1>13. \A arrow \in back' : Leads(arrow[2], arrow[1])'
  BY <1>12 DEF LoopsFound
<1>14. \A n \in Names : Leads(1, n)' <=> n \in D
  BY <1>1, <1>6, SameGraph
<1>15. {n \in Names : Leads(1, n)'} = D
  BY <1>14
<1>16. \A n \in D : depth'[n] = depth[n] /\ n \in Names
  BY <1>3, <1>10
<1>17. ASSUME NEW n \in D
       PROVE  depth'[n] = Max({0} \cup {depth'[m] + 1 : m \in {x \in D : <<x, n>> \in Forward}})
  <2> DEFINE S == {0} \cup {depth'[m] + 1 : m \in {x \in D : <<x, n>> \in Forward}}
  <2>1. depth[n] \in 0 .. pass /\ n \in Names /\ n \in Targets
    BY <1>3, <1>4
  <2>2. \A m \in D : <<m, n>> \in Forward => depth[m] + 1 <= depth[n] /\ depth[m] \in 0 .. pass
    BY <1>3, <1>4, <1>5, <2>1
  <2>3. \A x \in S : x \in Int /\ x <= depth[n]
    <3>1. 0 \in Int /\ 0 <= depth[n] /\ depth[n] \in Int
      BY <1>3, <2>1
    <3>2. \A m \in D : <<m, n>> \in Forward => depth'[m] + 1 \in Int /\ depth'[m] + 1 <= depth[n]
      <4>1. \A m \in D : <<m, n>> \in Forward => depth[m] \in Int
        BY <1>3, <2>2
      <4> HIDE DEF D
      <4> QED BY <1>16, <2>2, <4>1
    <3>3. \A x \in S : x = 0 \/ \E m \in D : <<m, n>> \in Forward /\ x = depth'[m] + 1
      OBVIOUS
    <3> HIDE DEF S, D
    <3> QED BY <3>1, <3>2, <3>3
  <2>4. depth[n] \in S
    <3>1. CASE depth[n] = 0
      BY <3>1
    <3>2. CASE depth[n] > 0
      <4>1. PICK m \in Names : <<m, n>> \in Forward /\ depth[m] >= depth[n] - 1
        BY <1>2, <2>1, <3>2 DEF DepthInv
      <4>2. m \in D
        BY <1>3, <1>4, <2>1, <3>2, <4>1
      <4>3. depth[m] + 1 = depth[n]
        BY <2>1, <2>2, <4>1, <4>2
      <4>4. depth'[m] + 1 \in S
        BY <4>1, <4>2
      <4> QED BY <1>16, <4>2, <4>3, <4>4
    <3> QED BY <2>1, <3>1, <3>2
  <2> HIDE DEF S, D
  <2>5. S \in SUBSET Int /\ S # {}
    BY <2>3, <2>4
  <2>a. depth[n] \in Int /\ \A x \in S : x <= depth[n]
    BY <1>3, <2>1, <2>3
  <2>6. Max(S) \in S /\ \A y \in S : y <= Max(S)
    BY <2>5, <2>a, MaxOf
  <2>b. Max(S) \in Int /\ Max(S) <= depth[n] /\ depth[n] <= Max(S)
    BY <2>3, <2>4, <2>6
  <2>7. Max(S) = depth[n]
    BY <2>a, <2>b
  <2> QED BY <1>16, <2>7 DEF S
<1>18. ASSUME NEW n \in lost, NEW m \in Names, m \in D \/ m < n PROVE depth'[m] < depth'[n]
  <2>1. /\ depth'[n] = Max(used) + Cardinality(upTo(n))
        /\ Cardinality(upTo(n)) \in Nat /\ Cardinality(upTo(n)) > 0
    BY <1>8, <1>10
  <2>2. CASE m \in D
    <3>1. depth'[m] = depth[m] /\ m \in Targets
      BY <1>3, <1>16, <2>2
    <3>2. depth[m] <= Max(used) /\ depth[m] \in -1 .. pass
      BY <1>4, <1>7, <3>1
    <3>3. depth[m] \in Int
      BY <1>3, <3>2
    <3> DEFINE c == Cardinality(upTo(n))
               r == Max(used)
    <3>4. c \in Nat /\ c > 0 /\ depth'[n] = r + c /\ r \in Int
      BY <1>7, <2>1
    <3>5. depth'[m] \in Int /\ depth'[m] <= r
      BY <3>1, <3>2, <3>3
    <3> HIDE DEF c, r
    <3> QED BY <3>4, <3>5
  <2>3. CASE m \in lost
    <3>1. depth'[m] = Max(used) + Cardinality(upTo(m)) /\ Cardinality(upTo(m)) \in Nat
      BY <1>8, <1>10, <2>3
    <3>2. m < n
      BY <1>18, <2>3
    <3>3. Cardinality(upTo(m)) < Cardinality(upTo(n))
      BY <1>9, <2>3, <3>2
    <3> DEFINE a == Cardinality(upTo(n))
               b == Cardinality(upTo(m))
               r == Max(used)
    <3>4. a \in Nat /\ b \in Nat /\ r \in Int /\ b < a /\ depth'[n] = r + a /\ depth'[m] = r + b
      BY <1>7, <2>1, <3>1, <3>3
    <3> HIDE DEF a, b, r
    <3> QED BY <3>4
  <2> QED BY <2>2, <2>3
<1>19. Names \ D = lost
  OBVIOUS
<1> HIDE DEF D, lost, used, upTo
<1>a. \A n \in D : depth'[n] = Max({0} \cup {depth'[m] + 1 : m \in {x \in D : <<x, n>> \in Forward'}})
  BY <1>12, <1>17
<1>b. \A n \in Names \ D, m \in Names : m \in D \/ m < n => depth'[m] < depth'[n]
  BY <1>18, <1>19
<1>20. ReachedArrowsPointDown'
  <2> SUFFICES LET reached == {n \in Names : Leads(1, n)'}
               IN  /\ \A arrow \in back' : Leads(arrow[2], arrow[1])'
                   /\ \A n \in reached :
                        depth'[n] = Max({0} \cup {depth'[m] + 1 : m \in {x \in reached : <<x, n>> \in Forward'}})
                   /\ \A n \in Names \ reached, m \in Names :
                        m \in reached \/ m < n => depth'[m] < depth'[n]
    BY DEF ReachedArrowsPointDown
  <2> QED BY <1>13, <1>15, <1>a, <1>b
<1> QED BY <1>11, <1>20

-----------------------------------------------------------------------------
\* The invariant holds at first.
LEMMA RenderInvInit == LayoutInit => RenderInv
<1> SUFFICES ASSUME LayoutInit PROVE RenderInv
  OBVIOUS
<1>1. Names \subseteq Targets /\ 1 \in Names /\ NodeCount \in Nat \ {0} /\ Graphs \subseteq [Names -> Seq(Targets)]
  BY NodesAndTargets, LayoutAssumption
<1>2. /\ arrows \in Graphs /\ layout = "search" /\ stack = <<>> /\ back = {} /\ pass = 0
      /\ color = [n \in Names |-> 0] /\ depth = FirstDepth
  BY DEF LayoutInit, FirstDepth
<1>3. LayoutTypeOK
  <2>1. depth \in [Targets -> Int] /\ color \in [Names -> 0 .. 2]
    BY <1>2 DEF FirstDepth
  <2>2. stack \in Seq(Frames) /\ pass \in 0 .. NodeCount
    BY <1>1, <1>2
  <2> QED BY <1>1, <1>2, <2>1, <2>2 DEF LayoutTypeOK
<1>4. DOMAIN stack = {} /\ \A n \in Names : color[n] = 0
  BY <1>2
<1>5. PathInv
  BY <1>4 DEF PathInv, Child
<1>6. ArrowInv /\ FirstInv
  BY <1>1, <1>2, <1>4 DEF ArrowInv, FirstInv
<1>7. [n \in Names |-> 0] \in [Names -> 0 .. NodeCount] /\ Ranked([n \in Names |-> 0])
  BY <1>1, <1>4 DEF Ranked, Finished
<1>8. SearchInv
  BY <1>2, <1>5, <1>6, <1>7 DEF SearchInv
<1> QED BY <1>2, <1>3, <1>8 DEF RenderInv, RelaxInv, ReachedArrowsPointDown

\* Nothing has happened.
LEMMA StutterKeeps ==
  ASSUME RenderInv, UNCHANGED layoutVars
  PROVE  RenderInv'
<1>1. /\ arrows' = arrows /\ color' = color /\ stack' = stack /\ back' = back
      /\ depth' = depth /\ pass' = pass /\ layout' = layout
  BY DEF layoutVars
<1>2. /\ \A n, t : IsArrow(n, t)' <=> IsArrow(n, t)
      /\ \A C : Closed(C)' <=> Closed(C)
      /\ \A s, t : Leads(s, t)' <=> Leads(s, t)
  BY <1>1, SameGraph
<1>3. \A n, t : Child(n, t)' <=> Child(n, t)
  BY <1>1 DEF Child
<1>4. /\ \A n, t : Followed(n, t)' <=> Followed(n, t)
      /\ \A n, t : Kept(n, t)' <=> Kept(n, t)
  BY <1>1, <1>2, <1>3 DEF Followed, Kept
<1>5. \A V : Spans(V)' <=> Spans(V)
  BY <1>4 DEF Spans
<1>6. LayoutTypeOK'
  BY <1>1 DEF RenderInv, LayoutTypeOK
<1>7. SearchInv'
  <2> SUFFICES ASSUME layout = "search" PROVE SearchInv'
    BY <1>1 DEF SearchInv
  <2>1. PathInv /\ ArrowInv /\ FirstInv /\ depth = FirstDepth /\ pass = 0
    BY DEF RenderInv, SearchInv
  <2>2. PICK rank \in [Names -> 0 .. NodeCount] : Ranked(rank)
    BY DEF RenderInv, SearchInv
  <2>3. PathInv'
    BY <1>1, <1>2, <1>3, <1>4, <2>1 DEF PathInv
  <2>4. ArrowInv'
    BY <1>1, <1>2, <2>1 DEF ArrowInv
  <2>5. Finished' = Finished
    BY <1>1 DEF Finished
  <2>6. FirstInv'
    BY <1>1, <1>2, <1>5, <2>1, <2>5 DEF FirstInv
  <2>7. Ranked(rank)'
    BY <1>1, <1>2, <2>2, <2>5 DEF Ranked
  <2> QED BY <1>1, <2>1, <2>3, <2>4, <2>6, <2>7 DEF SearchInv, FirstDepth
<1>8. Forward' = Forward
  BY <1>1 DEF Forward, IsArrow
<1>9. RelaxInv'
  <2> SUFFICES ASSUME layout \in {"relax", "park"} PROVE RelaxInv'
    BY <1>1 DEF RelaxInv
  <2>1. /\ LoopsFound /\ ReachFound /\ DepthInv
        /\ layout = "relax" => pass < NodeCount
        /\ layout = "park" => \A t \in Targets : Stable(t)
    BY DEF RenderInv, RelaxInv
  <2>2. \A t : Stable(t)' <=> Stable(t)
    BY <1>1, <1>8 DEF Stable
  <2>3. LoopsFound' /\ ReachFound' /\ DepthInv'
    <3>1. LoopsFound'
      BY <1>1, <1>2, <2>1 DEF LoopsFound
    <3>2. ReachFound'
      BY <1>2, <1>8, <2>1 DEF ReachFound, Over
    <3>3. DepthInv'
      BY <1>1, <1>2, <1>8, <2>1 DEF DepthInv
    <3> QED BY <3>1, <3>2, <3>3
  <2>4. ASSUME layout = "relax"
        PROVE  \E h \in [Targets -> 1 .. NodeCount + 1] :
                 Levels(h)' /\ \A t \in Targets : h[t] <= pass' + 1 => Stable(t)'
    <3>1. PICK h \in [Targets -> 1 .. NodeCount + 1] :
            Levels(h) /\ \A t \in Targets : h[t] <= pass + 1 => Stable(t)
      BY <2>4 DEF RenderInv, RelaxInv
    <3>2. Levels(h)'
      BY <1>8, <3>1 DEF Levels
    <3> QED BY <1>1, <2>2, <3>1, <3>2
  <2> QED BY <1>1, <2>1, <2>2, <2>3, <2>4 DEF RelaxInv
<1>10. ReachedArrowsPointDown'
  <2>1. {n \in Names : Leads(1, n)'} = {n \in Names : Leads(1, n)}
    BY <1>2
  <2> QED BY <1>1, <1>2, <1>8, <2>1 DEF RenderInv, ReachedArrowsPointDown
<1> QED BY <1>6, <1>7, <1>9, <1>10 DEF RenderInv

\* A color is a color.
LEMMA Recolored ==
  ASSUME color \in [Names -> 0 .. 2], NEW m, NEW c \in {1, 2}, color' = [color EXCEPT ![m] = c]
  PROVE  color' \in [Names -> 0 .. 2]
<1>1. c \in 0 .. 2
  OBVIOUS
<1> QED BY <1>1

\* The search begins another path, or is over.
LEMMA VisitKeeps ==
  ASSUME RenderInv, Visit
  PROVE  RenderInv'
<1>1. /\ layout = "search" /\ stack = <<>>
      /\ arrows' = arrows /\ back' = back /\ depth' = depth /\ pass' = pass
  BY DEF Visit
<1>2. LayoutTypeOK /\ PathInv /\ ArrowInv /\ FirstInv /\ depth = FirstDepth /\ pass = 0
  BY <1>1 DEF RenderInv, SearchInv
<1>3. PICK rank \in [Names -> 0 .. NodeCount] : Searching(rank)
  BY <1>1, <1>2 DEF RenderInv, SearchInv, Searching
<1> DEFINE new == {n \in Names : color[n] = 0}
<1>4. CASE new = {}
  <2>1. layout' = "relax" /\ color' = color /\ stack' = stack
    BY <1>4 DEF Visit
  <2>2. /\ LoopsFound /\ ReachFound
        /\ \E h \in [Targets -> 1 .. NodeCount + 1] : Levels(h)
    BY <1>1, <1>2, <1>3, <1>4, SearchEnds
  <2>3. PICK h \in [Targets -> 1 .. NodeCount + 1] : Levels(h)
    BY <2>2
  <2>4. Names \subseteq Targets /\ 1 \in Names /\ NodeCount \in Nat \ {0} /\ Targets \subseteq Nat
    BY NodesAndTargets
  <2>5. \A t \in Targets : depth[t] = IF t = 1 THEN 0 ELSE -1
    BY <1>2 DEF FirstDepth
  <2>6. DepthInv'
    <3>1. \A t \in Targets : depth'[t] \in -1 .. pass'
      BY <1>1, <1>2, <2>5
    <3>2. depth'[1] # -1
      BY <1>1, <2>4, <2>5
    <3>3. \A t \in Names : depth'[t] # -1 => Leads(1, t)'
      BY <1>1, <2>4, <2>5, LeadsOn, SameGraph
    <3>4. \A t \in Targets : ~(depth'[t] > 0)
      BY <1>1, <2>5
    <3> QED BY <3>1, <3>2, <3>3, <3>4 DEF DepthInv
  <2>7. Forward' = Forward /\ LoopsFound' /\ ReachFound' /\ Levels(h)'
    BY <1>1, <2>2, <2>3, FoundStays
  <2>8. ASSUME NEW t \in Targets, h[t] <= pass' + 1 PROVE Stable(t)'
    <3>1. ASSUME NEW m \in Names PROVE <<m, t>> \notin Forward
      <4>1. <<m, t>> \in Forward => h[m] < h[t]
        BY <2>3 DEF Levels
      <4>2. h[m] \in 1 .. NodeCount + 1 /\ h[t] \in 1 .. NodeCount + 1 /\ h[t] <= 1
        BY <1>1, <1>2, <2>4, <2>8
      <4> QED BY <2>4, <4>1, <4>2
    <3> QED BY <2>7, <3>1 DEF Stable
  <2>9. pass' < NodeCount
    BY <1>1, <1>2, <2>4
  <2>10. RelaxInv'
    BY <2>1, <2>3, <2>6, <2>7, <2>8, <2>9 DEF RelaxInv
  <2>11. LayoutTypeOK'
    BY <1>1, <1>2, <2>1 DEF LayoutTypeOK
  <2> QED BY <2>1, <2>10, <2>11 DEF RenderInv, SearchInv, ReachedArrowsPointDown
<1>5. CASE new # {}
  <2>1. PICK t : t = Min(new)
    OBVIOUS
  <2>2. stack' = <<[node |-> t, left |-> arrows[t]]>> /\ color' = [color EXCEPT ![t] = 1] /\ layout' = layout
    BY <1>5, <2>1 DEF Visit
  <2>3. new \in SUBSET Nat
    BY NodesAndTargets
  <2>4. t \in new /\ \A u \in new : t <= u
    <3> HIDE DEF new
    <3> QED BY <1>5, <2>1, <2>3, MinOf
  <2>5. Searching(rank)'
    BY <1>1, <1>2, <1>3, <2>2, <2>4, RootKeeps
  <2>6. LayoutTypeOK'
    <3>1. [node |-> t, left |-> arrows[t]] \in Frames
      BY <1>2, <2>4 DEF LayoutTypeOK, Frames
    <3>2. stack' \in Seq(Frames)
      BY <2>2, <3>1
    <3>3. color' \in [Names -> 0 .. 2]
      BY <1>2, <2>2, Recolored DEF LayoutTypeOK
    <3> QED BY <1>1, <1>2, <2>2, <3>2, <3>3 DEF LayoutTypeOK
  <2>7. SearchInv'
    BY <1>1, <1>2, <2>5 DEF SearchInv, Searching, FirstDepth
  <2> QED BY <1>1, <2>2, <2>6, <2>7 DEF RenderInv, RelaxInv, ReachedArrowsPointDown
<1> QED BY <1>4, <1>5

\* A turn of the search's loop.
LEMMA FollowKeeps ==
  ASSUME RenderInv, Follow
  PROVE  RenderInv'
<1>1. /\ layout = "search" /\ layout' = layout /\ stack # <<>>
      /\ arrows' = arrows /\ depth' = depth /\ pass' = pass
  BY DEF Follow
<1>2. LayoutTypeOK /\ PathInv /\ ArrowInv /\ FirstInv /\ depth = FirstDepth /\ pass = 0
  BY <1>1 DEF RenderInv, SearchInv
<1>3. PICK rank \in [Names -> 0 .. NodeCount] : Searching(rank)
  BY <1>1, <1>2 DEF RenderInv, SearchInv, Searching
<1>4. PICK L : L = Len(stack)
  OBVIOUS
<1>5. PICK n : n = stack[L].node
  OBVIOUS
<1>6. /\ L \in Nat \ {0} /\ n \in Names /\ stack[L].left \in Seq(Targets)
      /\ stack' \in Seq(Frames)
      /\ Pops(L, n) \/ \E t \in Targets : Passes(L, n, t) \/ Pushes(L, n, t)
  BY <1>2, <1>4, <1>5, FollowEffect
<1>7. \E r \in [Names -> 0 .. NodeCount] : Searching(r)'
  <2>1. CASE Pops(L, n)
    BY <1>1, <1>2, <1>3, <1>4, <1>5, <1>6, <2>1, PopKeeps
  <2>2. ASSUME NEW t \in Targets, Passes(L, n, t) PROVE Searching(rank)'
    BY <1>1, <1>2, <1>3, <1>4, <1>5, <1>6, <2>2, PassKeeps
  <2>3. ASSUME NEW t \in Targets, Pushes(L, n, t) PROVE Searching(rank)'
    BY <1>1, <1>2, <1>3, <1>4, <1>5, <1>6, <2>3, PushKeeps
  <2> QED BY <1>6, <2>1, <2>2, <2>3
<1>8. SearchInv'
  BY <1>1, <1>2, <1>7 DEF SearchInv, Searching, FirstDepth
<1>9. color' \in [Names -> 0 .. 2] /\ back' \subseteq Names \X Names
  <2>1. color \in [Names -> 0 .. 2] /\ back \subseteq Names \X Names
    BY <1>2 DEF LayoutTypeOK
  <2>2. CASE Pops(L, n)
    BY <1>6, <2>1, <2>2, Recolored DEF Pops
  <2>3. ASSUME NEW t \in Targets, Passes(L, n, t) PROVE  color' \in [Names -> 0 .. 2] /\ back' \subseteq Names \X Names
    BY <1>6, <2>1, <2>3 DEF Passes
  <2>4. ASSUME NEW t \in Targets, Pushes(L, n, t) PROVE  color' \in [Names -> 0 .. 2] /\ back' \subseteq Names \X Names
    BY <1>6, <2>1, <2>4, Recolored DEF Pushes
  <2> QED BY <1>6, <2>2, <2>3, <2>4
<1>10. LayoutTypeOK'
  BY <1>1, <1>2, <1>6, <1>9 DEF LayoutTypeOK
<1> QED BY <1>1, <1>8, <1>10 DEF RenderInv, RelaxInv, ReachedArrowsPointDown

\* The rows of a diagram (_back_edges, _assign_depths): whatever graph is drawn, the
\* arrows that were taken to close a loop do, the others between nodes that the start
\* reaches point down by the longest path, and the nodes that it does not reach are
\* parked below, each in a row of its own in document order.
THEOREM ReachedPartPointsDown == LayoutSpec => []ReachedArrowsPointDown
<1>1. RenderInv /\ Relax => RenderInv'
  <2> SUFFICES ASSUME RenderInv, Relax PROVE RenderInv'
    OBVIOUS
  <2>1. LayoutTypeOK' /\ RelaxInv'
    BY RelaxKeeps DEF RenderInv
  <2>2. layout' \notin {"search", "done"}
    BY DEF Relax
  <2> QED BY <2>1, <2>2 DEF RenderInv, SearchInv, ReachedArrowsPointDown
<1>2. RenderInv /\ Park => RenderInv'
  <2> SUFFICES ASSUME RenderInv, Park PROVE RenderInv'
    OBVIOUS
  <2>1. LayoutTypeOK' /\ ReachedArrowsPointDown'
    BY ParkKeeps DEF RenderInv
  <2>2. layout' = "done"
    BY DEF Park
  <2> QED BY <2>1, <2>2 DEF RenderInv, SearchInv, RelaxInv
<1>4. RenderInv /\ [LayoutNext]_layoutVars => RenderInv'
  BY <1>1, <1>2, StutterKeeps, VisitKeeps, FollowKeeps DEF LayoutNext
<1>5. RenderInv => ReachedArrowsPointDown
  BY DEF RenderInv
<1> QED BY <1>4, <1>5, RenderInvInit, PTL DEF LayoutSpec
=============================================================================
