------------------------------ MODULE TaskStore ------------------------------
(***************************************************************************)
(* Where a task logger's background writes go (workflow/tasklog/sqlite.py  *)
(* and postgres.py).  A write is a coroutine that connects if the logger   *)
(* has no connection yet, inserts and commits; several run at once, and    *)
(* they share the connection and its transaction.  Any of the awaits may   *)
(* raise (a locked file, a full disk, a value that is not serialisable):   *)
(* _on_task_done logs it and nobody else is told.  With ":memory:" each    *)
(* connection is a database of its own, reachable only through the logger. *)
(* close() waits for the writes it knows.                                  *)
(***************************************************************************)
EXTENDS FiniteSets

CONSTANTS Writes, Nil

ASSUME StoreAssumption == Nil \notin Writes

VARIABLES
  backend,   \* "memory", "file" or "postgres"
  conn,      \* self._conn: the write that opened the connection, or Nil
  dead,      \* connections that were closed
  write,     \* per write: the await it is at
  using,     \* its local variable conn
  rows,      \* <<write, connection>>: rows committed, and through which connection
  pending,   \* <<write, connection>>: rows in the open transaction of a connection
  closing,   \* close(), called once: "no", "flush", "close", "closed"
  awaited,   \* the writes flush() gathers
  owed,      \* history: what was logged and not written when close() was called
  undone,    \* history: writes whose row went when an error rolled the transaction back
  raced      \* history: two connections were being opened at once

storeVars == <<backend, conn, dead, write, using, rows, pending, closing, awaited, owed,
               undone, raced>>

StoreInit ==
  /\ backend \in {"memory", "file", "postgres"}
  /\ conn = Nil /\ dead = {}
  /\ write = [w \in Writes |-> "idle"] /\ using = [w \in Writes |-> Nil]
  /\ rows = {} /\ pending = {}
  /\ closing = "no" /\ awaited = {} /\ owed = {}
  /\ undone = {} /\ raced = FALSE

\* A write has ended by itself ("done", "skipped", or "failed" at an await of its own)
\* or because close() took the connection away ("lost").
Ended == {w \in Writes : write[w] \in {"done", "failed", "skipped", "lost"}}
Background == {w \in Writes \ Ended : write[w] # "idle"}
Opening == {w \in Writes : write[w] = "opening"}
At(w, label) == write' = [write EXCEPT ![w] = label]

\* log_node, log_model_call, _spawn.
Log(w) ==
  /\ write[w] = "idle"
  /\ At(w, "spawned")
  /\ UNCHANGED <<backend, conn, dead, using, rows, pending, closing, awaited, owed, undone, raced>>

Connect(w) ==
  /\ write[w] = "spawned" /\ backend # "postgres"
  /\ IF conn = Nil
     THEN At(w, "opening") /\ raced' = (raced \/ Opening # {}) /\ UNCHANGED using
     ELSE At(w, "insert") /\ using' = [using EXCEPT ![w] = conn] /\ UNCHANGED raced
  /\ UNCHANGED <<backend, conn, dead, rows, pending, closing, awaited, owed, undone>>

\* The script that creates the tables is queued before anyone else can use the
\* connection.
Opened(w) ==
  /\ write[w] = "opening"
  /\ \/ conn' = w /\ At(w, "script")
     \/ At(w, "failed") /\ UNCHANGED conn
  /\ UNCHANGED <<backend, dead, using, rows, pending, closing, awaited, owed, undone, raced>>

InTransaction(c) == {p \in pending : p[2] = c}

\* A commit stores what every write has put into the connection's transaction.
Committed(c) ==
  /\ rows' = rows \cup InTransaction(c)
  /\ pending' = pending \ InTransaction(c)
  /\ UNCHANGED undone

\* SQLite keeps the transaction after an error (a busy file) or rolls it back (a full
\* disk), the rows of the other writes included.
Raise(w, c) ==
  /\ At(w, "failed")
  /\ \/ UNCHANGED <<pending, undone>>
     \/ /\ pending' = pending \ InTransaction(c)
        /\ undone' = undone \cup {p[1] : p \in InTransaction(c)}
  /\ UNCHANGED rows

\* After the script the commit is of the connection that the logger has by then.  A
\* script that failed leaves the connection in place.
Scripted(w) ==
  /\ write[w] = "script"
  /\ \/ At(w, "failed") /\ UNCHANGED <<rows, pending, undone>>
     \/ conn \in dead \cup {Nil} /\ At(w, "lost") /\ UNCHANGED <<rows, pending, undone>>
     \/ conn \notin dead \cup {Nil} /\ At(w, "tables") /\ Committed(conn)
     \/ conn \notin dead \cup {Nil} /\ Raise(w, conn)
  /\ UNCHANGED <<backend, conn, dead, using, closing, awaited, owed, raced>>

\* _connect returns the connection that the logger has by then.
Created(w) ==
  /\ write[w] = "tables"
  /\ using' = [using EXCEPT ![w] = conn]
  /\ At(w, IF conn = Nil THEN "lost" ELSE "insert")
  /\ UNCHANGED <<backend, conn, dead, rows, pending, closing, awaited, owed, undone, raced>>

Insert(w) ==
  /\ write[w] = "insert"
  /\ \/ using[w] \in dead /\ At(w, "lost") /\ UNCHANGED <<rows, pending, undone>>
     \/ /\ using[w] \notin dead /\ At(w, "commit")
        /\ pending' = pending \cup {<<w, using[w]>>} /\ UNCHANGED <<rows, undone>>
     \/ using[w] \notin dead /\ Raise(w, using[w])
  /\ UNCHANGED <<backend, conn, dead, using, closing, awaited, owed, raced>>

CommitWrite(w) ==
  /\ write[w] = "commit"
  /\ \/ using[w] \in dead /\ At(w, "lost") /\ UNCHANGED <<rows, pending, undone>>
     \/ using[w] \notin dead /\ At(w, "done") /\ Committed(using[w])
     \/ using[w] \notin dead /\ Raise(w, using[w])
  /\ UNCHANGED <<backend, conn, dead, using, closing, awaited, owed, raced>>

\* Postgres: a node without run or session is skipped; add_task and
\* add_model_call_stats insert in a session of their own, and may fail.
AddTask(w) ==
  /\ write[w] = "spawned" /\ backend = "postgres"
  /\ \/ At(w, "done") /\ rows' = rows \cup {<<w, Nil>>}
     \/ At(w, "skipped") /\ UNCHANGED rows
     \/ At(w, "failed") /\ UNCHANGED rows
  /\ UNCHANGED <<backend, conn, dead, using, pending, closing, awaited, owed, undone, raced>>

\* Mutant: a write that has not begun is not waited for.
Begun == {w \in Background : write[w] # "spawned"}

Gathered == Background

Flush ==
  /\ closing = "no"
  /\ closing' = "flush"
  /\ awaited' = Gathered /\ owed' = Background
  /\ UNCHANGED <<backend, conn, dead, write, using, rows, pending, undone, raced>>

\* What is in the connection's transaction goes with it.
CloseConnection ==
  /\ closing = "flush"
  /\ awaited \subseteq Ended
  /\ closing' = IF conn = Nil THEN "closed" ELSE "close"
  /\ dead' = dead \cup ({conn} \ {Nil})
  /\ pending' = pending \ InTransaction(conn)
  /\ UNCHANGED <<backend, conn, write, using, rows, awaited, owed, undone, raced>>

\* The logger forgets whatever connection it has by then, and can be used again.
Forgotten ==
  /\ closing = "close"
  /\ conn' = Nil
  /\ closing' = "closed"
  /\ UNCHANGED <<backend, dead, write, using, rows, pending, awaited, owed, undone, raced>>

StoreNext ==
  \/ \E w \in Writes :
       \/ Log(w) \/ Connect(w) \/ Opened(w) \/ Scripted(w) \/ Created(w)
       \/ Insert(w) \/ CommitWrite(w) \/ AddTask(w)
  \/ Flush \/ CloseConnection \/ Forgotten

StoreSpec == StoreInit /\ [][StoreNext]_storeVars

\* "Await all pending background writes" (base.py:88): when close() takes the connection,
\* every write that was logged before it has ended, whichever await it was at, and
\* none because of the close: it was skipped, it failed at an await of its own, or its
\* row is stored, though the other writes commit, or fail, in the same transaction. The
\* exception is a row that an error of another write rolled back: its own commit
\* then finds nothing to do and succeeds. In a private database every row is within the
\* logger's reach until the close, unless two first writes opened a connection each.
FlushedWritesAreKept ==
  /\ closing \in {"close", "closed"} =>
       \A w \in owed :
         /\ w \in Ended /\ write[w] # "lost"
         /\ write[w] = "done" /\ w \notin undone => \E r \in rows : r[1] = w
  /\ backend = "memory" /\ ~raced /\ dead = {} => \A r \in rows : r[2] = conn
=============================================================================
