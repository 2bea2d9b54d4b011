---------------------------- MODULE BrowserStore ----------------------------
(***************************************************************************)
(* The SQLite database of a browser page (db.py init_sqlite_sync, flush;   *)
(* idb.py): a file in memory, loaded from IndexedDB by mount and copied    *)
(* back by flush.  Tasks of the page interleave at the awaits on           *)
(* FS.syncfs; the page may be reloaded at any time, with other code.       *)
(* IndexedDB applies the transactions of a page in their order.            *)
(***************************************************************************)
EXTENDS Integers, Sequences, SequencesExt

CONSTANTS PageTasks,  \* tasks of the page that call init_sqlite_sync and flush
          Rows,       \* rows the page may commit
          Versions    \* values of SQLITE_SCHEMA_VERSION in the code of a page

ASSUME BrowserAssumption == Versions \subseteq Nat \ {0}

VARIABLES
  stored,        \* the database in IndexedDB: its user_version and rows
  file,          \* the database file in memory
  mountPoint,    \* MOUNT_DIR is an IDBFS mount
  mounted,       \* _mounted
  prepared,      \* the engine exists and its tables were created
  version,       \* SQLITE_SCHEMA_VERSION of the page
  doing,         \* per task: what it awaits
  transactions,  \* copies on their way into IndexedDB: task and database
  atFlush,          \* history, per task: the rows committed when its flush began
  kept           \* history: rows a completed flush has made persistent

browserVars == <<stored, file, mountPoint, mounted, prepared, version, doing, transactions, atFlush, kept>>

NoDatabase == [version |-> 0, rows |-> {}]

BrowserInit ==
  /\ stored = NoDatabase /\ file = NoDatabase
  /\ mountPoint = FALSE /\ mounted = FALSE /\ prepared = FALSE
  /\ version \in Versions
  /\ doing = [p \in PageTasks |-> "idle"]
  /\ transactions = <<>>
  /\ atFlush = [p \in PageTasks |-> {}] /\ kept = {}

\* The tables of a database of another version are dropped before they are created.
Stale(database) == database.version \notin {0, version}

EnsureSchema(database) ==
  [version |-> version, rows |-> IF Stale(database) THEN {} ELSE database.rows]

\* mount is past, the schema is created and the copy to IndexedDB begins: no await between.
Prepare(p, database) ==
  /\ file' = EnsureSchema(database)
  /\ prepared' = TRUE /\ mounted' = TRUE
  /\ kept' = IF Stale(database) THEN {} ELSE kept
  /\ atFlush' = [atFlush EXCEPT ![p] = file'.rows]
  /\ doing' = [doing EXCEPT ![p] = "flush"]
  /\ UNCHANGED <<stored, mountPoint, version, transactions>>

\* Mutant: _mounted is set before the database is loaded.
MountedAtOnce(p) ==
  /\ ~ mountPoint
  /\ mountPoint' = TRUE /\ mounted' = TRUE
  /\ doing' = [doing EXCEPT ![p] = "load"]
  /\ UNCHANGED <<stored, file, prepared, version, transactions, atFlush, kept>>

\* A second mount of the directory is refused (EBUSY): the caller gets the error.
Mount(p) ==
  /\ ~ mountPoint
  /\ mountPoint' = TRUE
  /\ doing' = [doing EXCEPT ![p] = "load"]
  /\ UNCHANGED <<stored, file, mounted, prepared, version, transactions, atFlush, kept>>

InitSqlite(p) ==
  /\ doing[p] = "idle"
  /\ IF mounted THEN Prepare(p, file) ELSE Mount(p)

\* syncfs(True) completed, or failed and left the directory mounted and empty.
Load(p) == doing[p] = "load" /\ Prepare(p, stored)

LoadFails(p) ==
  /\ doing[p] = "load"
  /\ doing' = [doing EXCEPT ![p] = "idle"]
  /\ UNCHANGED <<stored, file, mountPoint, mounted, prepared, version, transactions, atFlush, kept>>

\* Without a completed mount, flush does nothing.
FlushFile(p) ==
  /\ doing[p] = "idle" /\ mounted
  /\ atFlush' = [atFlush EXCEPT ![p] = file.rows]
  /\ doing' = [doing EXCEPT ![p] = "flush"]
  /\ UNCHANGED <<stored, file, mountPoint, mounted, prepared, version, transactions, kept>>

\* syncfs(False) reads the file some time after it was called.
Copy(p) ==
  /\ doing[p] = "flush"
  /\ transactions' = Append(transactions, [task |-> p, database |-> file])
  /\ doing' = [doing EXCEPT ![p] = "store"]
  /\ UNCHANGED <<stored, file, mountPoint, mounted, prepared, version, atFlush, kept>>

\* The first transaction is applied, or aborted (no space): its flush returns or raises.
Store ==
  /\ transactions # <<>>
  /\ LET t == Head(transactions)
     IN  /\ doing' = [doing EXCEPT ![t.task] = "idle"]
         /\ \/ stored' = t.database /\ kept' = kept \cup atFlush[t.task]
            \/ UNCHANGED <<stored, kept>>
  /\ transactions' = Tail(transactions)
  /\ UNCHANGED <<file, mountPoint, mounted, prepared, version, atFlush>>

\* A session commits; the file is written at once.
Commit(r) ==
  /\ prepared /\ r \notin file.rows
  /\ file' = [file EXCEPT !.rows = @ \cup {r}]
  /\ UNCHANGED <<stored, mountPoint, mounted, prepared, version, doing, transactions, atFlush, kept>>

\* The page goes, with it the file; of the copies on their way some were applied.
Reload ==
  /\ \E n \in 0 .. Len(transactions) :
       stored' = IF n = 0 THEN stored ELSE transactions[n].database
  /\ version' \in Versions
  /\ file' = NoDatabase
  /\ mountPoint' = FALSE /\ mounted' = FALSE /\ prepared' = FALSE
  /\ doing' = [p \in PageTasks |-> "idle"]
  /\ transactions' = <<>> /\ atFlush' = [p \in PageTasks |-> {}]
  /\ UNCHANGED kept

BrowserNext ==
  \/ \E p \in PageTasks : InitSqlite(p) \/ Load(p) \/ LoadFails(p) \/ FlushFile(p) \/ Copy(p)
  \/ Store
  \/ \E r \in Rows : Commit(r)
  \/ Reload

BrowserSpec == BrowserInit /\ [][BrowserNext]_browserVars

Database == [version : Nat, rows : SUBSET Rows]

\* The types of the page's and the store's state.
BrowserTypeOK ==
  /\ stored \in Database /\ file \in Database
  /\ mountPoint \in BOOLEAN /\ mounted \in BOOLEAN /\ prepared \in BOOLEAN
  /\ version \in Versions
  /\ doing \in [PageTasks -> {"idle", "load", "flush", "store"}]
  /\ transactions \in Seq([task : PageTasks, database : Database])
  /\ atFlush \in [PageTasks -> SUBSET Rows]
  /\ kept \in SUBSET Rows

\* What was committed when a flush began that has completed stays in IndexedDB, and is
\* in the file once a page has loaded it, whatever is initialised, flushed and reloaded
\* meanwhile - until a page of another schema version drops the tables.
FlushedRowsSurvive == kept \subseteq stored.rows /\ (mounted => kept \subseteq file.rows)
=============================================================================
