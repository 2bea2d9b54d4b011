------------------------------ MODULE RagSqlite ------------------------------
(***************************************************************************)
(* SqliteRagService (kavalai/rag/sqllite.py): one table in a file that     *)
(* several services, each with a connection of its own, may have open.     *)
(* Coroutines of a service are suspended only in the embedding call and    *)
(* between two rows of an export; everything else is synchronous.  A write *)
(* is an implicit BEGIN, the statement and a commit(), and nothing rolls   *)
(* back when one of them raises.                                           *)
(***************************************************************************)
EXTENDS Integers, Sequences, SequencesExt

CONSTANTS Files,       \* services: open connections to one index file
          Readers,     \* coroutines
          FileOf,      \* the service a coroutine calls
          Widths,      \* dimensions an embedding may have
          ChunkIds,    \* row ids in the order of ORDER BY id
          FetchSize,   \* batch_size of iter_entries
          MaxUses      \* bound: calls of each coroutine

ASSUME SqliteAssumption ==
  /\ FileOf \in [Readers -> Files]
  /\ Widths \subseteq Nat \ {0}
  /\ ChunkIds \subseteq Nat
  /\ FetchSize \in Nat \ {0}

VARIABLES
  chunk,        \* embedding_size of each row of the file; 0: no such row
  pending,      \* the rows as the connection sees them whose changes are not committed
  txn,          \* open transaction of each connection, see below
  config,       \* dimension persisted in the file by the extension; 0: none
  dimension,    \* _dimension of each service; 0: None
  initialized,  \* _vector_initialized of each service
  doing,        \* what each coroutine is suspended in
  yielded,      \* ids its export has yielded
  lasting,      \* history: rows it has found and its own connection has not deleted since
  uses

fileRows == <<chunk, pending>>
sqliteVars == <<fileRows, txn, config, dimension, initialized, doing, yielded, lasting, uses>>

Doing(r, what) == doing' = [doing EXCEPT ![r] = what]

\* The table is created when the service is, if there is none (auto_create).
SqliteInit ==
  /\ chunk = [i \in ChunkIds |-> 0]
  /\ pending = chunk
  /\ txn = [f \in Files |-> "none"]
  /\ config = 0
  /\ dimension = [f \in Files |-> 0]
  /\ initialized = [f \in Files |-> FALSE]
  /\ doing = [r \in Readers |-> "nothing"]
  /\ yielded = [r \in Readers |-> <<>>]
  /\ lasting = [r \in Readers |-> {}]
  /\ uses = [r \in Readers |-> 0]

(***************************************************************************)
(* The locks of the file (external: SQLite with a rollback journal).  An   *)
(* export that is not exhausted holds the read lock, and so does whatever  *)
(* a connection reads in an open transaction, until its commit:            *)
(*   "none"     no transaction is open                                     *)
(*   "begun"    a write was refused after BEGIN                            *)
(*   "reading"  so it was, and the connection has read since               *)
(*   "changed"  a statement was executed and its commit() refused: the     *)
(*              changes are there for this connection and wait for its     *)
(*              next commit, and nobody else may begin to read or write    *)
(***************************************************************************)
Exporting(f) == \E x \in Readers : FileOf[x] = f /\ doing[x] = "export"
HoldsRead(f) == Exporting(f) \/ txn[f] \in {"reading", "changed"}
Refused(f) == \E g \in Files \ {f} : txn[g] = "changed"
MayRead(f) == HoldsRead(f) \/ ~Refused(f)
OthersRead(f) == \E g \in Files \ {f} : HoldsRead(g)

View(f) == IF txn[f] = "changed" THEN pending ELSE chunk
Stored(f) == {i \in ChunkIds : View(f)[i] > 0}

\* "database is locked": the statement raises, and the transaction stays open.
WriteRefused(f) ==
  /\ Refused(f)
  /\ txn' = [txn EXCEPT ![f] = IF HoldsRead(f) THEN "reading" ELSE "begun"]
  /\ UNCHANGED fileRows

\* The statement is executed; commit() raises while another connection reads.
Write(f, changed) ==
  /\ ~Refused(f)
  /\ pending' = changed
  /\ \/ OthersRead(f) /\ UNCHANGED chunk /\ txn' = [txn EXCEPT ![f] = "changed"]
     \/ ~OthersRead(f) /\ chunk' = changed /\ txn' = [txn EXCEPT ![f] = "none"]

\* A statement that only reads.
TakesReadLock(f) ==
  txn' = [txn EXCEPT ![f] = IF @ = "begun" /\ MayRead(f) THEN "reading" ELSE @]

Use(r) ==
  /\ doing[r] = "nothing"
  /\ uses[r] < MaxUses
  /\ uses' = [uses EXCEPT ![r] = @ + 1]
  /\ \/ /\ \E what \in {"index", "search"} : Doing(r, what)
        /\ lasting' = [lasting EXCEPT ![r] = {}]
        /\ UNCHANGED txn
     \/ /\ MayRead(FileOf[r])
        /\ Doing(r, "export")
        /\ lasting' = [lasting EXCEPT ![r] = Stored(FileOf[r])]
        /\ TakesReadLock(FileOf[r])
  /\ yielded' = [yielded EXCEPT ![r] = <<>>]
  /\ UNCHANGED <<fileRows, config, dimension, initialized>>

\* vector_init, once per service: the file keeps the dimension it was built with.
\* It is a SELECT, outside of any transaction unless one is open already.
VectorInit(f, d) ==
  /\ MayRead(f)
  /\ config = d \/ (config = 0 /\ ~OthersRead(f))

\* Mutant: an initialised service does not look at the dimension any more.
ReadyOnce(f, d) == initialized[f] \/ (dimension[f] \in {0, d} /\ VectorInit(f, d))

\* _ensure_vector_ready returns: the service and the file accept the dimension.
VectorReady(f, d) == dimension[f] \in {0, d} /\ (initialized[f] \/ VectorInit(f, d))

\* It may also raise, and then the service keeps the dimension it was first given.
EnsureVectorReady(f, d) ==
  /\ dimension' = [dimension EXCEPT ![f] = IF @ = 0 THEN d ELSE @]
  /\ initialized' = [initialized EXCEPT ![f] = @ \/ VectorReady(f, d)]
  /\ config' = IF VectorReady(f, d) /\ ~initialized[f] THEN d ELSE config

\* What was executed up to the vector_init that raises, or the scan.
ReadOnly(f, d) ==
  /\ IF dimension[f] \in {0, d} THEN TakesReadLock(f) ELSE UNCHANGED txn
  /\ UNCHANGED fileRows

IndexBatch(r) ==
  /\ doing[r] = "index"
  /\ LET f == FileOf[r]
     IN  \E d \in Widths :
           /\ EnsureVectorReady(f, d)
           /\ \/ ~VectorReady(f, d) /\ ReadOnly(f, d)
              \/ VectorReady(f, d) /\ WriteRefused(f)
              \/ /\ VectorReady(f, d)
                 /\ \E i \in ChunkIds : chunk[i] = 0 /\ pending[i] = 0 /\ Write(f, [View(f) EXCEPT ![i] = d])
  /\ Doing(r, "nothing")
  /\ UNCHANGED <<yielded, lasting, uses>>

\* The scan skips rows of another size than the registered dimension.
QueryBatch(r) ==
  /\ doing[r] = "search"
  /\ \E d \in Widths : EnsureVectorReady(FileOf[r], d) /\ ReadOnly(FileOf[r], d)
  /\ Doing(r, "nothing")
  /\ UNCHANGED <<yielded, lasting, uses>>

\* delete and delete_by_source_id
DeleteChunks(r) ==
  /\ doing[r] = "nothing"
  /\ uses[r] < MaxUses
  /\ uses' = [uses EXCEPT ![r] = @ + 1]
  /\ LET f == FileOf[r]
     IN  \/ WriteRefused(f) /\ UNCHANGED lasting
         \/ \E gone \in SUBSET Stored(f) :
              /\ Write(f, [i \in ChunkIds |-> IF i \in gone THEN 0 ELSE View(f)[i]])
              /\ lasting' = [x \in Readers |-> IF FileOf[x] = f THEN lasting[x] \ gone ELSE lasting[x]]
  /\ UNCHANGED <<config, dimension, initialized, doing, yielded>>

\* Mutant: every batch is a query of its own with an OFFSET.
FromOffset(r) ==
  LET found == Stored(FileOf[r])
  IN  {i \in found : Cardinality({o \in found : o < i}) >= Len(yielded[r])}

\* The cursor goes forward in the order of the ids, over the rows as the connection
\* sees them.
Ahead(r) == {i \in Stored(FileOf[r]) : yielded[r] = <<>> \/ i > Last(yielded[r])}

\* cursor.fetchmany(batch_size) of what is ahead
IsBatch(batch, ahead) ==
  /\ \A i, j \in DOMAIN batch : i < j => batch[i] < batch[j]
  /\ \A k \in ahead \ ToSet(batch) : Len(batch) = FetchSize /\ \A i \in DOMAIN batch : batch[i] < k

ExportBatch(r) ==
  /\ doing[r] = "export"
  /\ \E batch \in SeqOf(Ahead(r), FetchSize) :
       /\ IsBatch(batch, Ahead(r))
       /\ yielded' = [yielded EXCEPT ![r] = @ \o batch]
       /\ Doing(r, IF batch = <<>> THEN "nothing" ELSE "export")
  /\ UNCHANGED <<fileRows, txn, config, dimension, initialized, lasting, uses>>

SqliteNext ==
  \E r \in Readers : Use(r) \/ IndexBatch(r) \/ QueryBatch(r) \/ DeleteChunks(r) \/ ExportBatch(r)

SqliteSpec == SqliteInit /\ [][SqliteNext]_sqliteVars

\* "The scan functions silently skip rows whose blob size does not match the
\* registered dimension, so enforce consistency up front": no row that a connection
\* sees, committed or not, is one that a scan would skip, whichever services wrote it
\* (_ensure_vector_ready).
EveryRowIsScanned == \A f \in Files : \A i \in Stored(f) : View(f)[i] = config

\* An export that has ended listed what its connection saw all along, and nothing
\* twice.  Only the connection's own deletions are exempt, committed or not: whatever
\* the other services write, no commit of theirs gets between two of its batches.
SqliteExportIsComplete ==
  \A r \in Readers :
    /\ IsInjective(yielded[r])
    /\ doing[r] = "nothing" => lasting[r] \subseteq ToSet(yielded[r])
==============================================================================
