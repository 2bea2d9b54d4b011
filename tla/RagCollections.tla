--------------------------- MODULE RagCollections ---------------------------
(***************************************************************************)
(* PostgresRagService (kavalai/rag/postgres.py): collections that several  *)
(* services, usually one per process, create, fill, export and drop in one *)
(* database.  A collection is a table with a typed vector column and a row *)
(* of the registry.  Each service caches the registry rows it has seen and *)
(* is never told what the other services do.                               *)
(*                                                                         *)
(* A client is a coroutine of a service.  `pc` names the await it is       *)
(* suspended at; the statements of a transaction that takes the table's    *)
(* lock are one step with its commit.  Every await may raise.              *)
(***************************************************************************)
EXTENDS Integers, Sequences, SequencesExt

CONSTANTS Services,
          Clients,
          Host,        \* the service a client calls
          ModelDim,    \* dimension of a service's embedding model; 0: no model
          Sizes,       \* dimensions create_collection may be asked for
          Collections,
          Ids,         \* row identifiers: uuid4() takes any that is unused
          Ops,         \* operations the clients of the instance call
          BatchSize,   \* page of iter_entries
          MaxCalls,    \* bound: calls each client makes
          None

Queries == {"query", "join", "matrix"}       \* these embed a text and compare vectors
Operations == Queries \cup {"index", "create", "drop", "delete", "deleteAny", "list", "count", "learn", "export"}

ASSUME RagAssumption ==
  /\ Host \in [Clients -> Services]
  /\ ModelDim \in [Services -> Nat]
  /\ Sizes \subseteq Nat \ {0}
  /\ Ids \subseteq Nat
  /\ Ops \subseteq Operations
  /\ BatchSize \in Nat \ {0}
  /\ MaxCalls \in Nat
  /\ None \notin Nat \cup [dim : Nat, rows : SUBSET Ids]

VARIABLES
  table,      \* the table of each collection: its dimension and rows, or None
  registry,   \* embedding_size in the registry row of each collection, or None
  stranded,   \* history: tables whose registry row a drop deleted that had found no table
  ready,      \* _registry_ready of each service
  cache,      \* _collections of each service: the cached embedding_size, or None
  pc, op, target, size,
  todo,       \* collections delete() has still to load
  listed,     \* ids an export has yielded, in order
  steady,     \* history: rows an export has found and may expect to list
  owed,       \* the statistics of an embedding call are not committed yet
  calls

store == <<table, registry, stranded>>
vars == <<store, ready, cache, pc, op, target, size, todo, listed, steady, owed, calls>>
aux == <<op, target, size, calls>>

Dims == {ModelDim[s] : s \in Services} \cup Sizes
Rows(k) == IF table[k] = None THEN {} ELSE table[k].rows
Known(s, k) == cache[s][k] # None
UsedIds == UNION {Rows(k) : k \in Collections}

Init ==
  /\ table = [k \in Collections |-> None]
  /\ registry = [k \in Collections |-> None]
  /\ stranded = {}
  /\ ready = [s \in Services |-> FALSE]
  /\ cache = [s \in Services |-> [k \in Collections |-> None]]
  /\ pc = [c \in Clients |-> "idle"]
  /\ op = [c \in Clients |-> "list"]
  /\ target \in [Clients -> Collections]
  /\ size = [c \in Clients |-> 0]
  /\ todo = [c \in Clients |-> {}]
  /\ listed = [c \in Clients |-> <<>>]
  /\ steady = [c \in Clients |-> {}]
  /\ owed = [c \in Clients |-> FALSE]
  /\ calls = [c \in Clients |-> 0]

Await(c, label) == pc' = [pc EXCEPT ![c] = label]
Settle(c) == owed' = [owed EXCEPT ![c] = FALSE]   \* session.commit()
Remember(c, k, d) == cache' = [cache EXCEPT ![Host[c]][k] = d]

\* Rows that leave a collection are none an export can be expected to list.
Shrink(k, gone) == steady' = [c \in Clients |-> IF target[c] = k THEN steady[c] \ gone ELSE steady[c]]

(***************************************************************************)
(* A call begins: what embeds text awaits the provider first.              *)
(***************************************************************************)
Call(c) ==
  /\ pc[c] \in {"idle", "done", "failed"}
  /\ calls[c] < MaxCalls
  /\ calls' = [calls EXCEPT ![c] = @ + 1]
  /\ \E o \in Ops, k \in Collections, d \in Sizes :
       /\ op' = [op EXCEPT ![c] = o]
       /\ target' = [target EXCEPT ![c] = k]
       /\ size' = [size EXCEPT ![c] = IF o = "create" THEN d ELSE ModelDim[Host[c]]]
       /\ Await(c, CASE o \in Queries \cup {"index"} -> "embed"
                     [] o \in {"deleteAny", "list"} -> "names"
                     [] OTHER -> "load")
  /\ todo' = [todo EXCEPT ![c] = {}]
  /\ listed' = [listed EXCEPT ![c] = <<>>]
  /\ steady' = [steady EXCEPT ![c] = {}]
  /\ Settle(c)
  /\ UNCHANGED <<store, ready, cache>>

\* compute_embeddings returns, and session.add(stats) queues its usage.
Embedded(c) ==
  /\ pc[c] = "embed"
  /\ ModelDim[Host[c]] > 0
  /\ Await(c, "load")
  /\ owed' = [owed EXCEPT ![c] = TRUE]
  /\ UNCHANGED <<store, ready, cache, todo, listed, steady, aux>>

\* An await raises and the session rolls back: a missing table, another
\* dimension, a lost connection, no embedding model.
Fails(c) ==
  /\ pc[c] \notin {"idle", "done", "failed", "forget"}
  /\ Await(c, "failed")
  /\ UNCHANGED <<store, ready, cache, todo, listed, steady, owed, aux>>

\* _ensure_registry commits once per service.
EnsureRegistry(c) ==
  /\ pc[c] \in {"load", "names"}
  /\ ~ready[Host[c]]
  /\ pc[c] = "load" => ~Known(Host[c], target[c])
  /\ ready' = [ready EXCEPT ![Host[c]] = TRUE]
  /\ Settle(c)
  /\ UNCHANGED <<store, cache, pc, todo, listed, steady, aux>>

(***************************************************************************)
(* _load_collection: the cached entry, or the registry's, which is cached. *)
(* No release has registered an upgrade and the registry holds the current *)
(* schema_version, so _upgrade_collection returns at once.                 *)
(***************************************************************************)
Entry(s, k) == IF Known(s, k) THEN cache[s][k] ELSE registry[k]

\* What each operation does with the entry it loaded.
AfterLoad(c, d) ==
  IF d = None
  THEN CASE op[c] \in {"index", "create"} -> IF ModelDim[Host[c]] > 0 THEN "provision" ELSE "failed"
         [] op[c] = "learn" -> "failed"
         [] OTHER -> "done"
  ELSE CASE op[c] = "index" -> IF d = size[c] THEN "insert" ELSE "failed"
         [] op[c] = "create" -> IF d = size[c] THEN "done" ELSE "failed"
         [] op[c] \in Queries \cup {"count", "learn"} -> "select"
         [] op[c] = "export" -> "page"
         [] OTHER -> op[c]

\* Mutant: the early return for an unknown collection does not commit.
UnknownKeepsOwing(c, d) == UNCHANGED owed

\* "if info is None: await session.commit()": persists the embedding stats.
UnknownCommits(c, d) == IF d = None /\ op[c] \in Queries THEN Settle(c) ELSE UNCHANGED owed

Load(c) ==
  /\ pc[c] = "load"
  /\ ready[Host[c]] \/ Known(Host[c], target[c])
  /\ LET k == target[c]
         d == Entry(Host[c], k)
     IN  /\ Remember(c, k, d)
         /\ Await(c, AfterLoad(c, d))
         /\ UnknownCommits(c, d)
         /\ steady' = [steady EXCEPT ![c] = IF AfterLoad(c, d) = "page" THEN Rows(k) ELSE {}]
  /\ UNCHANGED <<store, ready, todo, listed, aux>>

(***************************************************************************)
(* _ensure_collection                                                      *)
(***************************************************************************)
\* Mutant: ON CONFLICT (name) DO UPDATE.
RegisterOrReplace(k, d) == [registry EXCEPT ![k] = d]

\* INSERT ... ON CONFLICT (name) DO NOTHING.
Register(k, d) == [registry EXCEPT ![k] = IF @ = None THEN d ELSE @]

\* CREATE TABLE and CREATE INDEX IF NOT EXISTS, the registry row, one commit.
Provision(c) ==
  /\ pc[c] = "provision"
  /\ LET k == target[c]
     IN  /\ table' = [table EXCEPT ![k] = IF @ = None THEN [dim |-> size[c], rows |-> {}] ELSE @]
         /\ registry' = Register(k, size[c])
         /\ UNCHANGED stranded
  /\ Settle(c)
  /\ Await(c, "remember")
  /\ UNCHANGED <<ready, cache, todo, listed, steady, aux>>

\* After the commit the service caches what it asked for.
Provisioned(c) ==
  /\ pc[c] = "remember"
  /\ Remember(c, target[c], size[c])
  /\ Await(c, IF op[c] = "index" THEN "insert" ELSE "done")
  /\ UNCHANGED <<store, ready, todo, listed, steady, owed, aux>>

\* The typed column takes vectors of its own dimension only.
Insert(c) ==
  /\ pc[c] = "insert"
  /\ LET k == target[c]
     IN  /\ table[k] # None
         /\ table[k].dim = size[c]
         /\ \E id \in Ids \ UsedIds : table' = [table EXCEPT ![k].rows = @ \cup {id}]
  /\ Settle(c)
  /\ Await(c, "done")
  /\ UNCHANGED <<registry, stranded, ready, cache, todo, listed, steady, aux>>

(***************************************************************************)
(* drop_collection: the transaction, and then the cache of this service.   *)
(* DROP TABLE IF EXISTS takes the table's lock, so that what follows is    *)
(* one step.  Of a table that is gone it locks nothing, and the DELETE is  *)
(* a statement of its own that sees whatever is committed by then.         *)
(***************************************************************************)
Unregister(k) == [registry EXCEPT ![k] = None]

Drop(c) ==
  /\ pc[c] = "drop"
  /\ table[target[c]] # None
  /\ table' = [table EXCEPT ![target[c]] = None]
  /\ registry' = Unregister(target[c])
  /\ stranded' = stranded \ {target[c]}
  /\ Shrink(target[c], Rows(target[c]))
  /\ Settle(c)
  /\ Await(c, "forget")
  /\ UNCHANGED <<ready, cache, todo, listed, aux>>

DropNothing(c) ==
  /\ pc[c] = "drop"
  /\ table[target[c]] = None
  /\ Await(c, "unregister")
  /\ UNCHANGED <<store, ready, cache, todo, listed, steady, owed, aux>>

DeleteEntry(c) ==
  /\ pc[c] = "unregister"
  /\ registry' = Unregister(target[c])
  /\ stranded' = IF table[target[c]] = None THEN stranded ELSE stranded \cup {target[c]}
  /\ Settle(c)
  /\ Await(c, "forget")
  /\ UNCHANGED <<table, ready, cache, todo, listed, steady, aux>>

Forget(c) ==
  /\ pc[c] = "forget"
  /\ Remember(c, target[c], None)
  /\ Await(c, "done")
  /\ UNCHANGED <<store, ready, todo, listed, steady, owed, aux>>

(***************************************************************************)
(* Statements that read one collection, and the commit after them.         *)
(***************************************************************************)
Read(c) ==
  /\ pc[c] = "select"
  /\ table[target[c]] # None
  /\ Settle(c)
  /\ Await(c, "done")
  /\ UNCHANGED <<store, ready, cache, todo, listed, steady, aux>>

\* A vector of another dimension cannot be compared with the column.
Comparable(c) == table[target[c]].dim = size[c]

Query(c) == op[c] = "query" /\ Read(c) /\ Comparable(c)

QueryWithJoin(c) == op[c] = "join" /\ Read(c) /\ Comparable(c)

SimilarityMatrix(c) == op[c] = "matrix" /\ Read(c) /\ Comparable(c)

\* count_entries, get_embeddings_by_ids
Count(c) == op[c] = "count" /\ Read(c)

\* There is no mean of no vectors.
LearnNormalizer(c) == op[c] = "learn" /\ Read(c) /\ Rows(target[c]) # {}

\* delete and delete_by_source_id in one collection.
Delete(c) ==
  /\ pc[c] = "delete"
  /\ table[target[c]] # None
  /\ \E gone \in SUBSET Rows(target[c]) :
       /\ table' = [table EXCEPT ![target[c]].rows = @ \ gone]
       /\ Shrink(target[c], gone)
  /\ Settle(c)
  /\ Await(c, "done")
  /\ UNCHANGED <<registry, stranded, ready, cache, todo, listed, aux>>

(***************************************************************************)
(* list_collections counts every table the registry named; delete() in no  *)
(* particular collection lists them and then loads one after the other.    *)
(***************************************************************************)
SelectNames(c) ==
  /\ pc[c] = "names"
  /\ ready[Host[c]]
  /\ todo' = [todo EXCEPT ![c] = {k \in Collections : registry[k] # None}]
  /\ Await(c, "counts")
  /\ UNCHANGED <<store, ready, cache, listed, steady, owed, aux>>

CountEach(c) ==
  /\ pc[c] = "counts"
  /\ \A k \in todo[c] : table[k] # None
  /\ Settle(c)
  /\ Await(c, IF op[c] = "list" THEN "done" ELSE "loadEach")
  /\ UNCHANGED <<store, ready, cache, todo, listed, steady, aux>>

\* An entry that is gone is None, on which info.table_name raises.
LoadEach(c) ==
  /\ pc[c] = "loadEach"
  /\ \A k \in todo[c] : Entry(Host[c], k) # None
  /\ cache' = [cache EXCEPT ![Host[c]] = [k \in Collections |-> IF k \in todo[c] THEN Entry(Host[c], k) ELSE @[k]]]
  /\ Await(c, "deleteEach")
  /\ UNCHANGED <<store, ready, todo, listed, steady, owed, aux>>

DeleteEach(c) ==
  /\ pc[c] = "deleteEach"
  /\ \A k \in todo[c] : table[k] # None
  /\ \E id \in Ids :
       /\ table' = [k \in Collections |-> IF k \in todo[c] THEN [table[k] EXCEPT !.rows = @ \ {id}] ELSE table[k]]
       /\ steady' = [x \in Clients |-> steady[x] \ {id}]
  /\ Settle(c)
  /\ Await(c, "done")
  /\ UNCHANGED <<registry, stranded, ready, cache, todo, listed, aux>>

(***************************************************************************)
(* iter_entries: keyset pagination, one statement per page.                *)
(***************************************************************************)
\* Mutant: OFFSET pagination.
OffsetPage(c, rows) ==
  {id \in rows : Cardinality({o \in rows : o < id}) >= Len(listed[c])}

\* WHERE id > :last_id
Beyond(c, rows) == {id \in rows : listed[c] = <<>> \/ id > Last(listed[c])}

\* ORDER BY id ASC LIMIT :batch_size
IsPage(page, rows) ==
  /\ \A i, j \in DOMAIN page : i < j => page[i] < page[j]
  /\ \A id \in rows \ ToSet(page) : Len(page) = BatchSize /\ \A i \in DOMAIN page : page[i] < id

Page(c) ==
  /\ pc[c] = "page"
  /\ table[target[c]] # None
  /\ LET rest == Beyond(c, Rows(target[c]))
     IN  \E page \in SeqOf(rest, BatchSize) :
           /\ IsPage(page, rest)
           /\ listed' = [listed EXCEPT ![c] = @ \o page]
           /\ Await(c, IF page = <<>> THEN "done" ELSE "page")
  /\ UNCHANGED <<store, ready, cache, todo, steady, owed, aux>>

Ended == \A c \in Clients : pc[c] \in {"idle", "done", "failed"} /\ calls[c] = MaxCalls

Next ==
  \/ \E c \in Clients :
       \/ Call(c) \/ Embedded(c) \/ Fails(c) \/ EnsureRegistry(c) \/ Load(c)
       \/ Provision(c) \/ Provisioned(c) \/ Insert(c)
       \/ Drop(c) \/ DropNothing(c) \/ DeleteEntry(c) \/ Forget(c) \/ Delete(c)
       \/ Query(c) \/ QueryWithJoin(c) \/ SimilarityMatrix(c) \/ Count(c) \/ LearnNormalizer(c)
       \/ SelectNames(c) \/ CountEach(c) \/ LoadEach(c) \/ DeleteEach(c) \/ Page(c)
  \/ Ended /\ UNCHANGED vars

Spec == Init /\ [][Next]_vars

(***************************************************************************)
(* Properties                                                              *)
(***************************************************************************)
\* Every table has a dimension and rows, every cached entry is a dimension, and
\* every call is suspended at an await of its own operation.
TypeOK ==
  /\ table \in [Collections -> {None} \cup [dim : Dims \ {0}, rows : SUBSET Ids]]
  /\ registry \in [Collections -> {None} \cup (Dims \ {0})]
  /\ stranded \subseteq Collections
  /\ ready \in [Services -> BOOLEAN]
  /\ cache \in [Services -> [Collections -> {None} \cup (Dims \ {0})]]
  /\ pc \in [Clients -> {"idle", "embed", "load", "provision", "remember", "insert", "drop", "unregister", "forget",
                          "select", "delete", "names", "counts", "loadEach", "deleteEach", "page",
                          "done", "failed"}]
  /\ op \in [Clients -> Operations]
  /\ target \in [Clients -> Collections]
  /\ size \in [Clients -> Dims \cup {0}]
  /\ todo \in [Clients -> SUBSET Collections]
  /\ listed \in [Clients -> Seq(Ids)]
  /\ steady \in [Clients -> SUBSET Ids]
  /\ owed \in [Clients -> BOOLEAN]
  /\ calls \in [Clients -> 0 .. MaxCalls]

\* The registry names exactly the tables there are, each with the dimension of its
\* vector column: two services that provision or drop one collection at once, each
\* with its own idea of the dimension, leave no entry without a table, no table
\* without an entry and no entry with the loser's dimension (_ensure_collection,
\* drop_collection).  The exception is a drop that found the table gone and then
\* deleted the entry of one provisioned in between: its table is stranded until the
\* next drop, without an entry or with that of whoever provisions it again.
RegistryDescribesTables ==
  \A k \in Collections :
    /\ table[k] = None => registry[k] = None
    /\ table[k] # None /\ k \notin stranded => registry[k] = table[k].dim

\* An export that ends has listed every row that was there from its first statement
\* to its last, and no row twice, whatever is inserted and deleted between two of
\* its pages (iter_entries).
ExportIsComplete ==
  \A c \in Clients :
    op[c] = "export" =>
      /\ IsInjective(listed[c])
      /\ pc[c] = "done" => steady[c] \subseteq ToSet(listed[c])

\* A call that ends well has committed the usage of its embedding call, on the early
\* return for an unknown collection, too (query_batch, index_batch).
UsageIsRecorded ==
  \A c \in Clients : pc[c] = "done" => ~owed[c]

=============================================================================
