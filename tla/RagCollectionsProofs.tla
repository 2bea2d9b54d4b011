------------------------ MODULE RagCollectionsProofs ------------------------
(***************************************************************************)
(* The storage backends of retrieval, for any services, models, clients,   *)
(* collections and numbers of calls.  PostgreSQL: the registry describes   *)
(* the tables, the usage of an embedding call is committed, exports are    *)
(* complete.  SQLite: a scan reads every row, exports are complete.  Both: *)
(* what a similarity search returns.                                       *)
(***************************************************************************)
EXTENDS RagCollections, RagSqlite, RagSearch, SequenceTheorems, FiniteSetTheorems,
        WellFoundedInduction, NaturalsInduction, TLAPS

\* The awaits of a call.
Awaits ==
  {"idle", "embed", "load", "provision", "remember", "insert", "drop",
   "unregister", "forget", "select",
   "delete", "names", "counts", "loadEach", "deleteEach", "page", "done", "failed"}

\* The types of what the two properties are about, and the size a call asks for:
\* only one that is a dimension gets as far as the table.
TypeInv ==
  /\ table \in [Collections -> {None} \cup [dim : Dims \ {0}, rows : SUBSET Ids]]
  /\ registry \in [Collections -> {None} \cup (Dims \ {0})]
  /\ cache \in [Services -> [Collections -> {None} \cup (Dims \ {0})]]
  /\ pc \in [Clients -> Awaits]
  /\ op \in [Clients -> Operations]
  /\ target \in [Clients -> Collections]
  /\ size \in [Clients -> Dims \cup {0}]
  /\ owed \in [Clients -> BOOLEAN]
  /\ \A c \in Clients : op[c] = "create" => size[c] \in Sizes
  /\ \A c \in Clients : op[c] = "index" => size[c] = ModelDim[Host[c]]
  /\ \A c \in Clients : pc[c] = "embed" => op[c] \in Queries \cup {"index"}
  /\ \A c \in Clients : pc[c] = "load" => op[c] \notin {"deleteAny", "list"}
  /\ \A c \in Clients : pc[c] \in {"provision", "remember", "insert"} => size[c] # 0

\* Where a call is whose embedding is not paid for yet.
OwedInv ==
  \A c \in Clients : owed[c] =>
    /\ op[c] \in Queries \cup {"index"}
    /\ pc[c] \in {"load", "provision", "insert", "select", "failed"}

RagInv == TypeInv /\ OwedInv /\ RegistryDescribesTables

\* An entry that is found is a dimension; so is what a call for a new table asks for.
LEMMA EntryType ==
  ASSUME TypeInv, NEW s \in Services, NEW k \in Collections
  PROVE  Entry(s, k) \in {None} \cup (Dims \ {0})
BY DEF TypeInv, Entry, Known

\* A dimension is never mistaken for a missing one.
LEMMA DimsAreNumbers == Dims \subseteq Nat /\ None \notin Dims
<1>1. \A s \in Services : ModelDim[s] \in Nat
  BY RagAssumption
<1>2. QED
  BY <1>1, RagAssumption DEF Dims

\* A table is never mistaken for a missing one.
LEMMA NoneIsNoTable == ASSUME NEW d \in Dims, NEW R \in SUBSET Ids PROVE [dim |-> d, rows |-> R] # None
<1>1. [dim |-> d, rows |-> R] \in [dim : Nat, rows : SUBSET Ids]
  BY DimsAreNumbers
<1>2. QED
  BY <1>1, RagAssumption

\* The invariant holds at first.
LEMMA RagInvInit == Init => RagInv
<1> SUFFICES ASSUME Init PROVE RagInv
  OBVIOUS
<1>1. TypeInv
  <2>1. \A c \in Clients : Host[c] \in Services /\ size[c] = 0 /\ op[c] = "list" /\ pc[c] = "idle"
    BY RagAssumption DEF Init
  <2>2. QED
    BY <2>1 DEF Init, TypeInv, Operations, Queries, Awaits
<1>2. OwedInv
  BY DEF Init, OwedInv
<1>3. RegistryDescribesTables
  BY DEF Init, RegistryDescribesTables
<1>4. QED
  BY <1>1, <1>2, <1>3 DEF RagInv

\* The steps that leave tables and registry alone, and what an embedding call owes.
LEMMA CallKeeps == ASSUME RagInv, NEW c \in Clients, Call(c) PROVE RagInv'
<1> USE DEF RagInv
<1>1. PICK o \in Ops, k \in Collections, d \in Sizes :
        /\ op' = [op EXCEPT ![c] = o]
        /\ target' = [target EXCEPT ![c] = k]
        /\ size' = [size EXCEPT ![c] = IF o = "create" THEN d ELSE ModelDim[Host[c]]]
        /\ Await(c, CASE o \in Queries \cup {"index"} -> "embed"
                      [] o \in {"deleteAny", "list"} -> "names"
                      [] OTHER -> "load")
  BY DEF Call
<1>2. o \in Operations /\ Host[c] \in Services /\ d \in Dims /\ ModelDim[Host[c]] \in Dims
  BY RagAssumption DEF Dims
<1>3. pc'[c] \in {"embed", "names", "load"} /\ \A x \in Clients \ {c} : pc'[x] = pc[x]
  BY <1>1 DEF Await, TypeInv
<1>4. pc' \in [Clients -> Awaits]
  <2>1. pc' = [pc EXCEPT ![c] = pc'[c]]
    BY <1>1 DEF Await, TypeInv
  <2>2. QED
    BY <2>1, <1>3 DEF TypeInv, Awaits
<1>5. TypeInv'
  <2>1. /\ \A x \in Clients : op'[x] = "create" => size'[x] \in Sizes
        /\ \A x \in Clients : op'[x] = "index" => size'[x] = ModelDim[Host[x]]
    BY <1>1, <1>2 DEF TypeInv
  <2>2. \A x \in Clients : pc'[x] \in {"provision", "remember", "insert"} => size'[x] # 0
    BY <1>1, <1>3 DEF TypeInv
  <2>6. \A x \in Clients :
          /\ pc'[x] = "embed" => op'[x] \in Queries \cup {"index"}
          /\ pc'[x] = "load" => op'[x] \notin {"deleteAny", "list"}
    <3>1. /\ pc'[c] = "embed" => o \in Queries \cup {"index"}
          /\ pc'[c] = "load" => o \notin {"deleteAny", "list"}
      BY <1>1 DEF Await, TypeInv, Queries
    <3>2. QED
      BY <3>1, <1>1, <1>3 DEF TypeInv
  <2>3. op' \in [Clients -> Operations] /\ target' \in [Clients -> Collections] /\ size' \in [Clients -> Dims \cup {0}]
    BY <1>1, <1>2 DEF TypeInv
  <2>4. owed' \in [Clients -> BOOLEAN] /\ UNCHANGED <<table, registry, cache>>
    BY DEF Call, Settle, TypeInv, store
  <2>5. QED
    BY <1>4, <2>1, <2>2, <2>3, <2>4, <2>6 DEF TypeInv
<1>6. OwedInv'
  BY <1>1, <1>3 DEF Call, Settle, OwedInv, TypeInv
<1>7. RegistryDescribesTables'
  BY DEF Call, store, RegistryDescribesTables
<1>8. QED
  BY <1>5, <1>6, <1>7

\* A step that only moves a call on, to an await where it owes nothing or may still
\* owe what it did, and commits or not.
LEMMA MoveKeeps ==
  ASSUME RagInv, NEW c \in Clients, NEW label \in Awaits, Await(c, label),
         UNCHANGED <<store, cache, op, target, size>>,
         Settle(c) \/ UNCHANGED owed,
         label \notin {"provision", "remember", "insert", "embed"},
         label = "load" => op[c] \notin {"deleteAny", "list"},
         owed'[c] => label \in {"load", "select", "failed"} /\ op[c] \in Queries \cup {"index"}
  PROVE  RagInv'
<1> USE DEF RagInv
<1>1. TypeInv'
  BY DEF TypeInv, Await, Settle, store, Awaits
<1>2. OwedInv'
  BY DEF TypeInv, OwedInv, Await, Settle
<1>3. RegistryDescribesTables'
  BY DEF RegistryDescribesTables, store
<1>4. QED
  BY <1>1, <1>2, <1>3

\* A client reads the row of the collection.
LEMMA LoadKeeps == ASSUME RagInv, NEW c \in Clients, Load(c) PROVE RagInv'
<1> USE DEF RagInv
<1> DEFINE k == target[c]
           d == Entry(Host[c], k)
           label == AfterLoad(c, d)
<1>1. k \in Collections /\ Host[c] \in Services /\ op[c] \in Operations /\ size[c] \in Dims \cup {0}
  BY RagAssumption DEF TypeInv
<1>2. d \in {None} \cup (Dims \ {0})
  BY <1>1, EntryType
<1>3. ModelDim[Host[c]] \in Nat /\ None \notin Dims /\ Sizes \subseteq Nat \ {0}
  BY <1>1, RagAssumption DEF Dims
<1>4. /\ Await(c, label) /\ Remember(c, k, d) /\ UnknownCommits(c, d)
      /\ UNCHANGED <<store, op, target, size>>
  BY DEF Load, aux
<1>5. label \in Awaits
  <2>1. CASE d = None
    BY <2>1 DEF AfterLoad, Awaits
  <2>2. CASE d # None /\ op[c] \in {"index", "create"}
    BY <2>2 DEF AfterLoad, Awaits
  <2>3. CASE d # None /\ op[c] \notin {"index", "create"}
    <3>1. op[c] \notin {"deleteAny", "list"}
      BY DEF Load, TypeInv
    <3>2. QED
      BY <2>3, <3>1, <1>1 DEF AfterLoad, Awaits, Operations, Queries
  <2>4. QED
    BY <2>1, <2>2, <2>3
<1>6. label \in {"provision", "remember", "insert"} => size[c] # 0
  BY <1>1, <1>2, <1>3 DEF AfterLoad, Operations, Queries, TypeInv
<1>7. owed'[c] =>
        /\ op[c] \in Queries \cup {"index"}
        /\ label \in {"load", "provision", "insert", "select", "failed"}
  <2>1. SUFFICES ASSUME owed'[c] PROVE op[c] \in Queries \cup {"index"} /\ label \in {"load", "provision", "insert", "select", "failed"}
    OBVIOUS
  <2>2. owed[c] /\ ~ (d = None /\ op[c] \in Queries)
    BY <2>1, <1>4 DEF UnknownCommits, Settle, TypeInv
  <2>3. op[c] \in Queries \cup {"index"}
    BY <2>2 DEF OwedInv
  <2>4. QED
    <3>1. CASE op[c] \in Queries
      BY <3>1, <2>2 DEF AfterLoad, Queries
    <3>2. CASE op[c] = "index"
      BY <3>2 DEF AfterLoad
    <3>3. QED
      BY <3>1, <3>2, <2>3
<1>8. TypeInv'
  <2>1. cache' \in [Services -> [Collections -> {None} \cup (Dims \ {0})]]
    BY <1>1, <1>2, <1>4 DEF Remember, TypeInv
  <2>2. owed' \in [Clients -> BOOLEAN]
    BY <1>4 DEF UnknownCommits, Settle, TypeInv
  <2>4. label \notin {"load", "embed"}
    <3>1. op[c] \notin {"load", "embed"}
      BY <1>1 DEF Operations, Queries
    <3>2. QED
      BY <3>1 DEF AfterLoad
  <2> HIDE DEF label
  <2>3. QED
    BY <1>4, <1>5, <1>6, <2>1, <2>2, <2>4 DEF TypeInv, Await, store
<1>9. OwedInv'
  <2>1. \A x \in Clients \ {c} : owed'[x] = owed[x]
    BY <1>4 DEF UnknownCommits, Settle, TypeInv
  <2> HIDE DEF label
  <2>2. QED
    BY <1>4, <1>7, <2>1 DEF OwedInv, Await, TypeInv
<1>10. RegistryDescribesTables'
  BY <1>4 DEF RegistryDescribesTables, store
<1>11. QED
  BY <1>8, <1>9, <1>10

\* The table and its row are created, or found.
LEMMA ProvisionKeeps == ASSUME RagInv, NEW c \in Clients, Provision(c) PROVE RagInv'
<1> USE DEF RagInv
<1> DEFINE k == target[c]
<1>1. k \in Collections /\ size[c] \in Dims \ {0} /\ None \notin Dims
  BY DimsAreNumbers DEF Provision, TypeInv
<1>2. /\ table' = [table EXCEPT ![k] = IF table[k] = None THEN [dim |-> size[c], rows |-> {}] ELSE table[k]]
      /\ registry' = [registry EXCEPT ![k] = IF registry[k] = None THEN size[c] ELSE registry[k]]
  BY DEF Provision, Register
<1>3. /\ table' \in [Collections -> {None} \cup [dim : Dims \ {0}, rows : SUBSET Ids]]
      /\ registry' \in [Collections -> {None} \cup (Dims \ {0})]
  BY <1>1, <1>2 DEF TypeInv
<1>4. TypeInv'
  BY <1>1, <1>3 DEF TypeInv, Provision, Await, Settle, aux, Awaits
<1>5. OwedInv'
  BY DEF OwedInv, Provision, Await, Settle, TypeInv, aux
<1>6. stranded' = stranded
  BY DEF Provision
<1>7. RegistryDescribesTables'
  <2> SUFFICES ASSUME NEW j \in Collections
               PROVE  /\ table'[j] = None => registry'[j] = None
                      /\ table'[j] # None /\ j \notin stranded' => registry'[j] = table'[j].dim
    BY DEF RegistryDescribesTables
  <2>1. CASE j # k
    BY <2>1, <1>1, <1>2, <1>6 DEF RegistryDescribesTables, TypeInv
  <2>2. CASE j = k /\ table[k] = None
    <3>0. registry[k] = None
      BY <2>2, <1>1 DEF RegistryDescribesTables
    <3>1. table'[k] = [dim |-> size[c], rows |-> {}] /\ registry'[k] = size[c]
      BY <2>2, <3>0, <1>1, <1>2 DEF TypeInv
    <3>2. table'[k] # None
      BY <3>1, <1>1, NoneIsNoTable
    <3>3. QED
      BY <2>2, <3>1, <3>2
  <2>3. CASE j = k /\ table[k] # None
    <3>1. table'[k] = table[k] /\ table[k].dim \in Dims
      BY <2>3, <1>1, <1>2 DEF TypeInv
    <3>2. k \notin stranded => registry[k] = table[k].dim
      BY <2>3, <1>1 DEF RegistryDescribesTables
    <3>3. k \notin stranded => registry'[k] = registry[k]
      BY <3>1, <3>2, <1>1, <1>2 DEF TypeInv
    <3> QED
      BY <2>3, <3>1, <3>2, <3>3, <1>6
  <2>4. QED
    BY <2>1, <2>2, <2>3
<1>8. QED
  BY <1>4, <1>5, <1>7

\* A step that gives some tables other rows.
LEMMA RowsKeep ==
  ASSUME RagInv, NEW c \in Clients, NEW K \in SUBSET Collections,
         \A k \in K : table[k] # None,
         \E f \in [K -> SUBSET Ids] :
           table' = [k \in Collections |-> IF k \in K THEN [table[k] EXCEPT !.rows = f[k]] ELSE table[k]],
         Settle(c), Await(c, "done"), UNCHANGED <<registry, stranded, cache, op, target, size>>
  PROVE  RagInv'
<1> USE DEF RagInv
<1>1. PICK f \in [K -> SUBSET Ids] :
        table' = [k \in Collections |-> IF k \in K THEN [table[k] EXCEPT !.rows = f[k]] ELSE table[k]]
  OBVIOUS
<1>2. \A k \in Collections \ K : table'[k] = table[k]
  BY <1>1
<1>3. \A k \in K :
        /\ table[k] \in [dim : Dims \ {0}, rows : SUBSET Ids]
        /\ table'[k] = [dim |-> table[k].dim, rows |-> f[k]]
        /\ table'[k] # None
  <2> SUFFICES ASSUME NEW k \in K
               PROVE  /\ table[k] \in [dim : Dims \ {0}, rows : SUBSET Ids]
                      /\ table'[k] = [dim |-> table[k].dim, rows |-> f[k]]
                      /\ table'[k] # None
    OBVIOUS
  <2>1. table[k] \in [dim : Dims \ {0}, rows : SUBSET Ids]
    BY DEF TypeInv
  <2>2. table'[k] = [dim |-> table[k].dim, rows |-> f[k]]
    BY <2>1, <1>1
  <2>3. QED
    BY <2>1, <2>2, NoneIsNoTable
<1>4. table' \in [Collections -> {None} \cup [dim : Dims \ {0}, rows : SUBSET Ids]]
  <2>1. \A k \in Collections : table'[k] \in {None} \cup [dim : Dims \ {0}, rows : SUBSET Ids]
    BY <1>2, <1>3 DEF TypeInv
  <2>2. table' = [k \in Collections |-> table'[k]]
    BY <1>1
  <2>3. QED
    BY <2>1, <2>2
<1>5. TypeInv'
  BY <1>4 DEF TypeInv, Settle, Await, Awaits
<1>6. OwedInv'
  BY DEF TypeInv, OwedInv, Settle, Await
<1>7. RegistryDescribesTables'
  BY <1>2, <1>3 DEF RegistryDescribesTables
<1>8. QED
  BY <1>5, <1>6, <1>7

\* Chunks are inserted.
LEMMA InsertKeeps == ASSUME RagInv, NEW c \in Clients, Insert(c) PROVE RagInv'
<1> USE DEF RagInv
<1> DEFINE k == target[c]
<1>1. k \in Collections /\ table[k] # None /\ table[k] \in [dim : Dims \ {0}, rows : SUBSET Ids]
  BY DEF Insert, TypeInv
<1>2. PICK id \in Ids : table' = [table EXCEPT ![k].rows = @ \cup {id}]
  BY DEF Insert
<1> DEFINE f == [j \in {k} |-> table[k].rows \cup {id}]
<1>3. f \in [{k} -> SUBSET Ids]
  BY <1>1
<1>4. table' = [j \in Collections |-> IF j \in {k} THEN [table[j] EXCEPT !.rows = f[j]] ELSE table[j]]
  BY <1>1, <1>2 DEF TypeInv
<1>5. /\ Settle(c) /\ Await(c, "done") /\ UNCHANGED <<registry, stranded, cache, op, target, size>>
      /\ {k} \in SUBSET Collections /\ \A j \in {k} : table[j] # None
  BY <1>1 DEF Insert, aux
<1> HIDE DEF f
<1>6. QED
  BY <1>3, <1>4, <1>5, RowsKeep

\* Chunks are deleted.
LEMMA DeleteKeeps == ASSUME RagInv, NEW c \in Clients, Delete(c) PROVE RagInv'
<1> USE DEF RagInv
<1> DEFINE k == target[c]
<1>1. k \in Collections /\ table[k] # None /\ table[k] \in [dim : Dims \ {0}, rows : SUBSET Ids]
  BY DEF Delete, TypeInv
<1>2. PICK gone : table' = [table EXCEPT ![k].rows = @ \ gone]
  BY DEF Delete
<1> DEFINE f == [j \in {k} |-> table[k].rows \ gone]
<1>3. f \in [{k} -> SUBSET Ids]
  BY <1>1
<1>4. table' = [j \in Collections |-> IF j \in {k} THEN [table[j] EXCEPT !.rows = f[j]] ELSE table[j]]
  BY <1>1, <1>2 DEF TypeInv
<1>5. /\ Settle(c) /\ Await(c, "done") /\ UNCHANGED <<registry, stranded, cache, op, target, size>>
      /\ {k} \in SUBSET Collections /\ \A j \in {k} : table[j] # None
  BY <1>1 DEF Delete, aux
<1> HIDE DEF f
<1>6. QED
  BY <1>3, <1>4, <1>5, RowsKeep

\* delete() in no particular collection.
LEMMA DeleteEachKeeps == ASSUME RagInv, NEW c \in Clients, DeleteEach(c) PROVE RagInv'
<1> USE DEF RagInv
<1> DEFINE K == todo[c] \cap Collections
<1>1. PICK id \in Ids :
        table' = [k \in Collections |-> IF k \in todo[c] THEN [table[k] EXCEPT !.rows = @ \ {id}] ELSE table[k]]
  BY DEF DeleteEach
<1>2. \A k \in K : table[k] # None /\ table[k] \in [dim : Dims \ {0}, rows : SUBSET Ids]
  BY DEF DeleteEach, TypeInv
<1> DEFINE f == [k \in K |-> table[k].rows \ {id}]
<1>3. f \in [K -> SUBSET Ids]
  BY <1>2
<1>4. table' = [k \in Collections |-> IF k \in K THEN [table[k] EXCEPT !.rows = f[k]] ELSE table[k]]
  BY <1>1, <1>2
<1>5. Settle(c) /\ Await(c, "done") /\ UNCHANGED <<registry, stranded, cache, op, target, size>> /\ K \in SUBSET Collections
  BY DEF DeleteEach, aux
<1> HIDE DEF f, K
<1>6. QED
  BY <1>2, <1>3, <1>4, <1>5, RowsKeep

\* A collection is dropped, or the entry of one whose table is gone.
LEMMA DropKeeps ==
  ASSUME RagInv, NEW c \in Clients, Drop(c) \/ DeleteEntry(c)
  PROVE  RagInv'
<1> USE DEF RagInv
<1>1. TypeInv'
  BY DEF TypeInv, Drop, DeleteEntry, Unregister, Await, Settle, aux, Awaits
<1>2. OwedInv'
  BY DEF TypeInv, OwedInv, Drop, DeleteEntry, Await, Settle, aux
<1>3. RegistryDescribesTables'
  BY DEF TypeInv, RegistryDescribesTables, Drop, DeleteEntry, Unregister
<1>4. QED
  BY <1>1, <1>2, <1>3

\* The cache of a service is set after a commit.
LEMMA RememberKeeps ==
  ASSUME RagInv, NEW c \in Clients, Provisioned(c) \/ Forget(c)
  PROVE  RagInv'
<1> USE DEF RagInv
<1>1. Host[c] \in Services /\ target[c] \in Collections
  BY RagAssumption DEF TypeInv
<1>2. cache' \in [Services -> [Collections -> {None} \cup (Dims \ {0})]]
  <2>1. CASE Provisioned(c)
    <3>1. size[c] \in Dims \ {0}
      BY <2>1 DEF Provisioned, TypeInv
    <3>2. QED
      BY <2>1, <3>1, <1>1 DEF Provisioned, Remember, TypeInv
  <2>2. CASE Forget(c)
    BY <2>2, <1>1 DEF Forget, Remember, TypeInv
  <2>3. QED
    BY <2>1, <2>2
<1>3. TypeInv'
  BY <1>2 DEF TypeInv, Provisioned, Forget, Await, aux, store, Awaits
<1>4. ~ owed[c]
  BY DEF OwedInv, Provisioned, Forget
<1>5. OwedInv'
  BY <1>4 DEF TypeInv, OwedInv, Provisioned, Forget, Await, aux
<1>6. RegistryDescribesTables'
  BY DEF RegistryDescribesTables, Provisioned, Forget, store
<1>7. QED
  BY <1>3, <1>5, <1>6

\* The steps that touch neither a table nor the registry nor a cached entry.
LEMMA ReadsKeep ==
  ASSUME RagInv, NEW c \in Clients,
         \/ Embedded(c) \/ Fails(c) \/ EnsureRegistry(c)
         \/ Query(c) \/ QueryWithJoin(c) \/ SimilarityMatrix(c) \/ Count(c) \/ LearnNormalizer(c)
         \/ SelectNames(c) \/ CountEach(c) \/ Page(c) \/ DropNothing(c)
  PROVE  RagInv'
<1> USE DEF RagInv
<1>1. CASE Embedded(c)
  <2>1. op[c] \in Queries \cup {"index"}
    BY <1>1 DEF Embedded, TypeInv
  <2>2. TypeInv'
    BY <1>1, <2>1 DEF Embedded, TypeInv, Await, store, aux, Awaits, Queries
  <2>3. OwedInv'
    BY <1>1, <2>1 DEF Embedded, OwedInv, TypeInv, Await, aux
  <2>4. RegistryDescribesTables'
    BY <1>1 DEF Embedded, RegistryDescribesTables, store
  <2>5. QED
    BY <2>2, <2>3, <2>4
<1>2. CASE Fails(c)
  <2>1. Await(c, "failed") /\ UNCHANGED <<store, cache, op, target, size, owed>> /\ "failed" \in Awaits
    BY <1>2 DEF Fails, aux, Awaits
  <2>2. owed[c] => op[c] \in Queries \cup {"index"}
    BY DEF OwedInv
  <2>3. QED
    BY <2>1, <2>2, MoveKeeps
<1>3. CASE EnsureRegistry(c)
  <2>1. TypeInv'
    BY <1>3 DEF EnsureRegistry, TypeInv, Settle, store, aux
  <2>2. OwedInv'
    BY <1>3 DEF EnsureRegistry, OwedInv, TypeInv, Settle, aux
  <2>3. RegistryDescribesTables'
    BY <1>3 DEF EnsureRegistry, RegistryDescribesTables, store
  <2>4. QED
    BY <2>1, <2>2, <2>3
<1>4. CASE Query(c) \/ QueryWithJoin(c) \/ SimilarityMatrix(c) \/ Count(c) \/ LearnNormalizer(c)
  <2>1. Settle(c) /\ Await(c, "done") /\ UNCHANGED <<store, cache, op, target, size>> /\ "done" \in Awaits
    BY <1>4 DEF Query, QueryWithJoin, SimilarityMatrix, Count, LearnNormalizer, Read, aux, Awaits
  <2>2. ~ owed'[c]
    BY <2>1 DEF Settle, TypeInv
  <2>3. QED
    BY <2>1, <2>2, MoveKeeps
<1>5. CASE SelectNames(c) \/ Page(c) \/ DropNothing(c)
  <2>1. ~ owed[c]
    BY <1>5 DEF SelectNames, Page, DropNothing, OwedInv
  <2>2. PICK label \in {"counts", "done", "page", "unregister"} : Await(c, label)
    BY <1>5 DEF SelectNames, Page, DropNothing
  <2>3. UNCHANGED <<store, cache, op, target, size, owed>> /\ label \in Awaits
    BY <1>5 DEF SelectNames, Page, DropNothing, aux, Awaits
  <2>4. QED
    BY <2>1, <2>2, <2>3, MoveKeeps
<1>6. CASE CountEach(c)
  <2>1. PICK label \in {"done", "loadEach"} : Await(c, label)
    BY <1>6 DEF CountEach
  <2>2. Settle(c) /\ UNCHANGED <<store, cache, op, target, size>> /\ label \in Awaits
    BY <1>6 DEF CountEach, aux, Awaits
  <2>3. ~ owed'[c]
    BY <2>2 DEF Settle, TypeInv
  <2>4. QED
    BY <2>1, <2>2, <2>3, MoveKeeps
<1>7. QED
  BY <1>1, <1>2, <1>3, <1>4, <1>5, <1>6

\* A client reads the rows of all collections.
LEMMA LoadEachKeeps ==
  ASSUME RagInv, NEW c \in Clients, LoadEach(c)
  PROVE  RagInv'
<1> USE DEF RagInv
<1>1. Host[c] \in Services
  BY RagAssumption
<1> DEFINE loaded == [k \in Collections |-> IF k \in todo[c] THEN Entry(Host[c], k) ELSE cache[Host[c]][k]]
<1>2. loaded \in [Collections -> {None} \cup (Dims \ {0})]
  BY <1>1, EntryType DEF TypeInv
<1>3. cache' = [cache EXCEPT ![Host[c]] = loaded]
  BY DEF LoadEach
<1> HIDE DEF loaded
<1>4. cache' \in [Services -> [Collections -> {None} \cup (Dims \ {0})]]
  BY <1>2, <1>3 DEF TypeInv
<1>5. TypeInv'
  BY <1>4 DEF LoadEach, TypeInv, Await, store, aux, Awaits
<1>6. OwedInv'
  BY DEF LoadEach, OwedInv, TypeInv, Await, aux
<1>7. RegistryDescribesTables'
  BY DEF LoadEach, RegistryDescribesTables, store
<1>8. QED
  BY <1>5, <1>6, <1>7

\* Every step keeps the invariant.
LEMMA RagInvStep == RagInv /\ [Next]_vars => RagInv'
<1> SUFFICES ASSUME RagInv, [Next]_vars PROVE RagInv'
  OBVIOUS
<1>1. CASE UNCHANGED vars
  BY <1>1 DEF vars, store, RagInv, TypeInv, OwedInv, RegistryDescribesTables
<1>2. ASSUME NEW c \in Clients, Call(c) PROVE RagInv'
  BY <1>2, CallKeeps
<1>3. ASSUME NEW c \in Clients,
             \/ Embedded(c) \/ Fails(c) \/ EnsureRegistry(c)
             \/ Query(c) \/ QueryWithJoin(c) \/ SimilarityMatrix(c) \/ Count(c) \/ LearnNormalizer(c)
             \/ SelectNames(c) \/ CountEach(c) \/ Page(c) \/ DropNothing(c)
      PROVE  RagInv'
  BY <1>3, ReadsKeep
<1>4. ASSUME NEW c \in Clients, Load(c) PROVE RagInv'
  BY <1>4, LoadKeeps
<1>5. ASSUME NEW c \in Clients, Provision(c) PROVE RagInv'
  BY <1>5, ProvisionKeeps
<1>6. ASSUME NEW c \in Clients, Provisioned(c) \/ Forget(c) PROVE RagInv'
  BY <1>6, RememberKeeps
<1>7. ASSUME NEW c \in Clients, Insert(c) PROVE RagInv'
  BY <1>7, InsertKeeps
<1>8. ASSUME NEW c \in Clients, Drop(c) \/ DeleteEntry(c) PROVE RagInv'
  BY <1>8, DropKeeps
<1>9. ASSUME NEW c \in Clients, Delete(c) PROVE RagInv'
  BY <1>9, DeleteKeeps
<1>10. ASSUME NEW c \in Clients, DeleteEach(c) PROVE RagInv'
  BY <1>10, DeleteEachKeeps
<1>11. ASSUME NEW c \in Clients, LoadEach(c) PROVE RagInv'
  BY <1>11, LoadEachKeeps
<1>12. QED
  BY <1>1, <1>2, <1>3, <1>4, <1>5, <1>6, <1>7, <1>8, <1>9, <1>10, <1>11 DEF Next

\* The registry and the tables agree whatever services, of whatever models, create,
\* fill and drop, in any interleaving, but for the tables a late drop has stranded, which
\* only have no entry or another one's (_ensure_collection, drop_collection).
THEOREM RegistryCorrect == Spec => []RegistryDescribesTables
<1>1. RagInv => RegistryDescribesTables
  BY DEF RagInv
<1>2. QED
  BY <1>1, RagInvInit, RagInvStep, PTL DEF Spec

\* No call that ends well leaves the usage of its embedding call uncommitted
\* (query_batch, index_batch and the other users of compute_embeddings).
THEOREM UsageCorrect == Spec => []UsageIsRecorded
<1>1. RagInv => UsageIsRecorded
  BY DEF RagInv, OwedInv, UsageIsRecorded
<1>2. QED
  BY <1>1, RagInvInit, RagInvStep, PTL DEF Spec

(***************************************************************************)
(* Exports                                                                 *)
(***************************************************************************)
Ascends(s) == \A i, j \in DOMAIN s : i < j => s[i] < s[j]

\* What is to be listed and is not beyond the last listed id has been listed.
Covers(s, X) == s # <<>> => \A id \in X : id <= Last(s) => id \in ToSet(s)

\* An export lists ascending ids; between two pages what it is to list is in the
\* table, and what of it the export has passed is listed.
ExportInv ==
  /\ listed \in [Clients -> Seq(Ids)]
  /\ steady \in [Clients -> SUBSET Ids]
  /\ \A c \in Clients : pc[c] = "page" =>
       /\ op[c] = "export"
       /\ steady[c] \subseteq Rows(target[c])
       /\ Covers(listed[c], steady[c])
  /\ \A c \in Clients : op[c] = "export" =>
       /\ pc[c] \in {"load", "page", "done", "failed"}
       /\ Ascends(listed[c])
       /\ pc[c] = "load" => listed[c] = <<>>
       /\ pc[c] = "done" => steady[c] \subseteq ToSet(listed[c])

\* The last of an ascending listing is its greatest.
LEMMA LastIsGreatest ==
  ASSUME NEW s \in Seq(Nat), Ascends(s), NEW i \in 1 .. Len(s)
  PROVE  s # <<>> /\ Last(s) \in Nat /\ s[i] \in Nat /\ s[i] <= Last(s)
<1>1. Len(s) \in Nat /\ DOMAIN s = 1 .. Len(s) /\ i <= Len(s) /\ Len(s) \in 1 .. Len(s)
  OBVIOUS
<1>2. s[i] \in Nat /\ s[Len(s)] \in Nat
  BY <1>1
<1>3. i = Len(s) \/ i < Len(s)
  <2>1. \A n, m \in Int : n <= m => n = m \/ n < m
    OBVIOUS
  <2>2. i \in Int /\ Len(s) \in Int
    BY <1>1
  <2>3. QED
    BY <1>1, <2>1, <2>2
<1>4. i < Len(s) => s[i] < s[Len(s)]
  BY <1>1 DEF Ascends
<1>5. s # <<>>
  BY <1>1
<1>6. QED
  BY <1>2, <1>3, <1>4, <1>5 DEF Last

\* Where the elements of a concatenation stand.
LEMMA ConcatElements ==
  ASSUME NEW S, NEW s \in Seq(S), NEW p \in Seq(S), NEW i \in 1 .. Len(s \o p)
  PROVE  /\ i \in 1 .. Len(s) => (s \o p)[i] = s[i]
         /\ i \notin 1 .. Len(s) => i - Len(s) \in 1 .. Len(p) /\ (s \o p)[i] = p[i - Len(s)]
<1>1. Len(s) \in Nat /\ Len(p) \in Nat /\ Len(s \o p) = Len(s) + Len(p) /\ i \in Nat
  OBVIOUS
<1>2. QED
  BY <1>1

\* What of the rows is beyond a listing, and a page of it that skips nothing.
IsBeyond(rest, s, rows) ==
  rest \subseteq rows /\ \A id \in rows : id \in rest <=> s = <<>> \/ id > Last(s)

SkipsNothing(page, rest, n) ==
  \A id \in rest \ ToSet(page) : Len(page) = n /\ \A i \in DOMAIN page : page[i] < id

\* The next page continues the listing and skips nothing.
LEMMA PageContinues ==
  ASSUME NEW rows \in SUBSET Nat, NEW X \in SUBSET rows, NEW n \in Nat \ {0},
         NEW s \in Seq(Nat), Ascends(s), Covers(s, X),
         NEW rest, IsBeyond(rest, s, rows),
         NEW page \in Seq(rest), Ascends(page), SkipsNothing(page, rest, n)
  PROVE  /\ Ascends(s \o page)
         /\ Covers(s \o page, X)
         /\ page = <<>> => X \subseteq ToSet(s \o page)
<1> DEFINE l == s \o page
<1>0. page \in Seq(Nat) /\ l \in Seq(Nat) /\ \A i \in 1 .. Len(page) : page[i] \in rest
  <2>1. rest \subseteq Nat
    BY DEF IsBeyond
  <2>2. \A i \in 1 .. Len(page) : page[i] \in rest
    OBVIOUS
  <2>3. page \in Seq(Nat)
    BY <2>1, SeqMonotonic
  <2>4. QED
    BY <2>2, <2>3
<1>1. Len(s) \in Nat /\ Len(page) \in Nat /\ Len(l) = Len(s) + Len(page)
  BY <1>0
<1>2. DOMAIN l = 1 .. Len(l) /\ DOMAIN s = 1 .. Len(s) /\ DOMAIN page = 1 .. Len(page)
  BY <1>0
<1>3. \A i \in 1 .. Len(s) : i \in 1 .. Len(l) /\ l[i] = s[i]
  BY <1>0, <1>1
<1>4. \A i \in 1 .. Len(page) : Len(s) + i \in 1 .. Len(l) /\ l[Len(s) + i] = page[i]
  BY <1>0, <1>1
<1>5. \A i \in 1 .. Len(l) : i \in 1 .. Len(s) \/ (i - Len(s) \in 1 .. Len(page) /\ l[i] = page[i - Len(s)])
  BY <1>0, ConcatElements
<1> HIDE DEF l
<1>6. Ascends(l)
  <2> SUFFICES ASSUME NEW i \in 1 .. Len(l), NEW j \in 1 .. Len(l), i < j PROVE l[i] < l[j]
    BY <1>2 DEF Ascends
  <2>1. CASE j \in 1 .. Len(s)
    <3>1. i \in 1 .. Len(s)
      BY <2>1, <1>1
    <3>2. QED
      BY <2>1, <3>1, <1>2, <1>3 DEF Ascends
  <2>2. CASE i \in 1 .. Len(s) /\ j \notin 1 .. Len(s)
    <3>1. s # <<>> /\ Last(s) \in Nat /\ s[i] \in Nat /\ s[i] <= Last(s)
      BY <2>2, LastIsGreatest
    <3>2. l[j] \in rest /\ l[i] = s[i]
      BY <2>2, <1>0, <1>3, <1>5
    <3>3. l[j] \in Nat /\ l[j] > Last(s)
      BY <3>1, <3>2 DEF IsBeyond
    <3>4. QED
      BY <3>1, <3>2, <3>3
  <2>3. CASE i \notin 1 .. Len(s) /\ j \notin 1 .. Len(s)
    <3>1. i - Len(s) \in DOMAIN page /\ j - Len(s) \in DOMAIN page
      BY <2>3, <1>2, <1>5
    <3>4. i - Len(s) < j - Len(s)
      <4>1. \A a, b, m \in Int : a < b => a - m < b - m
        OBVIOUS
      <4>2. i \in Int /\ j \in Int /\ Len(s) \in Int
        BY <1>1
      <4>3. QED
        BY <4>1, <4>2
    <3>2. page[i - Len(s)] < page[j - Len(s)]
      BY <3>1, <3>4 DEF Ascends
    <3>3. QED
      BY <2>3, <3>2, <1>5
  <2>4. QED
    BY <2>1, <2>2, <2>3
<1>7. \A id \in rest : l # <<>> => id > Last(l) \/ id \in ToSet(page)
  <2> SUFFICES ASSUME NEW id \in rest, id \notin ToSet(page) PROVE l # <<>> => id > Last(l)
    OBVIOUS
  <2>1. Len(page) = n /\ Len(page) \in 1 .. Len(page)
    BY <1>1 DEF SkipsNothing
  <2>2. page[Len(page)] < id
    BY <2>1, <1>2 DEF SkipsNothing
  <2>3. l[Len(l)] = page[Len(page)]
    BY <2>1, <1>1, <1>4
  <2>4. id \in Nat /\ page[Len(page)] \in Nat
    BY <2>1, <1>0 DEF IsBeyond
  <2>5. QED
    BY <2>2, <2>3, <2>4 DEF Last
<1>8. ToSet(s) \subseteq ToSet(l) /\ ToSet(page) \subseteq ToSet(l)
  <2>1. \A i \in DOMAIN s : s[i] \in ToSet(l)
    BY <1>2, <1>3 DEF ToSet
  <2>2. \A i \in DOMAIN page : page[i] \in ToSet(l)
    BY <1>2, <1>4 DEF ToSet
  <2>3. QED
    BY <2>1, <2>2 DEF ToSet
<1>9. \A id \in X : id \in rest \/ id \in ToSet(s)
  <2> SUFFICES ASSUME NEW id \in X, id \notin rest PROVE id \in ToSet(s)
    OBVIOUS
  <2>1. s # <<>> /\ ~ (id > Last(s)) /\ id \in Nat
    BY DEF IsBeyond
  <2>2. Len(s) \in 1 .. Len(s)
    BY <2>1, <1>1, EmptySeq
  <2>3. Last(s) \in Nat
    BY <2>2, LastIsGreatest
  <2>4. QED
    BY <2>1, <2>3 DEF Covers
<1>10. Covers(l, X)
  <2> SUFFICES ASSUME l # <<>>, NEW id \in X, id <= Last(l) PROVE id \in ToSet(l)
    BY DEF Covers
  <2>1. Len(l) \in 1 .. Len(l)
    <3>1. Len(l) \in Nat /\ Len(l) # 0
      BY <1>0, EmptySeq
    <3>2. QED
      BY <3>1
  <2>2. Last(l) \in Nat /\ id \in Nat
    BY <2>1, <1>0, <1>6, LastIsGreatest
  <2>3. QED
    BY <2>2, <1>7, <1>8, <1>9
<1>11. page = <<>> => X \subseteq ToSet(l)
  <2> SUFFICES ASSUME page = <<>>, NEW id \in X PROVE id \in ToSet(l)
    OBVIOUS
  <2>1. Len(page) = 0
    OBVIOUS
  <2>2. id \notin rest \/ id \in ToSet(page)
    BY <2>1 DEF SkipsNothing
  <2>3. QED
    BY <2>2, <1>8, <1>9
<1>12. QED
  BY <1>6, <1>10, <1>11 DEF l

\* An ascending listing names nothing twice.
LEMMA AscendsInjective ==
  ASSUME NEW s \in Seq(Nat), Ascends(s)
  PROVE  IsInjective(s)
<1> SUFFICES ASSUME NEW i \in DOMAIN s, NEW j \in DOMAIN s, s[i] = s[j], i # j PROVE FALSE
  BY DEF IsInjective
<1>1. i \in Nat /\ j \in Nat /\ s[i] \in Nat
  OBVIOUS
<1>2. i < j \/ j < i
  BY <1>1
<1>3. s[i] < s[j] \/ s[j] < s[i]
  BY <1>2 DEF Ascends
<1>4. QED
  BY <1>1, <1>3

\* A step of a call that is no export: what is to be listed may only shrink, and with
\* the rows.
LEMMA OthersKeepExports ==
  ASSUME TypeInv, ExportInv, NEW c \in Clients, op[c] # "export",
         NEW label \in Awaits \ {"page"}, Await(c, label), UNCHANGED <<op, target, listed>>,
         steady' \in [Clients -> SUBSET Ids],
         \A x \in Clients : steady'[x] \subseteq steady[x],
         \A x \in Clients : pc[x] = "page" => steady'[x] \subseteq Rows(target[x])'
  PROVE  ExportInv'
<1>1. /\ pc'[c] = label /\ pc[c] # "page"
      /\ \A x \in Clients \ {c} : pc'[x] = pc[x]
  BY DEF Await, TypeInv, ExportInv
<1>2. \A x \in Clients : pc'[x] = "page" => pc[x] = "page"
  BY <1>1
<1>3. \A x \in Clients : pc'[x] = "page" => Covers(listed[x], steady'[x])
  BY <1>2 DEF ExportInv, Covers
<1>4. \A x \in Clients : op[x] = "export" => x # c
  OBVIOUS
<1>5. \A x \in Clients : op[x] = "export" =>
        /\ pc'[x] \in {"load", "page", "done", "failed"}
        /\ Ascends(listed[x])
        /\ pc'[x] = "load" => listed[x] = <<>>
        /\ pc'[x] = "done" => steady'[x] \subseteq ToSet(listed[x])
  BY <1>1, <1>4 DEF ExportInv
<1>6. listed' = listed /\ op' = op /\ target' = target
  OBVIOUS
<1>7. \A x \in Clients : pc'[x] = "page" =>
        op'[x] = "export" /\ steady'[x] \subseteq Rows(target[x])' /\ Covers(listed'[x], steady'[x])
  BY <1>2, <1>3, <1>6 DEF ExportInv
<1>8. QED
  BY <1>5, <1>6, <1>7 DEF ExportInv

\* The rows a step leaves: those of another collection, or what it does not take away.
LEMMA CallExports == ASSUME TypeInv, ExportInv, NEW c \in Clients, Call(c) PROVE ExportInv'
<1>1. PICK o \in Ops :
        /\ op' = [op EXCEPT ![c] = o]
        /\ Await(c, CASE o \in Queries \cup {"index"} -> "embed"
                      [] o \in {"deleteAny", "list"} -> "names"
                      [] OTHER -> "load")
  BY DEF Call
<1>2. /\ listed' = [listed EXCEPT ![c] = <<>>] /\ steady' = [steady EXCEPT ![c] = {}]
      /\ UNCHANGED table
      /\ \A x \in Clients \ {c} : target'[x] = target[x]
  BY DEF Call, store, TypeInv
<1>3. /\ pc'[c] \in {"embed", "names", "load"} /\ (o = "export" => pc'[c] = "load")
      /\ \A x \in Clients \ {c} : pc'[x] = pc[x] /\ op'[x] = op[x]
      /\ op'[c] = o
  BY <1>1 DEF Await, TypeInv, Queries
<1>4. \A x \in Clients \ {c} : listed'[x] = listed[x] /\ steady'[x] = steady[x]
  BY <1>2 DEF ExportInv
<1>5. listed'[c] = <<>> /\ steady'[c] = {} /\ Ascends(<<>>)
  BY <1>2 DEF ExportInv, Ascends
<1>6. \A x \in Clients : pc'[x] = "page" =>
        op'[x] = "export" /\ steady'[x] \subseteq Rows(target[x])' /\ Covers(listed'[x], steady'[x])
  BY <1>2, <1>3, <1>4 DEF ExportInv, Rows
<1>7. \A x \in Clients : op'[x] = "export" =>
        /\ pc'[x] \in {"load", "page", "done", "failed"}
        /\ Ascends(listed'[x])
        /\ pc'[x] = "load" => listed'[x] = <<>>
        /\ pc'[x] = "done" => steady'[x] \subseteq ToSet(listed'[x])
  BY <1>3, <1>4, <1>5 DEF ExportInv
<1>8. listed' \in [Clients -> Seq(Ids)] /\ steady' \in [Clients -> SUBSET Ids]
  BY <1>2 DEF ExportInv
<1>9. QED
  BY <1>6, <1>7, <1>8 DEF ExportInv

\* An export begins when its collection has been read.
LEMMA LoadExports == ASSUME TypeInv, ExportInv, NEW c \in Clients, Load(c) PROVE ExportInv'
<1> DEFINE k == target[c]
           d == Entry(Host[c], k)
           label == AfterLoad(c, d)
<1>1. /\ pc[c] = "load" /\ Await(c, label) /\ UNCHANGED <<table, op, target, listed>>
      /\ steady' = [steady EXCEPT ![c] = IF label = "page" THEN Rows(k) ELSE {}]
  BY DEF Load, store, aux
<1>2. op[c] \in Operations /\ k \in Collections
  BY DEF TypeInv
<1>3. label = "page" => op[c] = "export"
  BY <1>2 DEF AfterLoad, Operations, Queries
<1>4. op[c] = "export" => label \in {"page", "done"}
  BY DEF AfterLoad, Queries
<1>5. Rows(k) \in SUBSET Ids
  BY <1>2 DEF Rows, TypeInv
<1> HIDE DEF label, k
<1>6. /\ pc'[c] = label /\ \A x \in Clients \ {c} : pc'[x] = pc[x] /\ steady'[x] = steady[x]
      /\ steady'[c] = IF label = "page" THEN Rows(k) ELSE {}
  BY <1>1 DEF Await, TypeInv, ExportInv
<1>7. op[c] = "export" => listed[c] = <<>> /\ Ascends(listed[c])
  BY <1>1 DEF ExportInv
<1>8. \A x \in Clients : pc'[x] = "page" =>
        op'[x] = "export" /\ steady'[x] \subseteq Rows(target[x])' /\ Covers(listed'[x], steady'[x])
  <2> SUFFICES ASSUME NEW x \in Clients, pc'[x] = "page"
               PROVE  op'[x] = "export" /\ steady'[x] \subseteq Rows(target[x])' /\ Covers(listed'[x], steady'[x])
    OBVIOUS
  <2>1. CASE x = c
    BY <2>1, <1>1, <1>3, <1>6, <1>7 DEF Rows, Covers, k
  <2>2. CASE x # c
    BY <2>2, <1>1, <1>6 DEF ExportInv, Rows
  <2>3. QED
    BY <2>1, <2>2
<1>9. \A x \in Clients : op'[x] = "export" =>
        /\ pc'[x] \in {"load", "page", "done", "failed"}
        /\ Ascends(listed'[x])
        /\ pc'[x] = "load" => listed'[x] = <<>>
        /\ pc'[x] = "done" => steady'[x] \subseteq ToSet(listed'[x])
  BY <1>1, <1>4, <1>6, <1>7 DEF ExportInv
<1>10. listed' \in [Clients -> Seq(Ids)] /\ steady' \in [Clients -> SUBSET Ids]
  BY <1>1, <1>5 DEF ExportInv
<1>11. QED
  BY <1>8, <1>9, <1>10 DEF ExportInv

\* One page more: the export has all rows up to its cursor that stayed.
LEMMA PageExports == ASSUME TypeInv, ExportInv, NEW c \in Clients, Page(c) PROVE ExportInv'
<1> DEFINE rows == Rows(target[c])
           rest == Beyond(c, rows)
           s == listed[c]
<1>1. PICK page \in SeqOf(rest, BatchSize) :
        /\ IsPage(page, rest)
        /\ listed' = [listed EXCEPT ![c] = s \o page]
        /\ Await(c, IF page = <<>> THEN "done" ELSE "page")
  BY DEF Page
<1>2. pc[c] = "page" /\ UNCHANGED <<table, op, target, steady>>
  BY DEF Page, store, aux
<1>3. op[c] = "export" /\ steady[c] \subseteq rows /\ Covers(s, steady[c]) /\ Ascends(s)
  BY <1>2 DEF ExportInv
<1>4. rows \subseteq Ids /\ Ids \subseteq Nat
  BY RagAssumption DEF Rows, TypeInv
<1>5. s \in Seq(Ids) /\ s \in Seq(Nat)
  <2>1. s \in Seq(Ids)
    BY DEF ExportInv
  <2>2. QED
    BY <2>1, <1>4, SeqMonotonic
<1>6. rest = {id \in rows : s = <<>> \/ id > Last(s)} /\ rest \subseteq Ids
  BY <1>4 DEF Beyond
<1>7. page \in Seq(rest) /\ page \in Seq(Ids)
  <2>1. page \in Seq(rest)
    BY SeqDef DEF SeqOf
  <2>2. QED
    BY <2>1, <1>6, SeqMonotonic
<1>8. /\ Ascends(page)
      /\ SkipsNothing(page, rest, BatchSize)
  BY <1>1 DEF IsPage, Ascends, SkipsNothing
<1>9. BatchSize \in Nat \ {0} /\ rows \in SUBSET Nat /\ steady[c] \in SUBSET rows
  BY <1>3, <1>4, RagAssumption
<1>15. s \o page \in Seq(Ids)
  BY <1>5, <1>7
<1> HIDE DEF rest, s, rows
<1>10. /\ Ascends(s \o page) /\ Covers(s \o page, steady[c])
       /\ page = <<>> => steady[c] \subseteq ToSet(s \o page)
  <2>1. page \in Seq(rest) /\ s \in Seq(Nat) /\ BatchSize \in Nat \ {0}
    BY <1>5, <1>7, <1>9
  <2>2. Ascends(s) /\ Covers(s, steady[c]) /\ Ascends(page)
    BY <1>3, <1>8
  <2> DEFINE X == steady[c]
  <2>6. IsBeyond(rest, s, rows)
    BY <1>6 DEF IsBeyond
  <2>3. rows \in SUBSET Nat /\ X \in SUBSET rows /\ Covers(s, X)
    BY <1>9, <2>2
  <2> HIDE DEF X
  <2>4. Ascends(s \o page) /\ Covers(s \o page, X) /\ (page = <<>> => X \subseteq ToSet(s \o page))
    BY <1>8, <2>1, <2>2, <2>3, <2>6, PageContinues
  <2>5. QED
    BY <2>4 DEF X
<1>11. /\ listed'[c] = s \o page /\ pc'[c] = IF page = <<>> THEN "done" ELSE "page"
       /\ \A x \in Clients \ {c} : listed'[x] = listed[x] /\ pc'[x] = pc[x]
  BY <1>1 DEF Await, TypeInv, ExportInv
<1>12. \A x \in Clients : pc'[x] = "page" =>
        op'[x] = "export" /\ steady'[x] \subseteq Rows(target[x])' /\ Covers(listed'[x], steady'[x])
  BY <1>2, <1>3, <1>10, <1>11 DEF ExportInv, Rows, rows
<1>13. \A x \in Clients : op'[x] = "export" =>
        /\ pc'[x] \in {"load", "page", "done", "failed"}
        /\ Ascends(listed'[x])
        /\ pc'[x] = "load" => listed'[x] = <<>>
        /\ pc'[x] = "done" => steady'[x] \subseteq ToSet(listed'[x])
  BY <1>2, <1>10, <1>11 DEF ExportInv
<1>14. listed' \in [Clients -> Seq(Ids)] /\ steady' \in [Clients -> SUBSET Ids]
  BY <1>1, <1>2, <1>15 DEF ExportInv
<1>16. QED
  BY <1>12, <1>13, <1>14 DEF ExportInv

\* The steps that neither list nor take rows away.
LEMMA RestExports ==
  ASSUME TypeInv, ExportInv, NEW c \in Clients,
         \/ Embedded(c) \/ Provisioned(c) \/ Forget(c)
         \/ Query(c) \/ QueryWithJoin(c) \/ SimilarityMatrix(c) \/ Count(c) \/ LearnNormalizer(c)
         \/ SelectNames(c) \/ CountEach(c) \/ LoadEach(c)
         \/ DropNothing(c) \/ DeleteEntry(c)
  PROVE  ExportInv'
<1>1. /\ pc[c] \in {"embed", "remember", "forget", "select", "names", "counts", "loadEach", "drop", "unregister"}
      /\ UNCHANGED <<table, steady, listed, op, target>>
  BY DEF Embedded, Provisioned, Forget, Query, QueryWithJoin, SimilarityMatrix, Count,
         LearnNormalizer, Read, SelectNames, CountEach, LoadEach, DropNothing, DeleteEntry, store, aux
<1>2. PICK label \in {"load", "insert", "done", "counts", "loadEach", "deleteEach", "unregister", "forget"} : Await(c, label)
  BY DEF Embedded, Provisioned, Forget, Query, QueryWithJoin, SimilarityMatrix, Count,
         LearnNormalizer, Read, SelectNames, CountEach, LoadEach, DropNothing, DeleteEntry
<1>3. op[c] # "export" /\ label \in Awaits \ {"page"}
  BY <1>1 DEF ExportInv, Awaits
<1>4. /\ steady' \in [Clients -> SUBSET Ids]
      /\ \A x \in Clients : steady'[x] \subseteq steady[x]
      /\ \A x \in Clients : pc[x] = "page" => steady'[x] \subseteq Rows(target[x])'
  BY <1>1 DEF ExportInv, Rows
<1>5. QED
  BY <1>1, <1>2, <1>3, <1>4, OthersKeepExports

\* Tables that appear and rows that are inserted.
LEMMA GrowthExports ==
  ASSUME TypeInv, ExportInv, NEW c \in Clients, Provision(c) \/ Insert(c)
  PROVE  ExportInv'
<1>1. /\ pc[c] \in {"provision", "insert"} /\ UNCHANGED <<steady, listed, op, target>>
      /\ target[c] \in Collections
  BY DEF Provision, Insert, aux, TypeInv
<1>2. PICK label \in {"remember", "done"} : Await(c, label)
  BY DEF Provision, Insert
<1>3. op[c] # "export" /\ label \in Awaits \ {"page"}
  BY <1>1, <1>2 DEF ExportInv, Awaits
<1>4. \A k \in Collections : Rows(k) \subseteq Rows(k)'
  <2>1. CASE Provision(c)
    BY <2>1, <1>1 DEF Provision, Rows, TypeInv
  <2>2. CASE Insert(c)
    <3>1. PICK id \in Ids : table' = [table EXCEPT ![target[c]].rows = @ \cup {id}]
      BY <2>2 DEF Insert
    <3>2. table[target[c]] # None /\ table[target[c]] \in [dim : Dims \ {0}, rows : SUBSET Ids]
      BY <2>2, <1>1 DEF Insert, TypeInv
    <3>3. table'[target[c]] = [dim |-> table[target[c]].dim, rows |-> table[target[c]].rows \cup {id}]
      BY <3>1, <3>2, <1>1 DEF TypeInv
    <3>4. table'[target[c]] # None
      <4>1. table[target[c]].dim \in Dims /\ table[target[c]].rows \cup {id} \in SUBSET Ids
        BY <3>2
      <4>2. QED
        BY <3>3, <4>1, NoneIsNoTable
    <3>5. \A k \in Collections \ {target[c]} : table'[k] = table[k]
      BY <3>1 DEF TypeInv
    <3>6. QED
      BY <3>2, <3>3, <3>4, <3>5 DEF Rows
  <2>3. QED
    BY <2>1, <2>2
<1>5. \A x \in Clients : target[x] \in Collections
  BY DEF TypeInv
<1>6. /\ steady' \in [Clients -> SUBSET Ids]
      /\ \A x \in Clients : steady'[x] \subseteq steady[x]
      /\ \A x \in Clients : pc[x] = "page" => steady'[x] \subseteq Rows(target[x])'
  <2> SUFFICES ASSUME NEW x \in Clients, pc[x] = "page"
               PROVE  steady[x] \subseteq Rows(target[x])'
    BY <1>1 DEF ExportInv
  <2>1. steady[x] \subseteq Rows(target[x])
    BY DEF ExportInv
  <2>2. QED
    BY <2>1, <1>1, <1>4, <1>5 DEF Rows
<1>7. QED
  BY <1>1, <1>2, <1>3, <1>6, OthersKeepExports

\* Rows that are taken away are no longer to be listed.
LEMMA LossExports ==
  ASSUME TypeInv, ExportInv, NEW c \in Clients, Drop(c) \/ Delete(c) \/ DeleteEach(c)
  PROVE  ExportInv'
<1>1. /\ pc[c] \in {"drop", "delete", "deleteEach"} /\ UNCHANGED <<listed, op, target>>
      /\ target[c] \in Collections
  BY DEF Drop, Delete, DeleteEach, aux, TypeInv
<1>2. PICK label \in {"forget", "done"} : Await(c, label)
  BY DEF Drop, Delete, DeleteEach
<1>3. op[c] # "export" /\ label \in Awaits \ {"page"}
  BY <1>1, <1>2 DEF ExportInv, Awaits
<1>4. \A x \in Clients : target[x] \in Collections
  BY DEF TypeInv
<1>5. steady \in [Clients -> SUBSET Ids]
  BY DEF ExportInv
<1>6. /\ steady' \in [Clients -> SUBSET Ids]
      /\ \A x \in Clients : steady'[x] \subseteq steady[x]
      /\ \A x \in Clients : steady[x] \subseteq Rows(target[x]) => steady'[x] \subseteq Rows(target[x])'
  <2>1. CASE Drop(c)
    <3>1. /\ table' = [table EXCEPT ![target[c]] = None]
          /\ steady' = [x \in Clients |-> IF target[x] = target[c] THEN steady[x] \ Rows(target[c]) ELSE steady[x]]
      BY <2>1 DEF Drop, Shrink
    <3>2. \A k \in Collections \ {target[c]} : Rows(k)' = Rows(k)
      BY <3>1 DEF Rows, TypeInv
    <3>3. ASSUME NEW x \in Clients, steady[x] \subseteq Rows(target[x])
          PROVE  steady'[x] \subseteq Rows(target[x])'
      <4>1. CASE target[x] = target[c]
        BY <3>1, <3>3, <4>1
      <4>2. CASE target[x] # target[c]
        BY <1>1, <1>4, <3>1, <3>2, <3>3, <4>2 DEF Rows
      <4>3. QED
        BY <4>1, <4>2
    <3>4. QED
      BY <1>5, <3>1, <3>3
  <2>2. CASE Delete(c)
    <3>1. PICK gone \in SUBSET Rows(target[c]) :
            /\ table' = [table EXCEPT ![target[c]].rows = @ \ gone]
            /\ steady' = [x \in Clients |-> IF target[x] = target[c] THEN steady[x] \ gone ELSE steady[x]]
      BY <2>2 DEF Delete, Shrink
    <3>2. table[target[c]] # None /\ table[target[c]] \in [dim : Dims \ {0}, rows : SUBSET Ids]
      BY <2>2, <1>1 DEF Delete, TypeInv
    <3>3. table'[target[c]] = [dim |-> table[target[c]].dim, rows |-> table[target[c]].rows \ gone]
      BY <3>1, <3>2, <1>1 DEF TypeInv
    <3>4. table'[target[c]] # None
      <4>1. table[target[c]].dim \in Dims /\ table[target[c]].rows \ gone \in SUBSET Ids
        BY <3>2
      <4>2. QED
        BY <3>3, <4>1, NoneIsNoTable
    <3>5. \A k \in Collections \ {target[c]} : Rows(k)' = Rows(k)
      BY <3>1 DEF Rows, TypeInv
    <3>6. Rows(target[c]) = table[target[c]].rows
      BY <3>2 DEF Rows
    <3>7. ASSUME NEW x \in Clients, steady[x] \subseteq Rows(target[x])
          PROVE  steady'[x] \subseteq Rows(target[x])'
      <4>1. CASE target[x] = target[c]
        <5>1. Rows(target[x])' = table'[target[c]].rows
          BY <1>1, <3>4, <4>1 DEF Rows
        <5>2. QED
          BY <3>1, <3>3, <3>6, <3>7, <4>1, <5>1
      <4>2. CASE target[x] # target[c]
        BY <1>1, <1>4, <3>1, <3>5, <3>7, <4>2 DEF Rows
      <4>3. QED
        BY <4>1, <4>2
    <3>8. QED
      BY <1>5, <3>1, <3>7
  <2>3. CASE DeleteEach(c)
    <3>1. PICK id \in Ids :
            /\ table' = [k \in Collections |-> IF k \in todo[c] THEN [table[k] EXCEPT !.rows = @ \ {id}] ELSE table[k]]
            /\ steady' = [x \in Clients |-> steady[x] \ {id}]
      BY <2>3 DEF DeleteEach
    <3>2. \A k \in Collections : Rows(k) \ {id} \subseteq Rows(k)'
      <4> SUFFICES ASSUME NEW k \in Collections PROVE Rows(k) \ {id} \subseteq Rows(k)'
        OBVIOUS
      <4>1. CASE k \notin todo[c]
        BY <4>1, <3>1 DEF Rows
      <4>2. CASE k \in todo[c]
        <5>1. table[k] # None /\ table[k] \in [dim : Dims \ {0}, rows : SUBSET Ids]
          BY <4>2, <2>3 DEF DeleteEach, TypeInv
        <5>2. table'[k] = [dim |-> table[k].dim, rows |-> table[k].rows \ {id}]
          BY <4>2, <3>1, <5>1
        <5>3. table'[k] # None
          <6>1. table[k].dim \in Dims /\ table[k].rows \ {id} \in SUBSET Ids
            BY <5>1
          <6>2. QED
            BY <5>2, <6>1, NoneIsNoTable
        <5>4. Rows(k) = table[k].rows /\ Rows(k)' = table'[k].rows
          BY <5>1, <5>3 DEF Rows
        <5>5. QED
          BY <5>2, <5>4
      <4>3. QED
        BY <4>1, <4>2
    <3>3. ASSUME NEW x \in Clients, steady[x] \subseteq Rows(target[x])
          PROVE  steady'[x] \subseteq Rows(target[x])'
      <4>1. Rows(target[x]) \ {id} \subseteq Rows(target[x])'
        BY <1>1, <1>4, <3>2 DEF Rows
      <4>2. QED
        BY <3>1, <3>3, <4>1
    <3>4. QED
      BY <1>5, <3>1, <3>3
  <2>4. QED
    BY <2>1, <2>2, <2>3
<1>7. \A x \in Clients : pc[x] = "page" => steady'[x] \subseteq Rows(target[x])'
  BY <1>6 DEF ExportInv
<1>8. QED
  BY <1>1, <1>2, <1>3, <1>6, <1>7, OthersKeepExports

\* A call that fails exports nothing.
LEMMA FailsExports == ASSUME TypeInv, ExportInv, NEW c \in Clients, Fails(c) PROVE ExportInv'
<1>1. pc' = [pc EXCEPT ![c] = "failed"] /\ UNCHANGED <<table, steady, listed, op, target>>
  BY DEF Fails, Await, store, aux
<1>2. pc'[c] = "failed" /\ \A x \in Clients \ {c} : pc'[x] = pc[x]
  BY <1>1 DEF TypeInv
<1>3. QED
  BY <1>1, <1>2 DEF ExportInv, Rows

\* Every step keeps what the exports have.
LEMMA ExportInvStep == TypeInv /\ ExportInv /\ [Next]_vars => ExportInv'
<1> SUFFICES ASSUME TypeInv, ExportInv, [Next]_vars PROVE ExportInv'
  OBVIOUS
<1>1. CASE UNCHANGED vars
  BY <1>1 DEF vars, store, ExportInv, Rows
<1>2. ASSUME NEW c \in Clients, Call(c) \/ Load(c) \/ Page(c) PROVE ExportInv'
  BY <1>2, CallExports, LoadExports, PageExports
<1>3. ASSUME NEW c \in Clients,
             \/ Embedded(c) \/ Provisioned(c) \/ Forget(c)
             \/ Query(c) \/ QueryWithJoin(c) \/ SimilarityMatrix(c) \/ Count(c) \/ LearnNormalizer(c)
             \/ SelectNames(c) \/ CountEach(c) \/ LoadEach(c) \/ DropNothing(c) \/ DeleteEntry(c)
      PROVE  ExportInv'
  BY <1>3, RestExports
<1>4. ASSUME NEW c \in Clients, Provision(c) \/ Insert(c) PROVE ExportInv'
  BY <1>4, GrowthExports
<1>5. ASSUME NEW c \in Clients, Drop(c) \/ Delete(c) \/ DeleteEach(c) PROVE ExportInv'
  BY <1>5, LossExports
<1>6. ASSUME NEW c \in Clients, Fails(c) PROVE ExportInv'
  BY <1>6, FailsExports
<1>7. ASSUME NEW c \in Clients, EnsureRegistry(c) PROVE ExportInv'
  BY <1>7 DEF EnsureRegistry, store, aux, ExportInv, Rows
<1>8. QED
  BY <1>1, <1>2, <1>3, <1>4, <1>5, <1>6, <1>7 DEF Next

\* An export that ends has listed what was in the collection from its first statement
\* to its last, and nothing twice, whatever is inserted, deleted, dropped and created
\* anew between two of its pages (iter_entries).
THEOREM ExportsComplete == Spec => []ExportIsComplete
<1>1. Init => ExportInv
  <2> SUFFICES ASSUME Init PROVE ExportInv
    OBVIOUS
  <2>1. /\ listed = [c \in Clients |-> <<>>] /\ steady = [c \in Clients |-> {}]
        /\ \A c \in Clients : pc[c] = "idle" /\ op[c] = "list"
    BY DEF Init
  <2>2. QED
    BY <2>1 DEF ExportInv
<1>2. ExportInv => ExportIsComplete
  <2> SUFFICES ASSUME ExportInv, NEW c \in Clients, op[c] = "export"
               PROVE  IsInjective(listed[c]) /\ (pc[c] = "done" => steady[c] \subseteq ToSet(listed[c]))
    BY DEF ExportIsComplete
  <2>1. listed[c] \in Seq(Ids) /\ Ids \subseteq Nat /\ Ascends(listed[c])
    BY RagAssumption DEF ExportInv
  <2>2. listed[c] \in Seq(Nat)
    BY <2>1, SeqMonotonic
  <2>3. IsInjective(listed[c])
    BY <2>1, <2>2, AscendsInjective
  <2>4. QED
    BY <2>3 DEF ExportInv
<1>3. RagInv => TypeInv
  BY DEF RagInv
<1>4. QED
  BY <1>1, <1>2, <1>3, RagInvInit, RagInvStep, ExportInvStep, PTL DEF Spec

(***************************************************************************)
(* The SQLite backend                                                      *)
(***************************************************************************)
FileTypeOK ==
  /\ chunk \in [ChunkIds -> Nat]
  /\ pending \in [ChunkIds -> Nat]
  /\ txn \in [Files -> {"none", "begun", "reading", "changed"}]
  /\ config \in Nat
  /\ dimension \in [Files -> Nat]
  /\ initialized \in [Files -> BOOLEAN]
  /\ doing \in [Readers -> {"nothing", "index", "search", "export"}]
  /\ yielded \in [Readers -> Seq(ChunkIds)]
  /\ lasting \in [Readers -> SUBSET ChunkIds]

\* At most one connection has changes that are not committed.
OneWriter == \A f, g \in Files : txn[f] = "changed" /\ txn[g] = "changed" => f = g

\* An initialised service agrees with the file, which then has a dimension.
WidthInv ==
  /\ \A f \in Files : initialized[f] => config # 0 /\ dimension[f] = config
  /\ EveryRowIsScanned

\* An export yields ascending ids; what lasts is there for its connection, and yielded
\* once the cursor has passed it.
CursorInv ==
  \A r \in Readers :
    /\ Ascends(yielded[r])
    /\ doing[r] = "export" => lasting[r] \subseteq Stored(FileOf[r]) /\ Covers(yielded[r], lasting[r])
    /\ doing[r] # "export" => lasting[r] \subseteq ToSet(yielded[r])

FileInv == FileTypeOK /\ OneWriter /\ WidthInv /\ CursorInv

\* A step after which every connection sees what it saw.
SameViews == OneWriter' /\ fileRows' = fileRows /\ \A g \in Files : View(g)' = View(g) /\ txn'[g] \in {"none", "begun", "reading", "changed"}

LEMMA ReadKeepsViews ==
  ASSUME FileTypeOK, OneWriter, NEW f \in Files, TakesReadLock(f) \/ UNCHANGED txn, UNCHANGED fileRows
  PROVE  SameViews /\ txn' \in [Files -> {"none", "begun", "reading", "changed"}]
<1>1. txn' \in [Files -> {"none", "begun", "reading", "changed"}]
  BY DEF FileTypeOK, TakesReadLock
<1>2. \A g \in Files : txn'[g] = "changed" <=> txn[g] = "changed"
  BY DEF FileTypeOK, TakesReadLock
<1>3. UNCHANGED <<chunk, pending>>
  BY DEF fileRows
<1> QED BY <1>1, <1>2, <1>3 DEF SameViews, OneWriter, View

LEMMA RefusedKeepsViews ==
  ASSUME FileTypeOK, OneWriter, NEW f \in Files, WriteRefused(f)
  PROVE  SameViews /\ txn' \in [Files -> {"none", "begun", "reading", "changed"}]
<1>1. txn[f] # "changed"
  <2>1. PICK g \in Files \ {f} : txn[g] = "changed"
    BY DEF WriteRefused, Refused
  <2> QED BY <2>1 DEF OneWriter
<1>2. txn' \in [Files -> {"none", "begun", "reading", "changed"}]
  BY DEF FileTypeOK, WriteRefused
<1>3. \A g \in Files : txn'[g] = "changed" <=> txn[g] = "changed"
  BY <1>1 DEF FileTypeOK, WriteRefused
<1>4. UNCHANGED <<chunk, pending>>
  BY DEF WriteRefused, fileRows
<1> QED BY <1>2, <1>3, <1>4 DEF SameViews, OneWriter, View, WriteRefused

\* A write that is executed: the other connections see it only when it is committed,
\* and then none of them is reading.
LEMMA WriteViews ==
  ASSUME FileTypeOK, OneWriter, NEW f \in Files, NEW changed \in [ChunkIds -> Nat], Write(f, changed)
  PROVE  /\ chunk' \in [ChunkIds -> Nat] /\ pending' \in [ChunkIds -> Nat]
         /\ txn' \in [Files -> {"none", "begun", "reading", "changed"}]
         /\ OneWriter'
         /\ View(f)' = changed
         /\ \A g \in Files \ {f} : View(g)' = View(g) \/ (View(g)' = changed /\ ~Exporting(g))
<1>1. pending' = changed /\ \A g \in Files \ {f} : txn[g] # "changed"
  BY DEF Write, Refused
<1>2. CASE OthersRead(f) /\ UNCHANGED chunk /\ txn' = [txn EXCEPT ![f] = "changed"]
  <2>1. txn'[f] = "changed" /\ \A g \in Files \ {f} : txn'[g] = txn[g]
    BY <1>2 DEF FileTypeOK
  <2>2. txn' \in [Files -> {"none", "begun", "reading", "changed"}]
    BY <1>2 DEF FileTypeOK
  <2>3. OneWriter'
    BY <1>1, <2>1 DEF OneWriter
  <2> QED BY <1>1, <1>2, <2>1, <2>2, <2>3 DEF View, FileTypeOK
<1>3. CASE ~OthersRead(f) /\ chunk' = changed /\ txn' = [txn EXCEPT ![f] = "none"]
  <2>1. txn'[f] = "none" /\ \A g \in Files \ {f} : txn'[g] = txn[g]
    BY <1>3 DEF FileTypeOK
  <2>2. txn' \in [Files -> {"none", "begun", "reading", "changed"}]
    BY <1>3 DEF FileTypeOK
  <2>3. \A g \in Files \ {f} : ~Exporting(g)
    BY <1>3 DEF OthersRead, HoldsRead
  <2>4. OneWriter'
    BY <1>1, <2>1 DEF OneWriter
  <2> QED BY <1>1, <1>3, <2>1, <2>2, <2>3, <2>4 DEF View
<1> QED BY <1>2, <1>3 DEF Write

LEMMA StoredIds == ASSUME NEW f PROVE Stored(f) \subseteq ChunkIds
BY DEF Stored

LEMMA ViewType == ASSUME FileTypeOK, NEW f PROVE View(f) \in [ChunkIds -> Nat]
BY DEF FileTypeOK, View

\* Whatever a call is told to accept, the file's dimension is set once.
LEMMA EnsureKeepsWidths ==
  ASSUME FileTypeOK, WidthInv, NEW f \in Files, NEW d \in Widths, EnsureVectorReady(f, d)
  PROVE  /\ config' \in Nat /\ dimension' \in [Files -> Nat] /\ initialized' \in [Files -> BOOLEAN]
         /\ \A g \in Files : initialized'[g] => config' # 0 /\ dimension'[g] = config'
         /\ VectorReady(f, d) => config' = d
         /\ \A g \in Files : \A i \in Stored(g) : config' = config
<1>1. d \in Nat \ {0}
  BY SqliteAssumption
<1>2. /\ dimension' = [dimension EXCEPT ![f] = IF dimension[f] = 0 THEN d ELSE dimension[f]]
      /\ initialized' = [initialized EXCEPT ![f] = initialized[f] \/ VectorReady(f, d)]
      /\ config' = IF VectorReady(f, d) /\ ~initialized[f] THEN d ELSE config
  BY DEF EnsureVectorReady
<1>3. \A g \in Files : \A i \in Stored(g) : config # 0
  <2> SUFFICES ASSUME NEW g \in Files, NEW i \in Stored(g) PROVE config # 0
    OBVIOUS
  <2>1. View(g)[i] = config /\ View(g)[i] > 0 /\ View(g)[i] \in Nat
    BY ViewType DEF WidthInv, EveryRowIsScanned, Stored
  <2> QED BY <2>1
<1>4. VectorReady(f, d) => (config = d \/ config = 0) /\ dimension[f] \in {0, d}
  <2>1. VectorReady(f, d) => dimension[f] \in {0, d} /\ (initialized[f] \/ config = d \/ config = 0)
    BY DEF VectorReady, VectorInit
  <2>2. QED
    BY <1>1, <2>1 DEF WidthInv
<1>5. VectorReady(f, d) \in BOOLEAN
  BY DEF VectorReady, VectorInit, MayRead
<1>6. /\ config' \in Nat /\ dimension' \in [Files -> Nat] /\ initialized' \in [Files -> BOOLEAN]
  BY <1>1, <1>2, <1>5 DEF FileTypeOK
<1>7. VectorReady(f, d) => config' = d
  BY <1>1, <1>2, <1>4 DEF WidthInv
<1>8. \A g \in Files : \A i \in Stored(g) : config' = config
  BY <1>2, <1>3, <1>4
<1>9. ASSUME NEW g \in Files, initialized'[g] PROVE config' # 0 /\ dimension'[g] = config'
  <2>1. CASE VectorReady(f, d)
    <3>1. config' = d /\ (config = d \/ config = 0)
      BY <2>1, <1>4, <1>7
    <3>2. CASE g = f
      BY <2>1, <3>1, <3>2, <1>1, <1>2, <1>4 DEF FileTypeOK
    <3>3. CASE g # f
      <4>1. initialized[g] /\ dimension'[g] = dimension[g]
        BY <3>3, <1>2, <1>9 DEF FileTypeOK
      <4>2. QED
        BY <3>1, <4>1 DEF WidthInv
    <3>4. QED
      BY <3>2, <3>3
  <2>2. CASE ~ VectorReady(f, d)
    <3>1. config' = config /\ initialized[g]
      BY <2>2, <1>2, <1>9 DEF FileTypeOK
    <3>2. dimension'[g] = dimension[g]
      BY <3>1, <1>1, <1>2 DEF WidthInv, FileTypeOK
    <3>3. QED
      BY <3>1, <3>2 DEF WidthInv
  <2>3. QED
    BY <2>1, <2>2
<1>10. QED
  BY <1>6, <1>7, <1>8, <1>9

\* Every connection sees what it saw, and the dimension of the rows is the same.
LEMMA SameViewsKeep ==
  ASSUME FileInv, SameViews, txn' \in [Files -> {"none", "begun", "reading", "changed"}],
         config' \in Nat, dimension' \in [Files -> Nat], initialized' \in [Files -> BOOLEAN],
         \A g \in Files : initialized'[g] => config' # 0 /\ dimension'[g] = config',
         \A g \in Files : \A i \in Stored(g) : config' = config,
         doing' \in [Readers -> {"nothing", "index", "search", "export"}],
         yielded' \in [Readers -> Seq(ChunkIds)], lasting' \in [Readers -> SUBSET ChunkIds]
  PROVE  FileTypeOK' /\ OneWriter' /\ WidthInv' /\ \A g \in Files : Stored(g)' = Stored(g)
<1> USE DEF FileInv
<1>1. UNCHANGED <<chunk, pending>>
  BY DEF SameViews, fileRows
<1>2. FileTypeOK'
  BY <1>1 DEF FileTypeOK
<1>3. \A g \in Files : View(g)' = View(g) /\ Stored(g)' = Stored(g)
  BY DEF SameViews, Stored
<1>4. EveryRowIsScanned'
  BY <1>3 DEF WidthInv, EveryRowIsScanned
<1> QED BY <1>2, <1>3, <1>4 DEF SameViews, WidthInv

\* A reader begins.
LEMMA UseKeeps == ASSUME FileInv, NEW r \in Readers, Use(r) PROVE FileInv'
<1> USE DEF FileInv
<1> DEFINE f == FileOf[r]
<1>1. PICK what \in {"index", "search", "export"} :
        /\ doing' = [doing EXCEPT ![r] = what]
        /\ lasting' = [lasting EXCEPT ![r] = IF what = "export" THEN Stored(f) ELSE {}]
        /\ TakesReadLock(f) \/ UNCHANGED txn
  BY DEF Use, Doing
<1>2. yielded' = [yielded EXCEPT ![r] = <<>>] /\ UNCHANGED <<fileRows, config, dimension, initialized>>
  BY DEF Use
<1>3. f \in Files /\ Stored(f) \subseteq ChunkIds
  BY SqliteAssumption, StoredIds
<1>4. SameViews /\ txn' \in [Files -> {"none", "begun", "reading", "changed"}]
  BY <1>1, <1>2, <1>3, ReadKeepsViews
<1>5. /\ config' \in Nat /\ dimension' \in [Files -> Nat] /\ initialized' \in [Files -> BOOLEAN]
      /\ \A g \in Files : initialized'[g] => config' # 0 /\ dimension'[g] = config'
      /\ \A g \in Files : \A i \in Stored(g) : config' = config
  BY <1>2 DEF FileTypeOK, WidthInv
<1>6. doing' \in [Readers -> {"nothing", "index", "search", "export"}]
      /\ yielded' \in [Readers -> Seq(ChunkIds)] /\ lasting' \in [Readers -> SUBSET ChunkIds]
  BY <1>1, <1>2, <1>3 DEF FileTypeOK
<1> HIDE DEF f
<1>7. FileTypeOK' /\ OneWriter' /\ WidthInv' /\ \A g \in Files : Stored(g)' = Stored(g)
  BY <1>4, <1>5, <1>6, SameViewsKeep
<1>8. CursorInv'
  <2>1. Ascends(<<>>) /\ \A X : Covers(<<>>, X)
    BY DEF Ascends, Covers
  <2>2. \A x \in Readers \ {r} : doing'[x] = doing[x] /\ yielded'[x] = yielded[x] /\ lasting'[x] = lasting[x]
    BY <1>1, <1>2 DEF FileTypeOK
  <2>3. doing'[r] = what /\ yielded'[r] = <<>> /\ lasting'[r] = IF what = "export" THEN Stored(f) ELSE {}
    BY <1>1, <1>2 DEF FileTypeOK
  <2>4. \A x \in Readers : FileOf[x] \in Files /\ Stored(FileOf[x])' = Stored(FileOf[x])
    BY <1>7, SqliteAssumption
  <2>5. \A x \in Readers \ {r} :
          /\ Ascends(yielded'[x])
          /\ doing'[x] = "export" => lasting'[x] \subseteq Stored(FileOf[x])' /\ Covers(yielded'[x], lasting'[x])
          /\ doing'[x] # "export" => lasting'[x] \subseteq ToSet(yielded'[x])
    BY <2>2, <2>4 DEF CursorInv
  <2>6. /\ Ascends(yielded'[r])
        /\ doing'[r] = "export" => lasting'[r] \subseteq Stored(FileOf[r])' /\ Covers(yielded'[r], lasting'[r])
        /\ doing'[r] # "export" => lasting'[r] \subseteq ToSet(yielded'[r])
    BY <2>1, <2>3, <2>4 DEF f
  <2> QED BY <2>5, <2>6 DEF CursorInv
<1> QED BY <1>7, <1>8

\* What an executed write leaves of the views of all connections.
LEMMA WriteKeeps ==
  ASSUME FileInv, NEW f \in Files, NEW changed \in [ChunkIds -> Nat], Write(f, changed),
         config' \in Nat, dimension' \in [Files -> Nat], initialized' \in [Files -> BOOLEAN],
         \A g \in Files : initialized'[g] => config' # 0 /\ dimension'[g] = config',
         \A g \in Files : \A i \in Stored(g) : config' = config,
         \A i \in ChunkIds : changed[i] > 0 => changed[i] = config',
         doing' \in [Readers -> {"nothing", "index", "search", "export"}],
         yielded' \in [Readers -> Seq(ChunkIds)], lasting' \in [Readers -> SUBSET ChunkIds]
  PROVE  /\ FileTypeOK' /\ OneWriter' /\ WidthInv'
         /\ Stored(f)' = {i \in ChunkIds : changed[i] > 0}
         /\ \A g \in Files \ {f} : Stored(g)' = Stored(g) \/ ~Exporting(g)
<1> USE DEF FileInv
<1>1. /\ chunk' \in [ChunkIds -> Nat] /\ pending' \in [ChunkIds -> Nat]
      /\ txn' \in [Files -> {"none", "begun", "reading", "changed"}]
      /\ OneWriter'
      /\ View(f)' = changed
      /\ \A g \in Files \ {f} : View(g)' = View(g) \/ (View(g)' = changed /\ ~Exporting(g))
  BY WriteViews
<1>2. FileTypeOK'
  BY <1>1 DEF FileTypeOK
<1>3. Stored(f)' = {i \in ChunkIds : changed[i] > 0}
  BY <1>1 DEF Stored
<1>4. \A g \in Files \ {f} : Stored(g)' = Stored(g) \/ ~Exporting(g)
  BY <1>1 DEF Stored
<1>5. EveryRowIsScanned'
  <2> SUFFICES ASSUME NEW g \in Files, NEW i \in Stored(g)' PROVE View(g)'[i] = config'
    BY DEF EveryRowIsScanned
  <2>1. i \in ChunkIds /\ View(g)'[i] > 0
    BY DEF Stored
  <2>2. CASE View(g)' = changed
    BY <2>1, <2>2
  <2>3. CASE View(g)' = View(g)
    <3>1. i \in Stored(g)
      BY <2>1, <2>3 DEF Stored
    <3> QED BY <2>3, <3>1 DEF WidthInv, EveryRowIsScanned
  <2> QED BY <1>1, <2>2, <2>3
<1> QED BY <1>1, <1>2, <1>3, <1>4, <1>5 DEF WidthInv

\* index_batch and query_batch: a row may be added.
LEMMA IndexKeeps == ASSUME FileInv, NEW r \in Readers, IndexBatch(r) \/ QueryBatch(r) PROVE FileInv'
<1> USE DEF FileInv
<1> DEFINE f == FileOf[r]
<1>1. PICK d \in Widths :
        /\ EnsureVectorReady(f, d)
        /\ \/ ReadOnly(f, d)
           \/ WriteRefused(f)
           \/ VectorReady(f, d) /\ \E i \in ChunkIds : Write(f, [View(f) EXCEPT ![i] = d])
  BY DEF IndexBatch, QueryBatch
<1>2. /\ doing[r] # "export" /\ doing' = [doing EXCEPT ![r] = "nothing"]
      /\ UNCHANGED <<yielded, lasting>>
  BY DEF IndexBatch, QueryBatch, Doing
<1>3. d \in Nat \ {0} /\ f \in Files /\ \A x \in Readers : FileOf[x] \in Files
  BY SqliteAssumption
<1> HIDE DEF f
<1>4. /\ config' \in Nat /\ dimension' \in [Files -> Nat] /\ initialized' \in [Files -> BOOLEAN]
      /\ \A g \in Files : initialized'[g] => config' # 0 /\ dimension'[g] = config'
      /\ VectorReady(f, d) => config' = d
      /\ \A g \in Files : \A i \in Stored(g) : config' = config
  BY <1>1, <1>3, EnsureKeepsWidths
<1>5. /\ doing' \in [Readers -> {"nothing", "index", "search", "export"}]
      /\ yielded' \in [Readers -> Seq(ChunkIds)] /\ lasting' \in [Readers -> SUBSET ChunkIds]
  BY <1>2 DEF FileTypeOK
<1>6. /\ FileTypeOK' /\ OneWriter' /\ WidthInv'
      /\ \A g \in Files : Exporting(g) => Stored(g) \subseteq Stored(g)'
  <2>1. CASE ReadOnly(f, d) \/ WriteRefused(f)
    <3>1. SameViews /\ txn' \in [Files -> {"none", "begun", "reading", "changed"}]
      BY <2>1, <1>3, ReadKeepsViews, RefusedKeepsViews DEF ReadOnly
    <3> QED BY <1>4, <1>5, <3>1, SameViewsKeep
  <2>2. CASE VectorReady(f, d) /\ \E i \in ChunkIds : Write(f, [View(f) EXCEPT ![i] = d])
    <3>1. PICK i \in ChunkIds : Write(f, [View(f) EXCEPT ![i] = d])
      BY <2>2
    <3> DEFINE changed == [View(f) EXCEPT ![i] = d]
    <3>2. View(f) \in [ChunkIds -> Nat]
      BY ViewType
    <3>3. /\ changed \in [ChunkIds -> Nat] /\ changed[i] = d
          /\ \A j \in ChunkIds \ {i} : changed[j] = View(f)[j]
      BY <1>3, <3>2
    <3>4. \A j \in Stored(f) : View(f)[j] = config /\ config' = config
      BY <1>3, <1>4 DEF WidthInv, EveryRowIsScanned
    <3>5. \A j \in ChunkIds : changed[j] > 0 => changed[j] = config'
      <4> SUFFICES ASSUME NEW j \in ChunkIds, j # i, View(f)[j] > 0 PROVE View(f)[j] = config'
        BY <1>4, <2>2, <3>3
      <4>1. j \in Stored(f)
        BY DEF Stored
      <4> QED BY <3>4, <4>1
    <3>6. Stored(f) \subseteq {j \in ChunkIds : changed[j] > 0}
      BY <1>3, <3>3 DEF Stored
    <3>7. Write(f, changed)
      BY <3>1
    <3> HIDE DEF changed
    <3>8. /\ FileTypeOK' /\ OneWriter' /\ WidthInv'
          /\ Stored(f)' = {j \in ChunkIds : changed[j] > 0}
          /\ \A g \in Files \ {f} : Stored(g)' = Stored(g) \/ ~Exporting(g)
      BY <1>3, <1>4, <1>5, <3>3, <3>5, <3>7, WriteKeeps
    <3> QED BY <3>6, <3>8
  <2> QED BY <1>1, <2>1, <2>2
<1>7. CursorInv'
  <2>1. \A x \in Readers : doing'[x] = "export" <=> doing[x] = "export"
    BY <1>2 DEF FileTypeOK
  <2>2. \A x \in Readers : doing[x] = "export" => Stored(FileOf[x]) \subseteq Stored(FileOf[x])'
    BY <1>3, <1>6 DEF Exporting
  <2> QED BY <1>2, <2>1, <2>2 DEF CursorInv
<1> QED BY <1>6, <1>7

\* Chunks are deleted from what the connection sees.
LEMMA DeleteChunksKeeps == ASSUME FileInv, NEW r \in Readers, DeleteChunks(r) PROVE FileInv'
<1> USE DEF FileInv
<1> DEFINE f == FileOf[r]
<1>1. UNCHANGED <<config, dimension, initialized, doing, yielded>>
  BY DEF DeleteChunks
<1>2. f \in Files /\ \A x \in Readers : FileOf[x] \in Files
  BY SqliteAssumption
<1>3. /\ config' \in Nat /\ dimension' \in [Files -> Nat] /\ initialized' \in [Files -> BOOLEAN]
      /\ \A g \in Files : initialized'[g] => config' # 0 /\ dimension'[g] = config'
      /\ \A g \in Files : \A i \in Stored(g) : config' = config
      /\ doing' \in [Readers -> {"nothing", "index", "search", "export"}]
      /\ yielded' \in [Readers -> Seq(ChunkIds)]
  BY <1>1 DEF FileTypeOK, WidthInv
<1>4. CASE WriteRefused(f) /\ UNCHANGED lasting
  <2>1. SameViews /\ txn' \in [Files -> {"none", "begun", "reading", "changed"}]
    BY <1>2, <1>4, RefusedKeepsViews
  <2>2. lasting' \in [Readers -> SUBSET ChunkIds]
    BY <1>4 DEF FileTypeOK
  <2>3. FileTypeOK' /\ OneWriter' /\ WidthInv' /\ \A g \in Files : Stored(g)' = Stored(g)
    BY <1>3, <2>1, <2>2, SameViewsKeep
  <2>4. CursorInv'
    <3>1. \A x \in Readers : Stored(FileOf[x])' = Stored(FileOf[x])
      BY <1>2, <2>3
    <3> QED BY <1>1, <1>4, <3>1 DEF CursorInv
  <2> QED BY <2>3, <2>4
<1>5. CASE \E gone \in SUBSET Stored(f) :
             /\ Write(f, [i \in ChunkIds |-> IF i \in gone THEN 0 ELSE View(f)[i]])
             /\ lasting' = [x \in Readers |-> IF FileOf[x] = f THEN lasting[x] \ gone ELSE lasting[x]]
  <2> HIDE DEF f
  <2>1. PICK gone \in SUBSET Stored(f) :
          /\ Write(f, [i \in ChunkIds |-> IF i \in gone THEN 0 ELSE View(f)[i]])
          /\ lasting' = [x \in Readers |-> IF FileOf[x] = f THEN lasting[x] \ gone ELSE lasting[x]]
    BY <1>5
  <2> DEFINE changed == [i \in ChunkIds |-> IF i \in gone THEN 0 ELSE View(f)[i]]
  <2>2. View(f) \in [ChunkIds -> Nat]
    BY ViewType
  <2>3. changed \in [ChunkIds -> Nat]
    BY <2>2
  <2>4. {i \in ChunkIds : changed[i] > 0} = Stored(f) \ gone
    BY <2>2 DEF Stored
  <2>5. \A i \in ChunkIds : changed[i] > 0 => changed[i] = config'
    <3> SUFFICES ASSUME NEW i \in ChunkIds, changed[i] > 0 PROVE changed[i] = config'
      OBVIOUS
    <3>1. i \in Stored(f) /\ i \notin gone
      BY <2>4
    <3>2. View(f)[i] = config
      BY <1>2, <3>1 DEF WidthInv, EveryRowIsScanned
    <3> QED BY <1>1, <3>1, <3>2
  <2>6. lasting' \in [Readers -> SUBSET ChunkIds]
    BY <2>1 DEF FileTypeOK
  <2>7. Write(f, changed)
    BY <2>1
  <2> HIDE DEF changed
  <2>8. /\ FileTypeOK' /\ OneWriter' /\ WidthInv'
        /\ Stored(f)' = {i \in ChunkIds : changed[i] > 0}
        /\ \A g \in Files \ {f} : Stored(g)' = Stored(g) \/ ~Exporting(g)
    BY <1>2, <1>3, <2>3, <2>5, <2>6, <2>7, WriteKeeps
  <2>9. \A s, X, Y : Covers(s, X) /\ Y \subseteq X => Covers(s, Y)
    BY DEF Covers
  <2>10. ASSUME NEW x \in Readers, doing[x] = "export"
         PROVE  lasting'[x] \subseteq Stored(FileOf[x])' /\ Covers(yielded[x], lasting'[x])
    <3>1. lasting[x] \subseteq Stored(FileOf[x]) /\ Covers(yielded[x], lasting[x])
      BY <2>10 DEF CursorInv
    <3>2. CASE FileOf[x] = f
      <4>1. lasting'[x] = lasting[x] \ gone
        BY <2>1, <3>2
      <4>2. Stored(FileOf[x])' = Stored(f) \ gone
        BY <2>4, <2>8, <3>2
      <4> QED BY <2>9, <3>1, <3>2, <4>1, <4>2
    <3>3. CASE FileOf[x] # f
      <4>1. lasting'[x] = lasting[x]
        BY <2>1, <3>3
      <4>2. Exporting(FileOf[x])
        BY <2>10 DEF Exporting
      <4>3. Stored(FileOf[x])' = Stored(FileOf[x])
        BY <1>2, <2>8, <3>3, <4>2
      <4> QED BY <3>1, <4>1, <4>3
    <3> QED BY <3>2, <3>3
  <2>11. \A x \in Readers : lasting'[x] \subseteq lasting[x]
    BY <2>1
  <2>12. CursorInv'
    BY <1>1, <2>10, <2>11 DEF CursorInv
  <2> QED BY <2>8, <2>12
<1> QED BY <1>4, <1>5 DEF DeleteChunks

\* One batch more of the chunks the connection sees.
LEMMA ExportBatchKeeps == ASSUME FileInv, NEW r \in Readers, ExportBatch(r) PROVE FileInv'
<1> USE DEF FileInv
<1> DEFINE rest == Ahead(r)
           s == yielded[r]
           X == lasting[r]
           S == Stored(FileOf[r])
<1>1. PICK batch \in SeqOf(rest, FetchSize) :
        /\ IsBatch(batch, rest)
        /\ yielded' = [yielded EXCEPT ![r] = s \o batch]
        /\ doing' = [doing EXCEPT ![r] = IF batch = <<>> THEN "nothing" ELSE "export"]
  BY DEF ExportBatch, Doing
<1>2. doing[r] = "export" /\ UNCHANGED <<fileRows, txn, config, dimension, initialized, lasting>>
  BY DEF ExportBatch
<1>3. X \subseteq S /\ Covers(s, X) /\ Ascends(s)
  BY <1>2 DEF CursorInv
<1>4. S \subseteq ChunkIds /\ ChunkIds \subseteq Nat /\ FetchSize \in Nat \ {0}
  BY SqliteAssumption DEF Stored
<1>5. s \in Seq(ChunkIds) /\ s \in Seq(Nat)
  <2>1. s \in Seq(ChunkIds)
    BY DEF FileTypeOK
  <2>2. QED
    BY <2>1, <1>4, SeqMonotonic
<1>6. IsBeyond(rest, s, S) /\ rest \subseteq ChunkIds
  BY <1>4 DEF Ahead, IsBeyond
<1>7. batch \in Seq(rest) /\ batch \in Seq(ChunkIds)
  <2>1. batch \in Seq(rest)
    BY SeqDef DEF SeqOf
  <2>2. QED
    BY <2>1, <1>6, SeqMonotonic
<1>8. Ascends(batch) /\ SkipsNothing(batch, rest, FetchSize)
  BY <1>1 DEF IsBatch, Ascends, SkipsNothing
<1>9. s \o batch \in Seq(ChunkIds)
  BY <1>5, <1>7
<1>10. S \in SUBSET Nat /\ X \in SUBSET S
  BY <1>3, <1>4
<1> HIDE DEF rest, s, X, S
<1>11. Ascends(s \o batch) /\ Covers(s \o batch, X) /\ (batch = <<>> => X \subseteq ToSet(s \o batch))
  BY <1>3, <1>4, <1>5, <1>6, <1>7, <1>8, <1>10, PageContinues
<1>12. UNCHANGED <<chunk, pending, txn>>
  BY <1>2 DEF fileRows
<1>13. FileTypeOK' /\ OneWriter'
  BY <1>1, <1>2, <1>9, <1>12 DEF FileTypeOK, OneWriter
<1>14. \A g \in Files : View(g)' = View(g) /\ Stored(g)' = Stored(g)
  BY <1>12 DEF View, Stored
<1>15. WidthInv'
  BY <1>2, <1>14 DEF WidthInv, EveryRowIsScanned
<1>16. CursorInv'
  <2>1. /\ yielded'[r] = s \o batch /\ doing'[r] = IF batch = <<>> THEN "nothing" ELSE "export"
        /\ \A x \in Readers \ {r} : yielded'[x] = yielded[x] /\ doing'[x] = doing[x]
    BY <1>1 DEF FileTypeOK
  <2>2. lasting' = lasting /\ \A x \in Readers : Stored(FileOf[x])' = Stored(FileOf[x])
    BY <1>2, <1>14, SqliteAssumption
  <2>3. QED
    BY <1>3, <1>11, <2>1, <2>2 DEF CursorInv, X, S
<1>17. QED
  BY <1>13, <1>15, <1>16

\* The invariant of the connections to a SQLite file: who writes, what each sees, and
\* what its exports have yielded of that.
THEOREM FileInvariant == SqliteSpec => []FileInv
<1>1. SqliteInit => FileInv
  <2> SUFFICES ASSUME SqliteInit PROVE FileInv
    OBVIOUS
  <2>1. FileTypeOK /\ OneWriter
    BY DEF SqliteInit, FileTypeOK, OneWriter
  <2>2. WidthInv
    BY DEF SqliteInit, WidthInv, EveryRowIsScanned, Stored, View
  <2>3. CursorInv
    BY DEF SqliteInit, CursorInv, Ascends
  <2>4. QED
    BY <2>1, <2>2, <2>3 DEF FileInv
<1>2. FileInv /\ [SqliteNext]_sqliteVars => FileInv'
  <2> SUFFICES ASSUME FileInv, [SqliteNext]_sqliteVars PROVE FileInv'
    OBVIOUS
  <2>1. CASE UNCHANGED sqliteVars
    <3>1. UNCHANGED <<chunk, pending, txn, config, dimension, initialized, doing, yielded, lasting>>
      BY <2>1 DEF sqliteVars, fileRows
    <3>2. \A g : View(g)' = View(g) /\ Stored(g)' = Stored(g)
      BY <3>1 DEF View, Stored
    <3>3. FileTypeOK' /\ OneWriter'
      BY <3>1 DEF FileInv, FileTypeOK, OneWriter
    <3>4. WidthInv'
      BY <3>1, <3>2 DEF FileInv, WidthInv, EveryRowIsScanned
    <3>5. CursorInv'
      BY <3>1, <3>2 DEF FileInv, CursorInv
    <3> QED BY <3>3, <3>4, <3>5 DEF FileInv
  <2>2. ASSUME NEW r \in Readers, Use(r) PROVE FileInv'
    BY <2>2, UseKeeps
  <2>3. ASSUME NEW r \in Readers, IndexBatch(r) \/ QueryBatch(r) PROVE FileInv'
    BY <2>3, IndexKeeps
  <2>4. ASSUME NEW r \in Readers, DeleteChunks(r) PROVE FileInv'
    BY <2>4, DeleteChunksKeeps
  <2>5. ASSUME NEW r \in Readers, ExportBatch(r) PROVE FileInv'
    BY <2>5, ExportBatchKeeps
  <2>6. QED
    BY <2>1, <2>2, <2>3, <2>4, <2>5 DEF SqliteNext
<1>3. QED
  BY <1>1, <1>2, PTL DEF SqliteSpec

\* No row that a connection sees, committed or not, is one that a scan would skip,
\* whichever services wrote it and in whatever order they were initialised
\* (_ensure_vector_ready).
THEOREM RowsScanned == SqliteSpec => []EveryRowIsScanned
<1>1. FileInv => EveryRowIsScanned
  BY DEF FileInv, WidthInv
<1>2. QED
  BY <1>1, FileInvariant, PTL

\* An export that has ended yielded what its connection saw all along, and nothing
\* twice, whatever the other services write (iter_entries).
THEOREM SqliteExportsComplete == SqliteSpec => []SqliteExportIsComplete
<1>1. FileInv => SqliteExportIsComplete
  <2> SUFFICES ASSUME FileInv, NEW r \in Readers
               PROVE  IsInjective(yielded[r]) /\ (doing[r] = "nothing" => lasting[r] \subseteq ToSet(yielded[r]))
    BY DEF SqliteExportIsComplete
  <2>1. yielded[r] \in Seq(ChunkIds) /\ ChunkIds \subseteq Nat /\ Ascends(yielded[r])
    BY SqliteAssumption DEF FileInv, FileTypeOK, CursorInv
  <2>2. yielded[r] \in Seq(Nat)
    BY <2>1, SeqMonotonic
  <2>3. IsInjective(yielded[r])
    BY <2>1, <2>2, AscendsInjective
  <2>4. QED
    BY <2>3 DEF FileInv, CursorInv
<1>2. QED
  BY <1>1, FileInvariant, PTL

(***************************************************************************)
(* The similarity search                                                   *)
(***************************************************************************)
LEMMA LeastRank ==
  ASSUME NEW T \in SUBSET Nat, T # {}
  PROVE  \E n \in T : \A m \in T : n <= m
<1> DEFINE Below == {p \in Nat \X Nat : p[1] < p[2]}
<1>1. IsWellFoundedOn(Below, Nat)
  BY NatLessThanWellFounded DEF OpToRel
<1>2. PICK n \in T : \A m \in T : <<m, n>> \notin Below
  <2> HIDE DEF Below
  <2> QED BY <1>1, WFMin
<1>3. \A m \in T : ~(m < n)
  BY <1>2
<1> QED BY <1>3

Covered(cover, D) == UNION {cover[d] : d \in D}

\* Sets of at most F elements each, one for every member of C, have at most F for each
\* member of C together.
LEMMA CoverBound ==
  ASSUME NEW F \in Nat, NEW C, IsFiniteSet(C), NEW cover,
         \A c \in C : IsFiniteSet(cover[c]) /\ Cardinality(cover[c]) <= F
  PROVE  IsFiniteSet(Covered(cover, C)) /\ Cardinality(Covered(cover, C)) <= Cardinality(C) * F
<1> DEFINE Small(D) == IsFiniteSet(Covered(cover, D)) /\ Cardinality(Covered(cover, D)) <= Cardinality(D) * F
           Bad == {n \in Nat : \E D \in SUBSET C : Cardinality(D) = n /\ ~Small(D)}
<1>1. \A D \in SUBSET C : IsFiniteSet(D) /\ Cardinality(D) \in Nat
  BY FS_Subset, FS_CardinalityType
<1>2. ASSUME Bad # {} PROVE FALSE
  <2>1. PICK m \in Bad : \A n \in Bad : m <= n
    BY <1>2, LeastRank
  <2>2. PICK D \in SUBSET C : Cardinality(D) = m /\ ~Small(D)
    BY <2>1
  <2>3. CASE D = {}
    <3>1. Covered(cover, D) = {}
      BY <2>3 DEF Covered
    <3>2. Cardinality(D) * F = 0
      BY <2>3, FS_EmptySet
    <3> QED BY <2>2, <3>1, <3>2, FS_EmptySet
  <2>4. CASE D # {}
    <3>1. PICK d \in D : TRUE
      BY <2>4
    <3> DEFINE E == D \ {d}
    <3>2. E \in SUBSET C /\ Cardinality(E) = m - 1 /\ m - 1 \in Nat
      <4>1. IsFiniteSet(D) /\ Cardinality(D) = m /\ m \in Nat /\ E \in SUBSET C
        BY <1>1, <2>2
      <4>2. Cardinality(E) = m - 1
        BY <3>1, <4>1, FS_RemoveElement
      <4>3. Cardinality(E) \in Nat
        BY <1>1, <4>1
      <4> QED BY <4>1, <4>2, <4>3
    <3>3. Small(E)
      BY <2>1, <3>2
    <3>4. Covered(cover, D) = Covered(cover, E) \cup cover[d]
      BY <3>1 DEF Covered
    <3>5. IsFiniteSet(cover[d]) /\ Cardinality(cover[d]) <= F /\ Cardinality(cover[d]) \in Nat
      BY <3>1, FS_CardinalityType
    <3>6. IsFiniteSet(Covered(cover, E)) /\ Cardinality(Covered(cover, E)) <= (m - 1) * F
          /\ Cardinality(Covered(cover, E)) \in Nat
      BY <3>2, <3>3, FS_CardinalityType
    <3>7. IsFiniteSet(Covered(cover, D))
          /\ Cardinality(Covered(cover, D)) <= Cardinality(Covered(cover, E)) + Cardinality(cover[d])
      <4>1. Cardinality(Covered(cover, E) \cap cover[d]) \in Nat
        BY <3>5, FS_Subset, FS_CardinalityType
      <4> HIDE DEF E
      <4> DEFINE A == Covered(cover, E)
                 B == cover[d]
      <4>2. IsFiniteSet(A) /\ IsFiniteSet(B) /\ Covered(cover, D) = A \cup B
        BY <3>4, <3>5, <3>6
      <4>3. Cardinality(A) \in Nat /\ Cardinality(B) \in Nat /\ Cardinality(A \cap B) \in Nat
        BY <3>5, <3>6, <4>1
      <4> HIDE DEF A, B
      <4>4. IsFiniteSet(A \cup B) /\ Cardinality(A \cup B) = Cardinality(A) + Cardinality(B) - Cardinality(A \cap B)
        BY <4>2, FS_Union
      <4>5. Cardinality(A \cup B) <= Cardinality(A) + Cardinality(B)
        BY <4>3, <4>4
      <4> QED BY <4>2, <4>4, <4>5 DEF A, B
    <3>8. (m - 1) * F + F = m * F
      BY <2>1
    <3>9. Cardinality(Covered(cover, D)) \in Nat
      BY <3>7, FS_CardinalityType
    <3>10. Cardinality(Covered(cover, D)) <= m * F
      <4>1. (m - 1) * F \in Int
        BY <3>2
      <4> HIDE DEF E
      <4> QED BY <3>5, <3>6, <3>7, <3>8, <3>9, <4>1
    <3> QED BY <2>2, <3>7, <3>10
  <2> QED BY <2>3, <2>4
<1> QED BY <1>1, <1>2

\* The chunks are ranked by naturals and every argument is finite.
SearchInv ==
  /\ IsFiniteSet(DOMAIN near) /\ DOMAIN near \subseteq Nat
  /\ mine \subseteq DOMAIN near /\ found \subseteq DOMAIN near
  /\ IsFiniteSet(wanted) /\ topK \in Nat

\* The chunks of a source among some.
Cell(H, s) == {i \in H : near[i] = s}

\* No source has more of them than the most.
LEMMA FewOfAny ==
  ASSUME NEW H, IsFiniteSet(H), NEW F \in Nat, AtMost(H, F), NEW s
  PROVE  IsFiniteSet(Cell(H, s)) /\ Cardinality(Cell(H, s)) <= F
<1>1. IsFiniteSet(Cell(H, s))
  BY FS_Subset DEF Cell
<1>2. CASE Cell(H, s) = {}
  BY <1>1, <1>2, FS_EmptySet
<1>3. CASE Cell(H, s) # {}
  <2>1. s \in {near[i] : i \in H}
    BY <1>3 DEF Cell
  <2> QED BY <1>1, <2>1 DEF AtMost, Cell
<1> QED BY <1>2, <1>3

\* What a limit leaves of some ranks is what it leaves of all.
LEMMA LimitOfAll ==
  ASSUME NEW S, IsFiniteSet(S), NEW k \in Nat, Cardinality(S) <= k
  PROVE  Limit(S, k) = S
<1>1. \A i \in S : Cardinality({j \in S : j <= i}) <= Cardinality(S) /\ Cardinality({j \in S : j <= i}) \in Nat
  BY FS_Subset, FS_CardinalityType
<1>2. Cardinality(S) \in Nat
  BY FS_CardinalityType
<1> QED BY <1>1, <1>2 DEF Limit

\* Up to a rank there are as many hits as F for each source whose best is among them.
LEMMA BestsCover ==
  ASSUME NEW H \in SUBSET Nat, IsFiniteSet(H), NEW F \in Nat, AtMost(H, F), NEW i \in H
  PROVE  Cardinality({j \in H : j <= i}) <= Cardinality({j \in BestPerSource(H) : j <= i}) * F
<1> DEFINE C == {j \in BestPerSource(H) : j <= i}
           S == {j \in H : j <= i}
           cover == [c \in C |-> Cell(H, near[c])]
<1>1. H \subseteq Nat /\ IsFiniteSet(H)
  OBVIOUS
<1>2. C \subseteq H /\ IsFiniteSet(C) /\ IsFiniteSet(S)
  BY <1>1, FS_Subset DEF BestPerSource
<1>3. \A c \in C : IsFiniteSet(cover[c]) /\ Cardinality(cover[c]) <= F
  BY FewOfAny
<1>4. S \subseteq Covered(cover, C)
  <2> SUFFICES ASSUME NEW j \in S PROVE \E c \in C : j \in Cell(H, near[c])
    BY DEF Covered
  <2> DEFINE T == {x \in H : near[x] = near[j]}
  <2>1. PICK c \in T : \A x \in T : c <= x
    <3>1. T \in SUBSET Nat /\ j \in T
      BY <1>1
    <3> QED BY <3>1, LeastRank
  <2>2. c <= j /\ j <= i /\ c \in H /\ near[c] = near[j]
    BY <2>1
  <2>3. c <= i
    BY <1>1, <2>2
  <2>4. c \in BestPerSource(H)
    BY <2>1, <2>2 DEF BestPerSource
  <2>5. j \in Cell(H, near[c])
    BY <1>1, <2>2 DEF Cell
  <2> QED BY <2>3, <2>4, <2>5
<1> HIDE DEF C, S, cover
<1>5. IsFiniteSet(Covered(cover, C)) /\ Cardinality(Covered(cover, C)) <= Cardinality(C) * F
  BY <1>2, <1>3, CoverBound
<1>6. Cardinality(S) <= Cardinality(Covered(cover, C))
  BY <1>4, <1>5, FS_Subset
<1>7. Cardinality(S) \in Nat /\ Cardinality(Covered(cover, C)) \in Nat /\ Cardinality(C) \in Nat
  BY <1>2, <1>5, FS_CardinalityType
<1>8. Cardinality(C) * F \in Nat
  BY <1>7
<1>9. Cardinality(S) <= Cardinality(C) * F
  BY <1>5, <1>6, <1>7, <1>8
<1> QED BY <1>9 DEF C, S

\* The window of PostgreSQL's scan has the nearest chunk of each of the k nearest sources.
LEMMA WindowIsWide ==
  ASSUME SearchInv, AtMost(PostgresHits, ScanFactor) \/ Cardinality(found) <= ScanFloor
  PROVE  PostgresKeepBest(topK) = Limit(BestPerSource(PostgresHits), topK)
<1> DEFINE Hits == PostgresHits
           w == ScanWindow(topK)
           W == Limit(Hits, w)
           B == BestPerSource(Hits)
<1>1. ScanFactor \in Nat /\ ScanFloor \in Nat /\ topK \in Nat /\ topK * ScanFactor \in Nat
  BY SearchAssumption DEF SearchInv
<1>2. w \in Nat /\ topK * ScanFactor <= w /\ ScanFloor <= w
  <2> DEFINE a == topK * ScanFactor
             Greatest(x) == x \in {a, ScanFloor} /\ \A y \in {a, ScanFloor} : x >= y
  <2>1. a \in Nat
    BY <1>1
  <2> HIDE DEF a
  <2>2. Greatest(a) \/ Greatest(ScanFloor)
    BY <1>1, <2>1
  <2>3. w = CHOOSE x \in {a, ScanFloor} : \A y \in {a, ScanFloor} : x >= y
    BY DEF ScanWindow, Max, a
  <2>4. Greatest(w)
    BY <2>2, <2>3
  <2>5. w \in Nat /\ a <= w /\ ScanFloor <= w
    BY <1>1, <2>1, <2>4
  <2> QED BY <2>5 DEF a
<1>3. Hits \subseteq Nat /\ IsFiniteSet(Hits) /\ B \subseteq Hits
  BY FS_Subset DEF SearchInv, PostgresHits, Wanted, BestPerSource
<1>4. \A i \in W, j \in Hits : j <= i => j \in W
  <2> SUFFICES ASSUME NEW i \in W, NEW j \in Hits, j <= i
               PROVE  Cardinality({x \in Hits : x <= j}) <= w
    BY DEF Limit
  <2>1. i \in Hits /\ Cardinality({x \in Hits : x <= i}) <= w
    BY DEF Limit
  <2>2. {x \in Hits : x <= j} \subseteq {x \in Hits : x <= i}
    <3>1. i \in Nat /\ j \in Nat
      BY <1>3, <2>1
    <3>2. \A x \in Nat : x <= j => x <= i
      BY <3>1
    <3> QED BY <1>3, <3>2
  <2>3. IsFiniteSet({x \in Hits : x <= i})
    BY <1>3, FS_Subset
  <2>4. /\ Cardinality({x \in Hits : x <= j}) <= Cardinality({x \in Hits : x <= i})
        /\ Cardinality({x \in Hits : x <= j}) \in Nat /\ Cardinality({x \in Hits : x <= i}) \in Nat
    BY <2>2, <2>3, FS_Subset, FS_CardinalityType
  <2> QED BY <1>2, <2>1, <2>4
<1>5. BestPerSource(W) = B \cap W
  <2>1. W \subseteq Hits
    BY DEF Limit
  <2>2. ASSUME NEW i \in BestPerSource(W), NEW j \in Hits, near[j] = near[i] PROVE i <= j
    <3>1. i \in W /\ i \in Nat /\ j \in Nat
      BY <1>3, <2>1, <2>2 DEF BestPerSource
    <3>2. CASE j \in W
      BY <2>2, <3>2 DEF BestPerSource
    <3>3. CASE j \notin W
      BY <1>4, <3>1, <3>3
    <3> QED BY <3>2, <3>3
  <2> QED BY <2>1, <2>2 DEF BestPerSource
<1>6. \A i \in W : {j \in B \cap W : j <= i} = {j \in B : j <= i}
  BY <1>3, <1>4
<1>7. ASSUME AtMost(Hits, ScanFactor), NEW i \in B, Cardinality({j \in B : j <= i}) <= topK PROVE i \in W
  <2> DEFINE n == Cardinality({j \in B : j <= i})
             m == Cardinality({j \in Hits : j <= i})
  <2>1. m <= n * ScanFactor
    BY <1>1, <1>3, <1>7, BestsCover
  <2>2. IsFiniteSet({j \in B : j <= i}) /\ IsFiniteSet({j \in Hits : j <= i})
    BY <1>3, FS_Subset
  <2>3. n \in Nat /\ m \in Nat
    BY <2>2, FS_CardinalityType
  <2>4. n <= topK
    BY <1>7
  <2> HIDE DEF n, m
  <2>5. n * ScanFactor <= topK * ScanFactor /\ n * ScanFactor \in Nat
    BY <1>1, <2>3, <2>4
  <2>6. m <= w
    BY <1>1, <1>2, <2>1, <2>3, <2>5
  <2> QED BY <1>3, <2>6 DEF Limit, m
<1>8. ASSUME Cardinality(found) <= ScanFloor PROVE W = Hits
  <2>1. found \in SUBSET DOMAIN near /\ Hits \subseteq found /\ IsFiniteSet(found)
    BY FS_Subset DEF SearchInv, PostgresHits, Wanted
  <2>2. Cardinality(Hits) <= Cardinality(found) /\ Cardinality(Hits) \in Nat /\ Cardinality(found) \in Nat
    BY <1>3, <2>1, FS_Subset, FS_CardinalityType
  <2>3. Cardinality(Hits) <= w
    BY <1>1, <1>2, <1>8, <2>2
  <2> QED BY <1>2, <1>3, <2>3, LimitOfAll
<1>9. Limit(B \cap W, topK) = Limit(B, topK)
  <2>1. CASE AtMost(Hits, ScanFactor)
    BY <1>6, <1>7, <2>1 DEF Limit
  <2>2. CASE Cardinality(found) <= ScanFloor
    <3>1. B \cap W = B
      BY <1>3, <1>8, <2>2
    <3> QED BY <3>1
  <2> QED BY <2>1, <2>2
<1> QED BY <1>5, <1>9 DEF PostgresKeepBest, PostgresNearest

\* The derived matrix searches for PerSource chunks per wanted source.
LEMMA MatrixIsExact ==
  ASSUME SearchInv, AtMost(SqliteHits, PerSource), NEW s \in wanted
  PROVE  DefaultCell(s) = PostgresCell(s) \cap mine
<1> DEFINE cover == [t \in wanted |-> Cell(SqliteHits, t)]
<1>1. PerSource \in Nat /\ IsFiniteSet(wanted) /\ Cardinality(wanted) \in Nat
  BY SearchAssumption, FS_CardinalityType DEF SearchInv
<1>2. IsFiniteSet(SqliteHits)
  BY FS_Subset DEF SearchInv, SqliteHits, Wanted
<1>3. \A t \in wanted : IsFiniteSet(cover[t]) /\ Cardinality(cover[t]) <= PerSource
  BY <1>1, <1>2, FewOfAny
<1>4. SqliteHits = Covered(cover, wanted)
  BY DEF SqliteHits, Wanted, Covered, Cell
<1>5. Cardinality(SqliteHits) <= Cardinality(wanted) * PerSource
  <2> HIDE DEF cover
  <2> QED BY <1>1, <1>3, <1>4, CoverBound
<1>6. Cardinality(wanted) * PerSource \in Nat
  BY <1>1
<1>7. SqliteNearest(Cardinality(wanted) * PerSource) = SqliteHits
  BY <1>2, <1>5, <1>6, LimitOfAll DEF SqliteNearest
<1> QED BY <1>7 DEF DefaultCell, PostgresCell, SqliteHits, Wanted, SearchInv

\* PostgreSQL's window loses nothing its scan has come across while no source has more
\* chunks than it allows for, or an index scan finds no more than the smallest window;
\* of the same chunks SQLite's search returns the same; and the derived matrix is the
\* exact one while no source has more than PerSource (_build_batch_query_cte,
\* compute_similarity_matrix): for every number of chunks, sources and results asked
\* for, every window and whatever the index misses.
THEOREM SearchComplete == SearchSpec => []SearchIsComplete
<1>1. SearchInit => SearchInv
  BY FS_EmptySet DEF SearchInit, SearchInv
<1>2. SearchInv /\ [Search]_searchVars => SearchInv'
  <2> SUFFICES ASSUME SearchInv, [Search]_searchVars PROVE SearchInv'
    OBVIOUS
  <2>1. CASE Search
    <3>1. PICK shape \in Shapes, block \in BOOLEAN :
            /\ near' = [i \in 1 .. shape[1] * shape[2] |->
                          IF block THEN (i - 1) \div shape[2] ELSE (i - 1) % shape[1]]
            /\ mine' \in {1 .. shape[1] * shape[2], {i \in 1 .. shape[1] * shape[2] : i % 3 > 0}}
            /\ found' \in {1 .. shape[1] * shape[2]} \cup {Limit((1 .. shape[1] * shape[2]) \ missed, EfSearch) : missed \in Misses}
            /\ topK' = shape[3]
            /\ wanted' \in {{}, 0 .. shape[1] - 1, {shape[1] - 1}}
      BY <2>1 DEF Search
    <3>2. shape[1] \in Nat /\ shape[2] \in Nat /\ shape[3] \in Nat
      BY SearchAssumption
    <3>3. shape[1] * shape[2] \in Int
      BY <3>2
    <3>4. DOMAIN near' = 1 .. shape[1] * shape[2]
      BY <3>1
    <3>5. IsFiniteSet(DOMAIN near') /\ DOMAIN near' \subseteq Nat
      BY <3>3, <3>4, FS_Interval
    <3>6. IsFiniteSet(wanted')
      <4>1. shape[1] - 1 \in Int
        BY <3>2
      <4>2. IsFiniteSet({}) /\ IsFiniteSet(0 .. shape[1] - 1)
        BY <4>1, FS_EmptySet, FS_Interval
      <4>3. IsFiniteSet({shape[1] - 1})
        BY FS_Singleton
      <4> QED BY <3>1, <4>2, <4>3
    <3>7. mine' \subseteq DOMAIN near'
      BY <3>1, <3>4
    <3>8. found' \subseteq DOMAIN near'
      BY <3>1, <3>4 DEF Limit
    <3> QED BY <3>1, <3>2, <3>5, <3>6, <3>7, <3>8 DEF SearchInv
  <2>2. CASE UNCHANGED searchVars
    BY <2>2 DEF SearchInv, searchVars
  <2> QED BY <2>1, <2>2
<1>3. SearchInv => SearchIsComplete
  <2> SUFFICES ASSUME SearchInv PROVE SearchIsComplete
    OBVIOUS
  <2>1. found = mine => PostgresHits = SqliteHits
    BY DEF PostgresHits, SqliteHits
  <2> QED BY <2>1, WindowIsWide, MatrixIsExact DEF SearchIsComplete, SqliteKeepBest
<1> QED BY <1>1, <1>2, <1>3, PTL DEF SearchSpec
=============================================================================
