------------------------------ MODULE RagSearch ------------------------------
(***************************************************************************)
(* What a similarity search returns, as a function of the stored chunks:   *)
(* the SQL of PostgresRagService and of SqliteRagService, and the          *)
(* similarity matrix that BaseRagService derives from a search.  A chunk   *)
(* is its rank by distance to the query; `near[i]` is the source of the    *)
(* i-th nearest.  A similarity is represented by the ranks it stems from,  *)
(* and a result, which is ordered by distance, by the set of its ranks.    *)
(*                                                                         *)
(* SQLite scans every chunk.  PostgreSQL has an HNSW index for the ORDER   *)
(* BY of the search: when the planner takes it, the scan comes across some *)
(* EfSearch chunks, nearly the nearest, and only then filters them.        *)
(***************************************************************************)
EXTENDS Integers, Sequences, FiniteSetsExt

CONSTANTS ScanFactor,      \* scan_k = max(top_k * ScanFactor, ScanFloor)
          ScanFloor,
          PerSource,       \* similarity_matrix_candidates_per_source
          EfSearch,        \* hnsw.ef_search, which the code leaves at its default
          Misses,          \* inputs: ranks the index scan may fail to come across
          Shapes           \* inputs: <<number of sources, chunks of each, top_k>>

ASSUME SearchAssumption ==
  /\ ScanFactor \in Nat \ {0} /\ ScanFloor \in Nat /\ PerSource \in Nat \ {0} /\ EfSearch \in Nat
  /\ Shapes \subseteq Nat \X Nat \X Nat

VARIABLES
  near,
  mine,           \* chunks stored under the name of the service's own model
  found,          \* chunks that PostgreSQL's scan comes across
  topK, wanted    \* the arguments of the call

searchVars == <<near, mine, found, topK, wanted>>

\* LIMIT: the n nearest of some chunks; every result is ordered by distance.
Limit(ranks, n) == {i \in ranks : Cardinality({j \in ranks : j <= i}) <= n}

\* WHERE source_id = ANY(:source_ids): no filter for an empty list.
Wanted(ranks) == {i \in ranks : wanted = {} \/ near[i] \in wanted}

\* WHERE of both backends: a collection of PostgreSQL takes the chunks of any model.
PostgresHits == Wanted(found)
SqliteHits == Wanted(mine)

\* query_batch without keep_best.
PostgresNearest(k) == Limit(PostgresHits, k)
SqliteNearest(k) == Limit(SqliteHits, k)

\* DISTINCT ON (source_id), respectively MIN(distance) ... GROUP BY source_id.
BestPerSource(ranks) == {i \in ranks : \A j \in ranks : near[j] = near[i] => i <= j}

\* Mutant: min for max.
NarrowWindow(k) == Min({k * ScanFactor, ScanFloor})

ScanWindow(k) == Max({k * ScanFactor, ScanFloor})

PostgresKeepBest(k) == Limit(BestPerSource(PostgresNearest(ScanWindow(k))), k)

SqliteKeepBest(k) == Limit(BestPerSource(SqliteHits), k)

\* A cell of the matrix: the ranks whose minimum or average it holds; {} is 0.0.
\* PostgreSQL aggregates without an ORDER BY, and so without the index.
PostgresCell(s) == {i \in DOMAIN near : near[i] = s}
DefaultCell(s) == {i \in SqliteNearest(Cardinality(wanted) * PerSource) : near[i] = s}

SearchInit == near = <<>> /\ mine = {} /\ found = {} /\ topK = 1 /\ wanted = {}

\* Source s has the chunks s, s + n, ... (spread out) or a block of its own; the
\* service stored all of them, or another model's are between them.
Search ==
  /\ near = <<>>
  /\ \E shape \in Shapes, block \in BOOLEAN :
       LET n == shape[1]
           m == shape[2]
           ranks == 1 .. n * m
       IN  /\ near' = [i \in ranks |-> IF block THEN (i - 1) \div m ELSE (i - 1) % n]
           /\ mine' \in {ranks, {i \in ranks : i % 3 > 0}}
           /\ found' \in {ranks} \cup {Limit(ranks \ missed, EfSearch) : missed \in Misses}
           /\ topK' = shape[3]
           /\ wanted' \in {{}, 0 .. n - 1, {n - 1}}

SearchSpec == SearchInit /\ [][Search]_searchVars

\* No source has more than F of some chunks.
AtMost(ranks, F) == \A s \in {near[i] : i \in ranks} : Cardinality({i \in ranks : near[i] = s}) <= F

\* The window loses nothing that PostgreSQL's scan has come across: while no source has
\* more chunks than the window allows for each of top_k sources, or the scan comes
\* across no more than the smallest window, the nearest found chunk of each of the
\* nearest sources is returned, which is what the other backend's scan without a window
\* returns of the same chunks (_build_batch_query_cte, _build_scan_sql).  What the
\* index does not come across is not promised.  And while no source has more than
\* PerSource chunks of the service's model, the derived matrix aggregates what the
\* exact one does of them (compute_similarity_matrix).
SearchIsComplete ==
  /\ AtMost(PostgresHits, ScanFactor) \/ Cardinality(found) <= ScanFloor =>
       /\ PostgresKeepBest(topK) = Limit(BestPerSource(PostgresHits), topK)
       /\ found = mine => PostgresKeepBest(topK) = SqliteKeepBest(topK)
  /\ AtMost(SqliteHits, PerSource) => \A s \in wanted : DefaultCell(s) = PostgresCell(s) \cap mine
==============================================================================
