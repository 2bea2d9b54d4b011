----------------------------- MODULE MCRetrieval -----------------------------
(***************************************************************************)
(* The retrieval components share nothing: `part` says which of them a     *)
(* behaviour of this run exercises, the others stay as they were.          *)
(***************************************************************************)
EXTENDS RagCollections, RagSqlite, RagSearch, TLC

CONSTANTS p1, p2, c1, c3

VARIABLE part

\* Two processes, configured with different embedding models.
RagHost == [c \in Clients |-> IF c = c3 THEN p2 ELSE p1]
RagModelDim == [s \in Services |-> IF s = p1 THEN 2 ELSE 3]

\* Two connections to one index file, two coroutines on the first.
RagFileOf == [r \in Readers |-> IF r = "r3" THEN "f2" ELSE "f1"]

\* Few and many sources, at and above the limits of the window.
RagShapes == {2, 10, 12} \X {1, 9, 10, 11} \X {1, 2, 10, 11} \cup {2} \X {99, 100, 101} \X {1, 2}

\* The index comes across the nearest chunks, or misses the best one or every other.
RagMisses == {{}, {1}, {2 * i : i \in 1 .. 50}}

RetrievalInit == part \in {"collections", "file", "search"} /\ Init /\ SqliteInit /\ SearchInit

RetrievalNext ==
  \/ part = "collections" /\ Next /\ UNCHANGED <<part, sqliteVars, searchVars>>
  \/ part = "file" /\ SqliteNext /\ UNCHANGED <<part, vars, searchVars>>
  \/ part = "search" /\ Search /\ UNCHANGED <<part, vars, sqliteVars>>

RetrievalSpec == RetrievalInit /\ [][RetrievalNext]_<<part, vars, sqliteVars, searchVars>>
==============================================================================
