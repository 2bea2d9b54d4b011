------------------------------ MODULE CsvIndex ------------------------------
(***************************************************************************)
(* The import of a CSV file into a collection (kavalai/tools/index_csv.py) *)
(* over index_batch and the embedding clients (llm_clients/embeddings.py). *)
(* The file is read in batches; a batch deletes what its sources had, if   *)
(* --replace was given, has its texts embedded and is inserted, each in a  *)
(* transaction of its own.  An import may stop between them and be started *)
(* again.  A text is named by its CSV row, a vector by the text it is of.  *)
(***************************************************************************)
EXTENDS Integers, Sequences, FiniteSets

CONSTANTS Documents,    \* CSV files: rows [source, blank]
          Providers,    \* providers of make_embedding_client
          BatchSize,    \* batch_size
          MaxAttempts   \* bound: times the import is started

ASSUME CsvAssumption ==
  /\ \A d \in Documents : Len(d) \in Nat /\ DOMAIN d = 1 .. Len(d)
  /\ BatchSize \in Nat \ {0} /\ MaxAttempts \in Nat

VARIABLES
  csv,          \* the file
  options,      \* --mode, --replace, and the provider of --model
  nextRow,      \* rows_gen
  texts,        \* rows whose content the batch indexes
  stage,        \* the await the import is at
  collection,   \* stored rows
  attempt

csvVars == <<csv, options, nextRow, texts, stage, collection, attempt>>

\* What earlier imports left, under any source.
Earlier(s) == [row |-> 0, source |-> s, vector |-> 0, by |-> 0]

CsvInit ==
  /\ csv \in Documents
  /\ options \in [mode : {"full", "lines"}, replace : BOOLEAN, provider : Providers]
  /\ nextRow = 1 /\ texts = <<>> /\ stage = "read"
  /\ collection = {Earlier(csv[i].source) : i \in DOMAIN csv}
  /\ attempt = 1

\* A cell is one text; in mode "lines", a blank one is none.
Splits(i) == options.mode = "full" \/ ~csv[i].blank
BatchRows == {i \in DOMAIN csv : nextRow <= i /\ i < nextRow + BatchSize}

\* The rows of S in the order of the file.
InOrder(S) ==
  {list \in [1 .. Cardinality(S) -> S] :
     S = {list[n] : n \in DOMAIN list} /\ \A m, n \in DOMAIN list : m < n => list[m] < list[n]}

ReadBatch ==
  /\ stage = "read"
  /\ nextRow <= Len(csv)
  /\ \E list \in InOrder({i \in BatchRows : Splits(i)}) : texts' = list
  /\ nextRow' = nextRow + BatchSize
  /\ stage' = IF texts' = <<>> THEN "read" ELSE IF options.replace THEN "delete" ELSE "index"
  /\ UNCHANGED <<csv, options, collection, attempt>>

\* Mutant: the sources are replaced once, when the import begins.
SourcesOfFirstBatch == IF nextRow = 1 + BatchSize THEN {csv[texts[n]].source : n \in DOMAIN texts} ELSE {}

UniqueSources == {csv[texts[n]].source : n \in DOMAIN texts}

DeleteBySource ==
  /\ stage = "delete"
  /\ collection' = {r \in collection : r.source \notin UniqueSources}
  /\ stage' = "index"
  /\ UNCHANGED <<csv, options, nextRow, texts, attempt>>

\* One call for all texts: a vector for each, in order.
AllAtOnce == {texts}

\* A call per text: Ollama answers a blank one with an empty list, so the vector of a
\* text stands as far down as texts that are not blank come before it.
TextByText ==
  LET answered == {n \in DOMAIN texts : ~csv[texts[n]].blank}
  IN  {list \in [1 .. Cardinality(answered) -> {texts[n] : n \in answered}] :
         \A n \in answered : list[Cardinality({m \in answered : m <= n})] = texts[n]}

Embeddings == IF options.provider = "ollama" THEN TextByText ELSE AllAtOnce

\* zip stops at the shorter list.
Chunks(vectors) ==
  {[row |-> texts[n], source |-> csv[texts[n]].source, vector |-> vectors[n], by |-> attempt] :
     n \in DOMAIN texts \cap DOMAIN vectors}

\* embeddings[0] of nothing is an IndexError.
IndexBatchOf ==
  /\ stage = "index"
  /\ \E vectors \in Embeddings :
       IF DOMAIN vectors = {} THEN stage' = "stopped" /\ UNCHANGED collection
       ELSE stage' = "read" /\ collection' = collection \cup Chunks(vectors)
  /\ UNCHANGED <<csv, options, nextRow, texts, attempt>>

ImportDone ==
  /\ stage = "read" /\ nextRow > Len(csv)
  /\ stage' = "done"
  /\ UNCHANGED <<csv, options, nextRow, texts, collection, attempt>>

\* A database or a provider that fails, or a process that stops: nothing catches it.
ImportFails ==
  /\ stage \in {"delete", "index"}
  /\ stage' = "stopped"
  /\ UNCHANGED <<csv, options, nextRow, texts, collection, attempt>>

StartAgain ==
  /\ stage \in {"stopped", "done"} /\ attempt < MaxAttempts
  /\ attempt' = attempt + 1
  /\ nextRow' = 1 /\ texts' = <<>> /\ stage' = "read"
  /\ UNCHANGED <<csv, options, collection>>

CsvNext == ReadBatch \/ DeleteBySource \/ IndexBatchOf \/ ImportDone \/ ImportFails \/ StartAgain

CsvSpec == CsvInit /\ [][CsvNext]_csvVars

\* The first row of the batch of a row.
FirstOf(i) == 1 + BatchSize * ((i - 1) \div BatchSize)

\* The batch of a row lost a vector: a blank text went to Ollama.
Misaligned(i) ==
  options.provider = "ollama" /\ \E j \in DOMAIN csv : FirstOf(j) = FirstOf(i) /\ Splits(j) /\ csv[j].blank

ChunksOf(s) == {i \in DOMAIN csv : csv[i].source = s /\ Splits(i)}

\* A stored text has its own vector; and an import with --replace that runs to its
\* end leaves of each source what the file has, once, whatever earlier imports
\* stored or left unfinished.  Two cases are excepted: a batch with a blank text
\* for Ollama, and a source whose rows are in several batches, or in none.
ImportReplaces ==
  /\ \A r \in collection : r.row # 0 => r.vector = r.row \/ Misaligned(r.row)
  /\ stage = "done" /\ options.replace =>
       \A i \in DOMAIN csv :
         LET s == csv[i].source
             batches == {FirstOf(j) : j \in ChunksOf(s)}
         IN  (\E b \in batches : batches = {b} /\ ~Misaligned(b)) =>
               {r \in collection : r.source = s} =
                 {[row |-> j, source |-> s, vector |-> j, by |-> attempt] : j \in ChunksOf(s)}

\* "Delete matching rows (collection_name, source_id) before updating"
\* (tools/index_csv.py:196): what an import with --replace wrote is not what it
\* deletes.  A source in a second batch loses what the first batch indexed.
ReplaceKeepsImport ==
  stage = "done" /\ options.replace =>
    \A i \in DOMAIN csv : Splits(i) => \E r \in collection : r.row = i /\ r.by = attempt
=============================================================================
