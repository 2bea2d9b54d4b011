----------------------------- MODULE Projection -----------------------------
(***************************************************************************)
(* The two-dimensional view of a collection: train_pca                     *)
(* (backoffice/embedding_projector.py) keeps a model and sample points in  *)
(* project_cache, a RAG query of backoffice/server.py places its results   *)
(* with them.  Trainings and queries of one project and collection overlap;*)
(* each statement sees what is committed by then, an UPDATE holds its row  *)
(* until the transaction ends.  A row is named by the training that        *)
(* inserted it, a value by the training it comes from.                     *)
(***************************************************************************)
EXTENDS Naturals, FiniteSets

CONSTANTS Trainings, Queries,
          Empty       \* no row, no value

ASSUME ProjectionAssumption == Empty \notin Trainings

VARIABLES
  models,      \* the rows pca_model_<collection>: row -> value
  samples,     \* the rows pca_sample_train_data_<collection>
  projectGone, \* the project was deleted
  train,       \* per training: its await
  plan,        \* per training: the model and sample rows it found or adds
  view,        \* per query: its await and the two values it was answered with
  twoFirst,    \* history: a training committed rows another had not seen
  since        \* history, per query: trainings committed after it read the model

projVars == <<models, samples, projectGone, train, plan, view, twoFirst, since>>

RowsOf(table) == {t \in Trainings : table[t] # Empty}
ToTraining(t, label) == train' = [train EXCEPT ![t] = label]

ProjInit ==
  /\ models = [t \in Trainings |-> Empty] /\ samples = [t \in Trainings |-> Empty]
  /\ projectGone = FALSE
  /\ train = [t \in Trainings |-> "idle"]
  /\ plan = [t \in Trainings |-> [model |-> Empty, sample |-> Empty]]
  /\ view = [q \in Queries |-> [at |-> "idle", model |-> Empty, sample |-> Empty]]
  /\ twoFirst = FALSE
  /\ since = [q \in Queries |-> {}]

\* The project is found; the export and the fit are awaits of their own.  The task
\* goes on when the client that watches it has gone.
TrainPca(t) ==
  /\ train[t] = "idle"
  /\ ToTraining(t, IF projectGone THEN "failed" ELSE "fit")
  /\ UNCHANGED <<models, samples, projectGone, plan, view, twoFirst, since>>

\* download_rag_index and compute_pca: a collection without entries raises.
ComputePca(t) ==
  /\ train[t] = "fit"
  /\ \E label \in {"model", "failed"} : ToTraining(t, label)
  /\ UNCHANGED <<models, samples, projectGone, plan, view, twoFirst, since>>

\* scalar_one_or_none: a row, or the training adds one; two rows raise.
OneOrNone(table, t) == IF RowsOf(table) = {} THEN t ELSE CHOOSE r \in RowsOf(table) : TRUE

\* A row that another open transaction has updated cannot be updated.
Free(t) == \A x \in Trainings \ {t} : train[x] \in {"sample", "commit"} => plan[x].model # plan[t].model

SelectModel(t) ==
  /\ train[t] = "model"
  /\ IF Cardinality(RowsOf(models)) > 1
     THEN ToTraining(t, "failed") /\ UNCHANGED plan
     ELSE plan' = [plan EXCEPT ![t].model = OneOrNone(models, t)] /\ ToTraining(t, "flush")
  /\ UNCHANGED <<models, samples, projectGone, view, twoFirst, since>>

\* Autoflush: the model's row is inserted or updated before the samples are read.
FlushModel(t) ==
  /\ train[t] = "flush"
  /\ Free(t)
  /\ ToTraining(t, IF projectGone THEN "failed" ELSE "sample")
  /\ UNCHANGED <<models, samples, projectGone, plan, view, twoFirst, since>>

SelectSample(t) ==
  /\ train[t] = "sample"
  /\ IF Cardinality(RowsOf(samples)) > 1
     THEN ToTraining(t, "failed") /\ UNCHANGED plan
     ELSE plan' = [plan EXCEPT ![t].sample = OneOrNone(samples, t)] /\ ToTraining(t, "commit")
  /\ UNCHANGED <<models, samples, projectGone, view, twoFirst, since>>

\* Mutant: sample points that are there are kept.
KeepSamples(t, row) == IF samples[row] = Empty THEN t ELSE samples[row]

NewSamples(t, row) == t

CommitBoth(t) ==
  /\ train[t] = "commit"
  /\ IF projectGone
     THEN ToTraining(t, "failed") /\ UNCHANGED <<models, samples, twoFirst, since>>
     ELSE LET m == plan[t].model
              s == plan[t].sample
          IN  /\ models' = [models EXCEPT ![m] = t]
              /\ samples' = [samples EXCEPT ![s] = NewSamples(t, s)]
              /\ twoFirst' = (twoFirst \/ RowsOf(models) \ {m} # {})
              /\ since' = [q \in Queries |-> IF view[q].at = "samples" THEN since[q] \cup {t} ELSE since[q]]
              /\ ToTraining(t, "done")
  /\ UNCHANGED <<projectGone, plan, view>>

\* A failed statement or a stopped process rolls back.
TrainingFails(t) ==
  /\ train[t] \in {"model", "flush", "sample", "commit"}
  /\ ToTraining(t, "failed")
  /\ UNCHANGED <<models, samples, projectGone, plan, view, twoFirst, since>>

\* ON DELETE CASCADE, once no training has a row of the project's.
DropProject ==
  /\ ~projectGone
  /\ \A t \in Trainings : train[t] \notin {"sample", "commit"}
  /\ projectGone' = TRUE
  /\ models' = [t \in Trainings |-> Empty] /\ samples' = [t \in Trainings |-> Empty]
  /\ UNCHANGED <<train, plan, view, twoFirst, since>>

Only(table) == IF RowsOf(table) = {} THEN Empty ELSE table[CHOOSE r \in RowsOf(table) : TRUE]

\* The search is done; two models are an error of the whole query, none is no view.
QueryModel(q) ==
  /\ view[q].at = "idle"
  /\ view' = [view EXCEPT ![q] =
       [at |-> CASE Cardinality(RowsOf(models)) > 1 -> "failed"
                 [] Cardinality(RowsOf(models)) = 0 -> "noview"
                 [] OTHER -> "samples",
        model |-> IF Cardinality(RowsOf(models)) = 1 THEN Only(models) ELSE Empty,
        sample |-> Empty]]
  /\ since' = [since EXCEPT ![q] = {}]
  /\ UNCHANGED <<models, samples, projectGone, train, plan, twoFirst>>

\* Between the two the query is embedded and the vectors of its results are read;
\* an exception here is caught.
QuerySamples(q) ==
  /\ view[q].at = "samples"
  /\ \/ /\ Cardinality(RowsOf(samples)) <= 1
        /\ view' = [view EXCEPT ![q].at = "answered", ![q].sample = Only(samples)]
     \/ view' = [view EXCEPT ![q].at = "noview"]
  /\ UNCHANGED <<models, samples, projectGone, train, plan, twoFirst, since>>

ProjNext ==
  \/ \E t \in Trainings :
       TrainPca(t) \/ ComputePca(t) \/ SelectModel(t) \/ FlushModel(t) \/ SelectSample(t)
         \/ CommitBoth(t) \/ TrainingFails(t)
  \/ DropProject
  \/ \E q \in Queries : QueryModel(q) \/ QuerySamples(q)

ProjSpec == ProjInit /\ [][ProjNext]_projVars

\* The cached model and sample points are a pair: one row each, of one training,
\* however trainings overlap, fail or are repeated; so a query places its results
\* and the samples with one model, unless a training committed while it was under
\* way.  Two first trainings that overlap are excepted: each inserts its rows, and
\* from then on every training and every query of the collection fails.
ProjectionIsOfOneTraining ==
  /\ ~twoFirst =>
       \A r \in RowsOf(models) : \A s \in RowsOf(samples) : models[r] = samples[s] /\ RowsOf(models) = {r}
  /\ (RowsOf(models) = {}) = (RowsOf(samples) = {})
  /\ \A q \in Queries :
       view[q].at = "answered" /\ view[q].sample # view[q].model =>
         twoFirst \/ since[q] # {} \/ projectGone
=============================================================================
