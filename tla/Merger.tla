------------------------------- MODULE Merger -------------------------------
(***************************************************************************)
(* core/merger.{h,cc} in local mode (no master_component_service_): the    *)
(* topic models, the increments of the current iteration and the scores,   *)
(* with the thread that owns the increments.                               *)
(*                                                                         *)
(* A topic model is abstracted to n_wt: how often each batch is counted in *)
(* it.  `incarnation' tells a model from one disposed of earlier under the *)
(* same name (a different topics_count, different tokens).                 *)
(***************************************************************************)
EXTENDS DataLoader

VARIABLES topic_model,             \* topic_model_: latest models
          topic_model_inc,         \* topic_model_inc_: merger thread only
          scores,                  \* scores_merger_: batches appended
          incarnations,            \* ghost: models created under a name so far
          merger_queue,            \* queue of ModelIncrement
          internal_task_queue,     \* queue of MergerTask
          sync_event,              \* the caller's sync_event is signalled
          merger,                  \* Merger::ThreadFunction
          merger_stopping          \* Merger::is_stopping

mergerVars == <<topic_model, topic_model_inc, scores, incarnations, merger_queue,
                internal_task_queue, sync_event, merger, merger_stopping>>

Counters == [Batch -> Nat]

\* What a thread step that only moves on leaves alone.
mergerModels == <<topic_model, topic_model_inc, incarnations>>
mergerQueues == <<merger_queue, internal_task_queue>>

NoCounts == [b \in Batch |-> 0]

TopicModel == [incarnation : Nat, n_wt : Counters]

ModelIncrement == [batch : Batch, model : Model, incarnation : Nat]

ASSUME NilRecordAssumption == Nil \notin TopicModel /\ Nil \notin ModelIncrement

TaskType == {"kDisposeModel", "kForcePullTopicModel",
             "kForcePushTopicModelIncrement", "kForceResetScores"}

MergerTask == [task_type : TaskType, model : Model \cup {Nil}]

MergerState == [pc : {"top", "tasks", "queue", "merge", "done", "cache", "pull", "stopped"},
                increment : ModelIncrement \cup {Nil},
                todo : SUBSET Model]

MergerTypeOK ==
  /\ topic_model \in [Model -> TopicModel \cup {Nil}]
  /\ topic_model_inc \in [Model -> TopicModel \cup {Nil}]
  /\ scores \in [Model -> Counters]
  /\ incarnations \in [Model -> Nat]
  /\ merger_queue \in Seq(ModelIncrement)
  /\ internal_task_queue \in Seq(MergerTask)
  /\ sync_event \in BOOLEAN
  /\ merger \in MergerState
  /\ merger_stopping \in BOOLEAN

NewModel(k) == [incarnation |-> k, n_wt |-> NoCounts]

MergerInit ==
  /\ topic_model = [m \in Model |-> IF m \in GetModelNames THEN NewModel(0) ELSE Nil]
  /\ topic_model_inc = [m \in Model |-> Nil]
  /\ scores = [m \in Model |-> NoCounts]
  /\ incarnations = [m \in Model |-> 0]
  /\ merger_queue = <<>>
  /\ internal_task_queue = <<>>
  /\ sync_event = FALSE
  /\ merger = [pc |-> "top", increment |-> Nil, todo |-> {}]
  /\ merger_stopping = FALSE

MergerGoto(pc) == merger' = [merger EXCEPT !.pc = pc]

-----------------------------------------------------------------------------
(* Called by the API thread.                                               *)

\* CreateOrReconfigureModel; a change of topics_count is rejected earlier.
CreateTopicModel(m) ==
  IF topic_model[m] = Nil
  THEN /\ incarnations' = [incarnations EXCEPT ![m] = @ + 1]
       /\ topic_model' = [topic_model EXCEPT ![m] = NewModel(incarnations[m] + 1)]
  ELSE UNCHANGED <<topic_model, incarnations>>

\* DisposeModel: erase the model now, its increments when the thread gets there.
DisposeTopicModel(m) ==
  /\ topic_model' = [topic_model EXCEPT ![m] = Nil]
  /\ internal_task_queue' =
       Append(internal_task_queue, [task_type |-> "kDisposeModel", model |-> m])

\* ForceResetScores, ForcePullTopicModel, ForcePushTopicModelIncrement: push a
\* task with a fresh sync_event; the caller then waits for the event.
ForceTask(type) ==
  /\ internal_task_queue' =
       Append(internal_task_queue, [task_type |-> type, model |-> Nil])
  /\ sync_event' = FALSE

-----------------------------------------------------------------------------
(* ThreadFunction: internal tasks first, then one increment.               *)

MergerStop ==
  /\ merger.pc = "top"
  /\ merger_stopping
  /\ MergerGoto("stopped")
  /\ UNCHANGED <<mergerModels, scores, mergerQueues, sync_event, merger_stopping,
                 batchManagerVars, cache>>

MergerTop ==
  /\ merger.pc = "top"
  /\ ~merger_stopping
  /\ MergerGoto("tasks")
  /\ UNCHANGED <<mergerModels, scores, mergerQueues, sync_event, merger_stopping,
                 batchManagerVars, cache>>

\* ScoresMerger::ResetScores(ModelName()): of every model.
ResetScores == [m \in Model |-> NoCounts]

MergerTaskStep ==
  /\ merger.pc = "tasks"
  /\ internal_task_queue # <<>>
  /\ internal_task_queue' = Tail(internal_task_queue)
  /\ LET task == Head(internal_task_queue) IN
     \/ /\ task.task_type = "kDisposeModel"
        /\ topic_model_inc' = [topic_model_inc EXCEPT ![task.model] = Nil]
        /\ UNCHANGED <<scores, sync_event, merger>>
     \/ /\ task.task_type = "kForcePullTopicModel"
        /\ merger' = [merger EXCEPT !.pc = "pull",
                        !.todo = {m \in Model : topic_model[m] # Nil}]
        /\ UNCHANGED <<topic_model_inc, scores, sync_event>>
     \/ /\ task.task_type = "kForcePushTopicModelIncrement"   \* no-op in local mode
        /\ sync_event' = TRUE
        /\ UNCHANGED <<topic_model_inc, scores, merger>>
     \/ /\ task.task_type = "kForceResetScores"
        /\ scores' = ResetScores
        /\ sync_event' = TRUE
        /\ UNCHANGED <<topic_model_inc, merger>>
  /\ UNCHANGED <<topic_model, incarnations, merger_queue, merger_stopping,
                 batchManagerVars, cache>>

MergerNoTask ==
  /\ merger.pc = "tasks"
  /\ internal_task_queue = <<>>
  /\ MergerGoto("queue")
  /\ UNCHANGED <<mergerModels, scores, mergerQueues, sync_event, merger_stopping,
                 batchManagerVars, cache>>

MergerPop ==
  /\ merger.pc = "queue"
  /\ IF merger_queue = <<>>
     THEN MergerGoto("top") /\ UNCHANGED merger_queue
     ELSE /\ merger' = [merger EXCEPT !.pc = "merge", !.increment = Head(merger_queue)]
          /\ merger_queue' = Tail(merger_queue)
  /\ UNCHANGED <<mergerModels, scores, internal_task_queue, sync_event,
                 merger_stopping, batchManagerVars, cache>>

\* Mutant of ApplyDiff: assigns the counters instead of adding them.
AssignDiff(ttm, b) == [ttm EXCEPT !.n_wt[b] = 1]

\* ApplyDiff and ScoresMerger::Append, unless the model has been disposed of.
ApplyDiff(ttm, b) == [ttm EXCEPT !.n_wt[b] = @ + 1]

MergerMerge ==
  LET inc == merger.increment
      cur == topic_model[inc.model]
      old == IF topic_model_inc[inc.model] = Nil
             THEN NewModel(cur.incarnation)
             ELSE topic_model_inc[inc.model]
  IN
  /\ merger.pc = "merge"
  /\ IF cur = Nil
     THEN UNCHANGED <<topic_model_inc, scores>>
     ELSE /\ topic_model_inc' =
               [topic_model_inc EXCEPT ![inc.model] = ApplyDiff(old, inc.batch)]
          /\ scores' = [scores EXCEPT ![inc.model][inc.batch] = @ + 1]
  /\ MergerGoto("done")
  /\ UNCHANGED <<topic_model, incarnations, mergerQueues, sync_event,
                 merger_stopping, batchManagerVars, cache>>

\* notifiable_->Callback(model_increment), at the end of the scope whatever
\* happened to the increment.
MergerCallbackDone ==
  /\ merger.pc = "done"
  /\ CallbackDone(merger.increment.batch, merger.increment.model)
  /\ MergerGoto("cache")
  /\ UNCHANGED <<mergerModels, scores, mergerQueues, sync_event, merger_stopping,
                 cache>>

MergerCallbackCache ==
  /\ merger.pc = "cache"
  /\ CallbackCache(merger.increment.batch, merger.increment.model)
  /\ merger' = [merger EXCEPT !.pc = "tasks", !.increment = Nil]
  /\ UNCHANGED <<mergerModels, scores, mergerQueues, sync_event, merger_stopping,
                 batchManagerVars>>

\* PullTopicModel, one model at a time.  It RETURNS at the first model that is
\* gone or has no increments: the models after it in the map keep theirs.
PullStops(m) == topic_model[m] = Nil \/ topic_model_inc[m] = Nil

\* Mutants of MergerPull: keep the counters of earlier iterations (the "old
\* mode" of the code's comment); keep the increments after they are applied.
MergerPullAccumulate ==
  LET m == Min(merger.todo) IN
  /\ merger.pc = "pull"
  /\ merger.todo # {}
  /\ ~PullStops(m)
  /\ topic_model' = [topic_model EXCEPT ![m].n_wt =
       [b \in Batch |-> @[b] + topic_model_inc[m].n_wt[b]]]
  /\ topic_model_inc' = [topic_model_inc EXCEPT ![m] = Nil]
  /\ merger' = [merger EXCEPT !.todo = @ \ {m}]
  /\ UNCHANGED <<scores, incarnations, mergerQueues, sync_event, merger_stopping,
                 batchManagerVars, cache>>

MergerPullKeep ==
  LET m == Min(merger.todo) IN
  /\ merger.pc = "pull"
  /\ merger.todo # {}
  /\ ~PullStops(m)
  /\ topic_model' = [topic_model EXCEPT ![m].n_wt = topic_model_inc[m].n_wt]
  /\ merger' = [merger EXCEPT !.todo = @ \ {m}]
  /\ UNCHANGED <<topic_model_inc, scores, incarnations, mergerQueues, sync_event,
                 merger_stopping, batchManagerVars, cache>>

MergerPull ==
  LET m == Min(merger.todo) IN
  /\ merger.pc = "pull"
  /\ merger.todo # {}
  /\ ~PullStops(m)
  /\ topic_model' = [topic_model EXCEPT ![m].n_wt = topic_model_inc[m].n_wt]
  /\ topic_model_inc' = [topic_model_inc EXCEPT ![m] = Nil]
  /\ merger' = [merger EXCEPT !.todo = @ \ {m}]
  /\ UNCHANGED <<scores, incarnations, mergerQueues, sync_event, merger_stopping,
                 batchManagerVars, cache>>

MergerPullReturn ==
  /\ merger.pc = "pull"
  /\ merger.todo # {} => PullStops(Min(merger.todo))
  /\ merger' = [merger EXCEPT !.pc = "tasks", !.todo = {}]
  /\ sync_event' = TRUE
  /\ UNCHANGED <<mergerModels, scores, mergerQueues, merger_stopping,
                 batchManagerVars, cache>>

MergerThread ==
  \/ MergerStop \/ MergerTop \/ MergerTaskStep \/ MergerNoTask \/ MergerPop
  \/ MergerMerge \/ MergerCallbackDone \/ MergerCallbackCache
  \/ MergerPull \/ MergerPullReturn
=============================================================================
