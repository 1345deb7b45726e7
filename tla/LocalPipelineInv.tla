--------------------------- MODULE LocalPipelineInv ---------------------------
(*****************************************************************************)
(* What is true of a local instance at every moment, for the calls that a    *)
(* disciplined caller makes: the parts of an inductive invariant that        *)
(* implies Conservation, WaitIdleComplete, ThetaComplete, ModelPresent and   *)
(* SameIncarnation.  LocalPipelineProofs proves it.                          *)
(*****************************************************************************)
EXTENDS LocalInstanceProps

\* The models that no call disposes of.
Kept == {m \in Model : "DisposeModel" \in Calls => m \notin DisposableModels}

\* Models are created and disposed of, and iterations invoked, only when WaitIdle has
\* returned true since the last iteration, no model is disabled, and some model is
\* there from the start to the end.  Most tests and examples keep to it, not all:
\* instance_test.cc:119 and cpp_interface_test.cc:185 disable a model, for which
\* nobody reports a batch, and cpp_interface_test.cc:287-292 iterates without a model,
\* where a batch is marked for nobody and WaitIdle returns before it is processed.
Disciplined ==
  /\ Calls \cap {"CreateModel", "DisposeModel", "InvokeIteration"} \subseteq QuietCalls
  /\ CreateStatuses \subseteq {"enabled"}
  /\ \A s \in InitialSchemas : \A m \in Model : s[m] # "disabled"
  /\ \E m \in Kept : \A s \in InitialSchemas : s[m] = "enabled"

\* Counted of (m, b) in the increments that the merger keeps.
Merged(m) == IF topic_model_inc[m] = Nil THEN NoCounts ELSE topic_model_inc[m].n_wt

\* The schema always lists an enabled model, and no disabled one; a model that it
\* does not list is only in the merger half way through a call.
SchemaInv ==
  /\ \A m \in Model : schema[m] # "disabled"
  /\ \E m \in Kept : schema[m] = "enabled"
  /\ api.pc = "create" => api.status = "enabled"
  /\ api.pc = "dispose.merger" => api.model \notin Kept
  /\ \A m \in Model : schema[m] = "absent" /\ topic_model[m] # Nil =>
       api.pc \in {"create", "dispose.merger"} /\ api.model = m

\* A thread between two batches holds none, and no processor was aborted.
CleanInv ==
  /\ loader.pc \notin {"batch", "cache", "push"} => loader.batch = Nil
  /\ \A p \in Processors :
       /\ processor[p].pc \notin {"get", "push"} => processor[p].todo = {}
       /\ processor[p].pc # "aborted"

\* What is queued, loaded or due was added with AddBatch.
GenerationInv ==
  /\ \A i \in DOMAIN tasks : tasks[i] \in generation
  /\ loader.pc \in {"batch", "cache", "push"} => loader.batch \in generation
  /\ \A m \in Model, b \in Batch : due[m][b] > 0 => b \in generation

\* The mark of the batch manager is the number of copies that are out: none or one.
MarksInv ==
  \A b \in Batch, m \in Model : Handed(b, m) = IF b \in in_progress[m] THEN 1 ELSE 0

\* The increment is for a model of the schema, and has its topics and tokens.
FitsModel(inc) ==
  /\ inc.model \in EnabledModels
  /\ inc.incarnation = topic_model[inc.model].incarnation

\* Whoever holds an increment, or owes one, does so for a model of the schema: no
\* model is disposed of while a batch is on its way.
HoldersInv ==
  /\ \A p \in Processors :
       /\ processor[p].todo \subseteq EnabledModels
       /\ processor[p].pc = "push" =>
            processor[p].incarnation = topic_model[Min(processor[p].todo)].incarnation
  /\ \A i \in DOMAIN merger_queue : FitsModel(merger_queue[i])
  /\ merger.pc \in {"merge", "done"} => FitsModel(merger.increment)

\* The first n tasks of the merger are disposals, for which no call waits.
OnlyDisposals(n) == \A i \in 1..n : internal_task_queue[i].task_type = "kDisposeModel"

\* The call waits for its task: it is the last in the queue, a pull is under way,
\* or sync_event is set.
Forced(type) ==
  \/ sync_event /\ internal_task_queue = <<>> /\ merger.pc # "pull"
  \/ /\ ~sync_event /\ internal_task_queue # <<>> /\ merger.pc # "pull"
     /\ OnlyDisposals(Len(internal_task_queue) - 1)
     /\ internal_task_queue[Len(internal_task_queue)].task_type = type
  \/ /\ ~sync_event /\ internal_task_queue = <<>> /\ merger.pc = "pull"
     /\ type = "kForcePullTopicModel"

\* A call that waits for sync_event has the one task of its kind in the queue.
TasksInv ==
  /\ api.pc = "invoke.reset" => Forced("kForceResetScores")
  /\ api.pc = "wait.push" => Forced("kForcePushTopicModelIncrement")
  /\ api.pc = "wait.pull" => Forced("kForcePullTopicModel")
  /\ api.pc \notin {"invoke.reset", "wait.push", "wait.pull"} =>
       OnlyDisposals(Len(internal_task_queue)) /\ merger.pc # "pull"

\* Everything is processed, and the merger has left the callback.
Drained == IsEverythingProcessed /\ merger.pc \notin {"merge", "done", "cache"}

\* ... and the sums were pulled, or nothing was added to them.
Calm ==
  /\ Drained
  /\ due = [m \in Model |-> NoCounts]
  /\ \A m \in Model : topic_model_inc[m] = Nil

\* When a call relies on nothing being under way: from the return of WaitIdle to
\* the next iteration, and in WaitIdle once the batch manager has said so.
CalmInv ==
  /\ quiet \/ api.pc = "invoke.reset" => Calm
  /\ api.pc \in {"create", "dispose.merger", "dispose.batches"} => quiet
  /\ api.pc \in {"wait.push", "wait.pull", "wait.done"} => IsEverythingProcessed
  /\ api.pc \in {"wait.pull", "wait.done"} \/ (api.pc = "wait.push" /\ sync_event) => Drained
  /\ (\E i \in 1..Len(internal_task_queue) :
         internal_task_queue[i].task_type = "kDisposeModel") =>
         quiet \/ api.pc = "invoke.reset"
  /\ api.pc \in {"invoke.reset", "invoke.add"} => ~quiet

\* Conservation, and that all models of the schema have the same batches due.
CountInv ==
  /\ Conservation
  /\ \A m \in Model : schema[m] = "absent" => due[m] = NoCounts /\ topic_model_inc[m] = Nil
  /\ \A m, n \in EnabledModels : due[m] = due[n]
  /\ \A m \in Model : topic_model_inc[m] # Nil => \E b \in Batch : topic_model_inc[m].n_wt[b] > 0

\* The sums of m went to its topic model, and it counts what was due.
Pulled(m) ==
  /\ topic_model_inc[m] = Nil
  /\ due[m] # NoCounts => topic_model[m].n_wt = due[m]

\* While a pull goes through the models, those it has passed are pulled and the
\* others have all that is due in their sums.
PullInv ==
  /\ merger.pc = "pull" => merger.todo \subseteq EnabledModels
  /\ merger.pc # "pull" => merger.todo = {}
  /\ api.pc = "wait.pull" =>
       \A m \in EnabledModels :
         IF ~sync_event /\ (merger.pc = "pull" => m \in merger.todo)
         THEN Merged(m) = due[m] ELSE Pulled(m)
  /\ api.pc = "wait.done" => \A m \in EnabledModels : Pulled(m)

\* The scores count the same batches as the sums since they were reset.
ScoresInv ==
  /\ ~quiet /\ api.pc # "invoke.reset" =>
       \A m \in EnabledModels :
         scores[m] = IF api.pc \in {"wait.pull", "wait.done"} THEN due[m] ELSE Merged(m)
  /\ api.pc = "invoke.reset" /\ sync_event => scores = ResetScores

\* The merger is in the callback for (b, m), before it stores the entry.
Caching(b, m) ==
  merger.pc \in {"done", "cache"} /\ merger.increment.batch = b /\ merger.increment.model = m

\* Everything merged has its entry in the cache or gets it next.
CacheInv ==
  CacheTheta =>
    /\ \A m \in EnabledModels, b \in Batch :
         Merged(m)[b] > 0 => <<b, m>> \in cache \/ Caching(b, m)
    /\ api.pc \in {"wait.pull", "wait.done"} =>
         \A m \in EnabledModels, b \in Batch : due[m][b] > 0 => <<b, m>> \in cache

\* The inductive invariant of a disciplined caller, beside InstanceInv.
PipelineInv ==
  /\ SchemaInv /\ CleanInv /\ GenerationInv /\ MarksInv /\ HoldersInv /\ TasksInv
  /\ CalmInv /\ CountInv /\ PullInv /\ ScoresInv /\ CacheInv

-----------------------------------------------------------------------------
(* The length of the task list.                                            *)
\* The arguments of InvokeIteration and the batches are bounded.
Bounded ==
  /\ IsFiniteSet(Batch)
  /\ \E k \in IterationCounts : \A n \in IterationCounts : n <= k

MostIterations == Max(IterationCounts)

\* A call that queues tasks found the list empty; what it has still to add fits.
BoundInv ==
  /\ calls <= MaxCalls
  /\ api.pc \in {"invoke.reset", "invoke.add"} =>
       calls > 0 /\ api.iterations <= MostIterations
  /\ api.pc = "invoke.add" =>
       Len(tasks) + Cardinality(api.todo) + (api.iterations - 1) * Cardinality(Batch)
         <= MostIterations * Cardinality(Batch)

-----------------------------------------------------------------------------
(* Theta is re-used.                                                       *)
\* What a published model counts has its entry in the cache, and the loader has
\* seen the entries of the batch that it holds.
ReuseInv ==
  CacheTheta =>
    /\ \A m \in Model, b \in Batch : Published(m, b) => <<b, m>> \in cache
    /\ loader.pc = "push" =>
         \A m \in EnabledModels : Published(m, loader.batch) => m \in loader.cached_theta
===============================================================================
