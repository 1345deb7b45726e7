--------------------------- MODULE LocalInstance ---------------------------
(***************************************************************************)
(* core/instance.cc, core/master_component.cc in local mode: one thread    *)
(* calls the API while the data loader, the processors and the merger run. *)
(* A call is a sequence of steps, one for each object with a lock of its   *)
(* own that it touches.                                                    *)
(***************************************************************************)
EXTENDS Processor

CONSTANTS Calls,                   \* API calls the run may make
          QuietCalls,              \* of these, only made when nothing is pending
          MaxCalls,                \* bound on the number of calls
          IterationCounts,         \* arguments of InvokeIteration
          CreateStatuses,          \* ModelConfig.enabled of CreateModel's argument
          DisposableModels,        \* arguments of DisposeModel
          ProcessorCounts,         \* processors_count of Reconfigure's argument
          InitialSchemas,          \* schemas of the instance when the run starts
          InitialBatches           \* batches already added

CallNames == {"CreateModel", "DisposeModel", "AddBatch", "InvokeIteration",
              "WaitIdle", "Timeout", "Reconfigure", "Destroy"}

ASSUME LocalInstanceAssumption ==
  /\ Calls \subseteq CallNames /\ QuietCalls \subseteq Calls
  /\ MaxCalls \in Nat /\ IterationCounts \subseteq Nat
  /\ DisposableModels \subseteq Model
  /\ ProcessorCounts \subseteq 0..Cardinality(Processors)
  /\ CreateStatuses \subseteq ModelStatus \ {"absent"}
  /\ InitialSchemas \subseteq [Model -> ModelStatus] /\ InitialBatches \subseteq Batch

VARIABLES api,                     \* the API thread: where it is in a call
          calls,                   \* calls made so far (bounded by MaxCalls)
          due,                     \* ghost: tasks added for m since the last WaitIdle
          quiet                    \* ghost: WaitIdle returned true, no iteration since

apiVars == <<api, calls, due, quiet>>

vars == <<schema, batchManagerVars, dataLoaderVars, mergerVars, processorVars, apiVars>>

ApiPc == {"ready", "create", "dispose.merger", "dispose.batches", "invoke.reset",
          "invoke.add", "wait.poll", "wait.push", "wait.pull", "wait.done",
          "reconfigure", "destroy.processors", "destroy.merger", "destroy.loader", "destroyed"}

ApiState == [pc : ApiPc, model : Model \cup {Nil}, status : ModelStatus,
             iterations : Nat, todo : SUBSET Batch, processors : Nat]

TypeOK ==
  /\ SchemaTypeOK /\ BatchManagerTypeOK /\ DataLoaderTypeOK /\ MergerTypeOK
  /\ ProcessorTypeOK
  /\ api \in ApiState /\ calls \in Nat /\ quiet \in BOOLEAN
  /\ due \in [Model -> Counters]

Ready == [pc |-> "ready", model |-> Nil, status |-> "absent", iterations |-> 0, todo |-> {},
          processors |-> 0]

\* An instance after Reconfigure, CreateOrReconfigureModel and AddBatch calls.
Init ==
  /\ schema \in InitialSchemas
  /\ BatchManagerInit
  /\ DataLoaderInit(InitialBatches)
  /\ MergerInit
  /\ ProcessorInit
  /\ api = Ready
  /\ calls = 0
  /\ due = [m \in Model |-> NoCounts]
  /\ quiet = TRUE

-----------------------------------------------------------------------------
Call(name) ==
  /\ api.pc = "ready"
  /\ name \in Calls
  /\ name \in QuietCalls => quiet
  /\ calls < MaxCalls
  /\ calls' = calls + 1

At(pc) == api.pc = pc /\ UNCHANGED calls

Goto(pc) == api' = [api EXCEPT !.pc = pc]

Return == api' = Ready

\* The merger's variables that no API call writes.
mergerInternals == <<topic_model_inc, scores, merger_queue, merger>>

(* CreateOrReconfigureModel: the merger's model first, then the schema.    *)
CreateModel(m, status) ==
  /\ Call("CreateModel")
  /\ status # schema[m]
  /\ CreateTopicModel(m)
  /\ api' = [api EXCEPT !.pc = "create", !.model = m, !.status = status]
  /\ UNCHANGED <<schema, batchManagerVars, dataLoaderVars, mergerInternals,
                 internal_task_queue, sync_event, merger_stopping, processorVars, due, quiet>>

CreateModelSchema ==
  /\ At("create")
  /\ set_model_config(api.model, api.status)
  /\ Return
  /\ UNCHANGED <<batchManagerVars, dataLoaderVars, mergerVars, processorVars, due, quiet>>

\* Mutant of DisposeModel: the model stays in the schema.
DisposeModelKeepSchema(m) ==
  /\ Call("DisposeModel")
  /\ schema[m] # "absent"
  /\ api' = [api EXCEPT !.pc = "dispose.merger", !.model = m]
  /\ UNCHANGED <<schema, batchManagerVars, dataLoaderVars, mergerVars, processorVars,
                 due, quiet>>

(* DisposeModel: schema, merger, batch manager.  The cache is left alone.  *)
DisposeModel(m) ==
  /\ Call("DisposeModel")
  /\ schema[m] # "absent"
  /\ clear_model_config(m)
  /\ api' = [api EXCEPT !.pc = "dispose.merger", !.model = m]
  /\ UNCHANGED <<batchManagerVars, dataLoaderVars, mergerVars, processorVars, due, quiet>>

DisposeModelMerger ==
  /\ At("dispose.merger")
  /\ DisposeTopicModel(api.model)
  /\ Goto("dispose.batches")
  /\ UNCHANGED <<schema, batchManagerVars, dataLoaderVars, mergerInternals,
                 incarnations, sync_event, merger_stopping, processorVars, due, quiet>>

DisposeModelBatches ==
  /\ At("dispose.batches")
  /\ ForgetModel(api.model)
  /\ due' = [due EXCEPT ![api.model] = NoCounts]
  /\ Return
  /\ UNCHANGED <<schema, dataLoaderVars, mergerVars, processorVars, quiet>>

AddBatchCall ==
  /\ Call("AddBatch")
  /\ \E b \in Batch : AddBatch(b)
  /\ UNCHANGED <<schema, mergerVars, processorVars, api, due, quiet>>

(* InvokeIteration: reset the scores, then queue the batches of the latest *)
(* generation, iterations_count times.                                     *)
InvokeIteration(n) ==
  /\ Call("InvokeIteration")
  /\ IF n = 0
     THEN UNCHANGED <<internal_task_queue, sync_event, api, quiet>>
     ELSE /\ ForceTask("kForceResetScores")
          /\ api' = [api EXCEPT !.pc = "invoke.reset", !.iterations = n]
          /\ quiet' = FALSE
  /\ UNCHANGED <<schema, batchManagerVars, dataLoaderVars, mergerInternals, topic_model,
                 incarnations, merger_stopping, processorVars, due>>

InvokeGeneration ==
  /\ At("invoke.reset")
  /\ sync_event
  /\ IF generation = {}
     THEN Return
     ELSE api' = [api EXCEPT !.pc = "invoke.add", !.todo = generation]
  /\ UNCHANGED <<schema, batchManagerVars, dataLoaderVars, mergerVars, processorVars,
                 due, quiet>>

InvokeAdd ==
  LET b == Min(api.todo)
      rest == api.todo \ {b}
  IN
  /\ At("invoke.add")
  /\ Add(b)
  /\ due' = [m \in Model |-> IF m \in EnabledModels
                             THEN [due[m] EXCEPT ![b] = @ + 1] ELSE due[m]]
  /\ \/ rest # {} /\ api' = [api EXCEPT !.todo = rest]
     \/ /\ rest = {} /\ api.iterations > 1
        /\ api' = [api EXCEPT !.todo = generation, !.iterations = @ - 1]
     \/ rest = {} /\ api.iterations = 1 /\ Return
  /\ UNCHANGED <<schema, dataLoaderVars, mergerVars, processorVars, quiet>>

(* WaitIdle: poll the batch manager; then push and pull, so that the new   *)
(* topic models are visible when the call returns true.                    *)
WaitIdle ==
  /\ Call("WaitIdle")
  /\ Goto("wait.poll")
  /\ UNCHANGED <<schema, batchManagerVars, dataLoaderVars, mergerVars, processorVars,
                 due, quiet>>

WaitTimeout ==
  /\ At("wait.poll")
  /\ "Timeout" \in Calls
  /\ ~IsEverythingProcessed
  /\ Return
  /\ UNCHANGED <<schema, batchManagerVars, dataLoaderVars, mergerVars, processorVars,
                 due, quiet>>

WaitPush ==
  /\ At("wait.poll")
  /\ IsEverythingProcessed
  /\ ForceTask("kForcePushTopicModelIncrement")
  /\ Goto("wait.push")
  /\ UNCHANGED <<schema, batchManagerVars, dataLoaderVars, mergerInternals, topic_model,
                 incarnations, merger_stopping, processorVars, due, quiet>>

WaitPull ==
  /\ At("wait.push")
  /\ sync_event
  /\ ForceTask("kForcePullTopicModel")
  /\ Goto("wait.pull")
  /\ UNCHANGED <<schema, batchManagerVars, dataLoaderVars, mergerInternals, topic_model,
                 incarnations, merger_stopping, processorVars, due, quiet>>

WaitPulled ==
  /\ At("wait.pull")
  /\ sync_event
  /\ Goto("wait.done")
  /\ UNCHANGED <<schema, batchManagerVars, dataLoaderVars, mergerVars, processorVars,
                 due, quiet>>

WaitReturn ==
  /\ At("wait.done")
  /\ Return
  /\ due' = [m \in Model |-> NoCounts]
  /\ quiet' = TRUE
  /\ UNCHANGED <<schema, batchManagerVars, dataLoaderVars, mergerVars, processorVars>>

(* Reconfigure with another processors_count, also while batches are being *)
(* processed: processors_ is shortened, which joins a thread before the    *)
(* next one is removed, or new threads are started.                        *)
Stopped(p) == processor[p].pc = "stopped"

\* The elements of processors_ that no destructor was called for.
Running == {p \in Processors : ~processor_stopping[p]}

Joined == \A p \in Processors \ Running : Stopped(p)

\* ~Processor, when the previous destructor has joined its thread.
StopProcessor(p) ==
  /\ p \in Running
  /\ Joined
  /\ processor_stopping' = [processor_stopping EXCEPT ![p] = TRUE]
  /\ UNCHANGED processor

Reconfigure(n) ==
  /\ Call("Reconfigure")
  /\ api' = [api EXCEPT !.pc = "reconfigure", !.processors = n]
  /\ UNCHANGED <<schema, batchManagerVars, dataLoaderVars, mergerVars, processorVars,
                 due, quiet>>

RemoveProcessor(p) ==
  /\ At("reconfigure")
  /\ Cardinality(Running) > api.processors
  /\ StopProcessor(p)
  /\ UNCHANGED <<schema, batchManagerVars, dataLoaderVars, mergerVars, api, due, quiet>>

AddProcessor(p) ==
  /\ At("reconfigure")
  /\ Cardinality(Running) < api.processors
  /\ Stopped(p)
  /\ processor' = [processor EXCEPT ![p] = NewProcessor]
  /\ processor_stopping' = [processor_stopping EXCEPT ![p] = FALSE]
  /\ UNCHANGED <<schema, batchManagerVars, dataLoaderVars, mergerVars, api, due, quiet>>

ReconfigureReturn ==
  /\ At("reconfigure")
  /\ Cardinality(Running) = api.processors
  /\ Joined
  /\ Return
  /\ UNCHANGED <<schema, batchManagerVars, dataLoaderVars, mergerVars, processorVars,
                 due, quiet>>

(* ~Instance: members are destroyed in the reverse order of declaration,   *)
(* each destructor sets is_stopping and joins its thread.                  *)

\* Mutant of Destroy: the merger is stopped before the processors.
DestroyMergerFirst ==
  /\ Call("Destroy")
  /\ merger_stopping' = TRUE
  /\ Goto("destroy.processors")
  /\ UNCHANGED <<schema, batchManagerVars, dataLoaderVars, mergerInternals, topic_model,
                 incarnations, internal_task_queue, sync_event, processorVars, due, quiet>>

Destroy ==
  /\ Call("Destroy")
  /\ Goto("destroy.processors")
  /\ UNCHANGED <<schema, batchManagerVars, dataLoaderVars, mergerVars, processorVars,
                 due, quiet>>

DestroyProcessor(p) ==
  /\ At("destroy.processors")
  /\ StopProcessor(p)
  /\ UNCHANGED <<schema, batchManagerVars, dataLoaderVars, mergerVars, api, due, quiet>>

DestroyMerger ==
  /\ At("destroy.processors")
  /\ \A p \in Processors : Stopped(p)
  /\ merger_stopping' = TRUE
  /\ Goto("destroy.merger")
  /\ UNCHANGED <<schema, batchManagerVars, dataLoaderVars, mergerInternals, topic_model,
                 incarnations, internal_task_queue, sync_event, processorVars, due, quiet>>

DestroyLoader ==
  /\ At("destroy.merger")
  /\ merger.pc = "stopped"
  /\ loader_stopping' = TRUE
  /\ Goto("destroy.loader")
  /\ UNCHANGED <<schema, batchManagerVars, generation, cache, processor_queue, loader,
                 mergerVars, processorVars, due, quiet>>

Destroyed ==
  /\ At("destroy.loader")
  /\ loader.pc = "stopped"
  /\ Goto("destroyed")
  /\ UNCHANGED <<schema, batchManagerVars, dataLoaderVars, mergerVars, processorVars,
                 due, quiet>>

-----------------------------------------------------------------------------
ApiCall ==
  \/ \E m \in Model, s \in CreateStatuses : CreateModel(m, s)
  \/ \E m \in DisposableModels : DisposeModel(m)
  \/ AddBatchCall
  \/ \E n \in IterationCounts : InvokeIteration(n)
  \/ WaitIdle
  \/ \E n \in ProcessorCounts : Reconfigure(n)
  \/ Destroy

\* The rest of a call that has begun.
ApiThread ==
  \/ CreateModelSchema \/ DisposeModelMerger \/ DisposeModelBatches
  \/ InvokeGeneration \/ InvokeAdd
  \/ WaitTimeout \/ WaitPush \/ WaitPull \/ WaitPulled \/ WaitReturn
  \/ \E p \in Processors : RemoveProcessor(p) \/ AddProcessor(p) \/ DestroyProcessor(p)
  \/ ReconfigureReturn
  \/ DestroyMerger \/ DestroyLoader \/ Destroyed

LoaderStep ==
  /\ LoaderThread
  /\ UNCHANGED <<schema, mergerVars, processorVars, apiVars>>

MergerStep ==
  /\ MergerThread
  /\ UNCHANGED <<schema, generation, processor_queue, loader, loader_stopping,
                 processorVars, apiVars>>

ProcessorStep(p) ==
  /\ ProcessorThread(p)
  /\ UNCHANGED <<schema, batchManagerVars, generation, cache, loader, loader_stopping,
                 topic_model, topic_model_inc, scores, incarnations, internal_task_queue,
                 sync_event, merger, merger_stopping, apiVars>>

Aborted == \E p \in Processors : processor[p].pc = "aborted"

Next ==
  /\ ~Aborted
  /\ \/ ApiCall
     \/ ApiThread
     \/ LoaderStep
     \/ MergerStep
     \/ \E p \in Processors : ProcessorStep(p)

Spec == Init /\ [][Next]_vars

\* Every thread keeps running: a poll loop sleeps for a millisecond and tries
\* again, and a call that has begun goes on.  No call is ever owed.
FairSpec ==
  /\ Spec
  /\ WF_vars(~Aborted /\ ApiThread)
  /\ WF_vars(~Aborted /\ LoaderStep)
  /\ WF_vars(~Aborted /\ MergerStep)
  /\ \A p \in Processors : WF_vars(~Aborted /\ ProcessorStep(p))
=============================================================================
