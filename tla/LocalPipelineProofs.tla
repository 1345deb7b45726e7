------------------------- MODULE LocalPipelineProofs --------------------------
(*****************************************************************************)
(* For any sets of batches, models and processors, any bounds and any        *)
(* interleaving, when models change and iterations start only after WaitIdle *)
(* has returned: what is counted, when WaitIdle returns, and that the pipeline *)
(* implements BatchTracking.                                                 *)
(*****************************************************************************)
EXTENDS LocalFlowProofs

-----------------------------------------------------------------------------
(* Increments fit their models.                                            *)
\* The models stay as they are for those who hold a batch.
ModelsStay ==
  /\ EnabledModels \subseteq EnabledModels'
  /\ \A m \in EnabledModels : topic_model'[m].incarnation = topic_model[m].incarnation

LEMMA HoldersStep ==
  ASSUME InstanceInv, InstanceInv', SchemaInv, CleanInv, MarksInv, HoldersInv, CalmInv,
         Disciplined, [Next]_vars
  PROVE  HoldersInv'
<1> DEFINE ProcessorsFit == \A p \in Processors :
             /\ processor[p].todo \subseteq EnabledModels
             /\ processor[p].pc = "push" =>
                  processor[p].incarnation = topic_model[Min(processor[p].todo)].incarnation
           QueueFits == \A i \in DOMAIN merger_queue : FitsModel(merger_queue[i])
           MergerFits == merger.pc \in {"merge", "done"} => FitsModel(merger.increment)
<1>0. /\ processor \in [Processors -> ProcessorState] /\ ProcessorTypeOK
      /\ merger_queue \in Seq(ModelIncrement) /\ merger \in MergerState
      /\ topic_model \in [Model -> TopicModel \cup {Nil}]
      /\ ProcessorsFit /\ QueueFits /\ MergerFits
      /\ HoldersInv' <=> ProcessorsFit' /\ QueueFits' /\ MergerFits'
  BY DEF HoldersInv, InstanceInv, ProcessorOK, ProcessorTypeOK, MergerOK, MergerTypeOK
<1>1. UNCHANGED <<schema, topic_model>> => ModelsStay
  BY DEF ModelsStay, EnabledModels
<1>2. ASSUME ModelsStay, NEW inc, FitsModel(inc)
      PROVE  FitsModel(inc)'
  BY <1>2 DEF ModelsStay, FitsModel
<1>3. ASSUME ModelsStay, UNCHANGED merger_queue PROVE QueueFits'
  BY <1>0, <1>2, <1>3
<1>4. ASSUME ModelsStay, UNCHANGED merger PROVE MergerFits'
  BY <1>0, <1>2, <1>4
<1>5. ASSUME ModelsStay, NEW p \in Processors, processor'[p] = processor[p]
      PROVE  /\ processor'[p].todo \subseteq EnabledModels'
             /\ processor'[p].pc = "push" =>
                  processor'[p].incarnation = topic_model'[Min(processor'[p].todo)].incarnation
  <2>1. processor[p].todo \subseteq EnabledModels'
    BY <1>0, <1>5 DEF ModelsStay
  <2>2. CASE processor[p].pc = "push"
    <3>1. Min(processor[p].todo) \in EnabledModels
      BY <2>2, ModelFound
    <3>2. topic_model'[Min(processor[p].todo)].incarnation
            = topic_model[Min(processor[p].todo)].incarnation
      BY <1>5, <3>1 DEF ModelsStay
    <3>3. QED
      BY <1>0, <1>5, <2>1, <3>2
  <2>3. QED
    BY <1>5, <2>1, <2>2
<1>6. ASSUME ModelsStay, UNCHANGED processor PROVE ProcessorsFit'
  BY <1>5, <1>6
<1>7. ASSUME IsEverythingProcessed, UNCHANGED <<processor, merger_queue, merger>>
      PROVE  HoldersInv'
  <2>1. /\ merger.pc \notin {"merge", "done"} /\ merger_queue = <<>>
        /\ \A p \in Processors : processor[p].pc # "push" /\ processor[p].todo = {}
    BY <1>7, NobodyHolds DEF CleanInv
  <2>2. QED
    BY <1>0, <1>7, <2>1
<1>8. CASE LoaderStep \/ UNCHANGED vars
  <2>1. UNCHANGED <<schema, topic_model, processor, merger_queue, merger>>
    BY <1>8, LoaderLeaves DEF vars, mergerVars, processorVars
  <2>2. QED
    BY <1>0, <1>1, <1>3, <1>4, <1>6, <2>1
<1>9. ASSUME NEW p \in Processors, ProcessorStep(p)
      PROVE  HoldersInv'
  <2> DEFINE old == processor[p]
             new == processor'[p]
  <2>0. /\ UNCHANGED <<schema, topic_model, merger>> /\ ModelsStay /\ MergerFits'
        /\ EnabledModels' = EnabledModels
        /\ old \in ProcessorState
    BY <1>0, <1>1, <1>4, <1>9, ProcessorLeaves DEF EnabledModels
  <2>1. ASSUME \A q \in Processors : q # p => processor'[q] = processor[q],
               new.todo \subseteq EnabledModels,
               new.pc = "push" => new.incarnation = topic_model[Min(new.todo)].incarnation
        PROVE  ProcessorsFit'
    <3> SUFFICES ASSUME NEW q \in Processors
        PROVE  /\ processor'[q].todo \subseteq EnabledModels'
               /\ processor'[q].pc = "push" =>
                  processor'[q].incarnation = topic_model'[Min(processor'[q].todo)].incarnation
      OBVIOUS
    <3>1. CASE q = p
      BY <2>0, <2>1, <3>1
    <3>2. CASE q # p
      BY <1>5, <2>0, <2>1, <3>2
    <3>3. QED
      BY <3>1, <3>2
  <2>2. CASE ProcessorStop(p) \/ ProcessorPop(p) \/ ProcessorFull(p)
    <3>1. /\ \A q \in Processors : q # p => processor'[q] = processor[q]
          /\ UNCHANGED merger_queue
          /\ new.todo = old.todo /\ new.pc # "push"
      BY <1>0, <2>0, <2>2 DEF ProcessorStop, ProcessorPop, ProcessorFull, ProcessorState
    <3>2. QED
      BY <1>0, <1>3, <2>0, <2>1, <3>1
  <2>3. CASE ProcessorSchema(p)
    <3>1. /\ \A q \in Processors : q # p => processor'[q] = processor[q]
          /\ UNCHANGED merger_queue
          /\ new.todo = EnabledModels /\ new.pc # "push"
      BY <1>0, <2>3, ContinueMeans DEF ProcessorSchema
    <3>2. QED
      BY <1>0, <1>3, <2>0, <2>1, <3>1
  <2>4. CASE ProcessorGet(p)
    <3>1. old.pc = "get" /\ topic_model[Min(old.todo)] # Nil
      BY <2>4, ModelFound DEF ProcessorGet
    <3>2. /\ \A q \in Processors : q # p => processor'[q] = processor[q]
          /\ UNCHANGED merger_queue
          /\ new.todo = old.todo
          /\ new.incarnation = topic_model[Min(old.todo)].incarnation
      BY <1>0, <2>0, <2>4, <3>1 DEF ProcessorGet, ProcessorState
    <3>3. QED
      BY <1>0, <1>3, <2>0, <2>1, <3>2
  <2>5. CASE ProcessorPush(p)
    <3> DEFINE k == Min(old.todo)
               inc == [batch |-> old.part.batch, model |-> k, incarnation |-> old.incarnation]
    <3>1. old.pc = "push" /\ k \in EnabledModels /\ old.part \in ProcessorInput
      BY <2>5, ModelFound DEF ProcessorPush, InstanceInv, ProcessorOK, ProcessorHolds
    <3>2. /\ \A q \in Processors : q # p => processor'[q] = processor[q]
          /\ merger_queue' = Append(merger_queue, inc)
          /\ new.todo = old.todo \ {k} /\ new.pc # "push"
      BY <1>0, <2>5, ContinueMeans DEF ProcessorPush
    <3>3. FitsModel(inc) /\ inc \in ModelIncrement
      BY <1>0, <2>0, <3>1
      DEF FitsModel, ModelIncrement, ProcessorInput, EnabledModels, ProcessorState
    <3> HIDE DEF inc
    <3>4. QueueFits'
      <4>1. /\ DOMAIN merger_queue' = 1..(Len(merger_queue) + 1)
            /\ DOMAIN merger_queue = 1..Len(merger_queue) /\ Len(merger_queue) \in Nat
            /\ merger_queue'[Len(merger_queue) + 1] = inc
            /\ \A i \in 1..Len(merger_queue) : merger_queue'[i] = merger_queue[i]
        BY <1>0, <3>2, <3>3, AppendProperties, LenProperties
      <4>2. \A i \in DOMAIN merger_queue' : FitsModel(merger_queue'[i])
        BY <1>0, <3>3, <4>1
      <4>3. QED
        BY <1>2, <2>0, <4>2
    <3>5. QED
      BY <1>0, <2>0, <2>1, <3>2, <3>4
  <2>6. QED
    BY <1>9, <2>2, <2>3, <2>4, <2>5 DEF ProcessorStep, ProcessorThread
<1>10. CASE MergerStep
  <2>1. UNCHANGED <<schema, processor>> /\ EnabledModels' = EnabledModels
    BY <1>10, MergerLeaves DEF EnabledModels
  <2>2. ModelsStay
    <3>1. CASE MergerPull
      <4>1. topic_model' = [topic_model EXCEPT ![Min(merger.todo)].n_wt =
                              topic_model_inc[Min(merger.todo)].n_wt]
        BY <3>1 DEF MergerPull
      <4>2. \A m \in Model : topic_model[m] \in TopicModel =>
              topic_model'[m].incarnation = topic_model[m].incarnation
        BY <1>0, <4>1 DEF TopicModel
      <4>3. \A m \in EnabledModels : m \in Model /\ topic_model[m] # Nil
        BY DEF EnabledModels, InstanceInv, ModelsInOrder, SchemaModelsExist, GetModelNames
      <4>4. QED
        BY <1>0, <2>1, <4>2, <4>3 DEF ModelsStay
    <3>2. CASE UNCHANGED topic_model
      BY <1>1, <2>1, <3>2
    <3>3. MergerPull \/ UNCHANGED topic_model
      BY <1>10, Zenon
      DEF MergerStep, MergerThread, MergerStop, MergerTop, MergerTaskStep, MergerNoTask,
          MergerPop, MergerMerge, MergerCallbackDone, MergerCallbackCache, MergerPullReturn,
          mergerModels
    <3>4. QED
      BY <3>1, <3>2, <3>3
  <2>3. QueueFits' /\ MergerFits'
    <3>0. MergerThread
      BY <1>10 DEF MergerStep
    <3>1. CASE UNCHANGED merger_queue
      <4>1. merger'.pc \in {"merge", "done"} =>
              merger.pc \in {"merge", "done"} /\ merger'.increment = merger.increment
        <5>1. ~(MergerPop /\ merger_queue # <<>>)
          BY <1>0, <3>1, PopFront, LenProperties DEF MergerPop
        <5>2. QED
          BY <1>0, <3>0, <5>1, MergerGoes DEF Idle
      <4>2. QED
        BY <1>0, <1>2, <1>3, <2>2, <3>1, <4>1
    <3>2. CASE ~(UNCHANGED merger_queue)
      <4>1. /\ merger'.pc = "merge" /\ merger'.increment = Head(merger_queue)
            /\ merger_queue # <<>> /\ merger_queue' = Tail(merger_queue)
        BY <1>10, <3>2, MergerFlow
      <4>2. /\ DOMAIN merger_queue = 1..Len(merger_queue) /\ Len(merger_queue) \in Nat
            /\ 1 \in DOMAIN merger_queue
            /\ Head(merger_queue) = merger_queue[1]
            /\ DOMAIN merger_queue' = 1..(Len(merger_queue) - 1)
            /\ \A i \in 1..(Len(merger_queue) - 1) : merger_queue'[i] = merger_queue[i + 1]
        BY <1>0, <4>1, HeadTailProperties, LenProperties, EmptySeq
      <4>3. /\ FitsModel(merger'.increment)
            /\ \A i \in DOMAIN merger_queue' : FitsModel(merger_queue'[i])
        BY <1>0, <4>1, <4>2
      <4>4. QED
        BY <1>2, <2>2, <4>3
    <3>3. QED
      BY <3>1, <3>2
  <2>4. QED
    BY <1>0, <1>6, <2>1, <2>2, <2>3
<1>11. CASE ApiCall \/ ApiThread
  <2>1. UNCHANGED <<merger_queue, merger>>
    BY <1>11, ApiFlow
  <2>2. CASE Plain
    <3>1. ModelsStay
      BY <1>1, <2>2 DEF Plain
    <3>2. ASSUME NEW p \in Processors, processor'[p] = NewProcessor
          PROVE  processor'[p].todo = {} /\ processor'[p].pc # "push"
      BY <3>2 DEF NewProcessor
    <3>3. ProcessorsFit'
      BY <1>5, <2>2, <3>1, <3>2 DEF Plain
    <3>4. QED
      BY <1>0, <1>3, <1>4, <2>1, <3>1, <3>3
  <2>3. CASE \/ CreateModelSchema \/ DisposeModelMerger
             \/ \E m \in DisposableModels : DisposeModel(m)
             \/ \E m \in Model, s \in CreateStatuses : CreateModel(m, s)
    <3>1. quiet
      BY <2>3, Zenon
      DEF CreateModelSchema, DisposeModelMerger, DisposeModel, CreateModel, At, Call, CalmInv,
          Disciplined
    <3>2. IsEverythingProcessed
      BY <3>1 DEF CalmInv, Calm, Drained
    <3>3. UNCHANGED processor
      BY <2>3, Zenon
      DEF CreateModelSchema, DisposeModelMerger, DisposeModel, CreateModel, processorVars
    <3>4. QED
      BY <1>7, <2>1, <3>2, <3>3
  <2>4. CASE \/ AddBatchCall \/ DisposeModelBatches \/ InvokeGeneration \/ InvokeAdd
             \/ WaitPush \/ WaitPull \/ WaitPulled \/ WaitReturn
             \/ \E n \in IterationCounts : n # 0 /\ InvokeIteration(n)
    <3>1. UNCHANGED <<schema, topic_model, processor>>
      BY <2>4, Zenon
      DEF AddBatchCall, DisposeModelBatches, InvokeGeneration, InvokeAdd, WaitPush, WaitPull,
          WaitPulled, WaitReturn, InvokeIteration, mergerVars, processorVars
    <3>2. QED
      BY <1>0, <1>1, <1>3, <1>4, <1>6, <2>1, <3>1
  <2>5. QED
    BY <1>11, <2>2, <2>3, <2>4, ApiCases
<1>12. QED
  BY <1>8, <1>9, <1>10, <1>11 DEF Next

-----------------------------------------------------------------------------
(* The internal tasks of the merger.                                       *)
\* Where each call starts and where it goes.
LEMMA ApiPcs ==
  ASSUME InstanceInv
  PROVE  /\ \A m \in Model, s \in CreateStatuses : CreateModel(m, s) =>
              api.pc = "ready" /\ api'.pc = "create" /\ api'.model = m
         /\ CreateModelSchema => api.pc = "create" /\ api'.pc = "ready"
         /\ \A m \in DisposableModels : DisposeModel(m) =>
              api.pc = "ready" /\ api'.pc = "dispose.merger" /\ api'.model = m
         /\ DisposeModelMerger =>
              api.pc = "dispose.merger" /\ api'.pc = "dispose.batches" /\ api'.model = api.model
         /\ DisposeModelBatches => api.pc = "dispose.batches" /\ api'.pc = "ready"
         /\ AddBatchCall => api.pc = "ready" /\ api'.pc = "ready"
         /\ \A n \in IterationCounts : n # 0 /\ InvokeIteration(n) =>
              api.pc = "ready" /\ api'.pc = "invoke.reset"
         /\ InvokeGeneration => api.pc = "invoke.reset" /\ api'.pc \in {"invoke.add", "ready"}
         /\ InvokeAdd => api.pc = "invoke.add" /\ api'.pc \in {"invoke.add", "ready"}
         /\ WaitPush => api.pc = "wait.poll" /\ api'.pc = "wait.push"
         /\ WaitPull => api.pc = "wait.push" /\ api'.pc = "wait.pull"
         /\ WaitPulled => api.pc = "wait.pull" /\ api'.pc = "wait.done"
         /\ WaitReturn => api.pc = "wait.done" /\ api'.pc = "ready"
<1>0. api \in ApiState
  BY DEF InstanceInv, ApiOK
<1> USE <1>0, ReturnOK DEF ApiState, ApiPc, At, Call
<1>1. \A m \in Model, s \in CreateStatuses : CreateModel(m, s) =>
        api.pc = "ready" /\ api'.pc = "create" /\ api'.model = m
  BY DEF CreateModel
<1>2. \A m \in DisposableModels : DisposeModel(m) =>
        api.pc = "ready" /\ api'.pc = "dispose.merger" /\ api'.model = m
  BY DEF DisposeModel
<1>3. /\ CreateModelSchema => api.pc = "create" /\ api'.pc = "ready"
      /\ DisposeModelBatches => api.pc = "dispose.batches" /\ api'.pc = "ready"
      /\ WaitReturn => api.pc = "wait.done" /\ api'.pc = "ready"
  BY DEF CreateModelSchema, DisposeModelBatches, WaitReturn
<1>4. /\ DisposeModelMerger =>
           api.pc = "dispose.merger" /\ api'.pc = "dispose.batches" /\ api'.model = api.model
      /\ WaitPush => api.pc = "wait.poll" /\ api'.pc = "wait.push"
      /\ WaitPull => api.pc = "wait.push" /\ api'.pc = "wait.pull"
      /\ WaitPulled => api.pc = "wait.pull" /\ api'.pc = "wait.done"
  BY GotoOK DEF DisposeModelMerger, WaitPush, WaitPull, WaitPulled
<1>5. AddBatchCall => api.pc = "ready" /\ api'.pc = "ready"
  BY DEF AddBatchCall
<1>6. \A n \in IterationCounts : n # 0 /\ InvokeIteration(n) =>
        api.pc = "ready" /\ api'.pc = "invoke.reset"
  BY DEF InvokeIteration
<1>7. InvokeGeneration => api.pc = "invoke.reset" /\ api'.pc \in {"invoke.add", "ready"}
  BY DEF InvokeGeneration
<1>8. InvokeAdd => api.pc = "invoke.add" /\ api'.pc \in {"invoke.add", "ready"}
  BY DEF InvokeAdd
<1>9. QED
  BY <1>1, <1>2, <1>3, <1>4, <1>5, <1>6, <1>7, <1>8

\* Which steps of the merger touch the internal tasks, sync_event and a pull.
LEMMA MergerTalks ==
  ASSUME merger \in MergerState, MergerThread
  PROVE  \/ MergerTaskStep \/ MergerPullReturn
         \/ /\ UNCHANGED <<internal_task_queue, sync_event>>
            /\ merger'.pc = "pull" <=> merger.pc = "pull"
<1> USE DEF MergerGoto, MergerState, mergerQueues
<1>1. CASE MergerStop \/ MergerTop \/ MergerNoTask \/ MergerPop
  BY <1>1 DEF MergerStop, MergerTop, MergerNoTask, MergerPop
<1>2. CASE MergerMerge \/ MergerCallbackDone \/ MergerCallbackCache \/ MergerPull
  BY <1>2 DEF MergerMerge, MergerCallbackDone, MergerCallbackCache, MergerPull
<1>3. QED
  BY <1>1, <1>2 DEF MergerThread

\* The merger takes the first task: what each one does to the queue, the event
\* and the thread.
LEMMA TaskTaken ==
  ASSUME merger \in MergerState, internal_task_queue \in Seq(MergerTask), MergerTaskStep
  PROVE  LET n == Len(internal_task_queue)
             type == internal_task_queue[1].task_type
         IN  /\ n \in Nat /\ n > 0 /\ internal_task_queue # <<>>
             /\ Len(internal_task_queue') = n - 1
             /\ internal_task_queue' = <<>> <=> n = 1
             /\ \A i \in 1..(n - 1) : internal_task_queue'[i] = internal_task_queue[i + 1]
             /\ merger.pc = "tasks"
             /\ \/ /\ type = "kDisposeModel" /\ UNCHANGED <<sync_event, merger, scores>>
                \/ /\ type = "kForcePullTopicModel"
                   /\ UNCHANGED <<sync_event, scores, topic_model_inc>>
                   /\ merger'.pc = "pull"
                   /\ merger'.todo = {m \in Model : topic_model[m] # Nil}
                \/ /\ type = "kForcePushTopicModelIncrement" /\ sync_event' = TRUE
                   /\ UNCHANGED <<merger, scores, topic_model_inc>>
                \/ /\ type = "kForceResetScores" /\ sync_event' = TRUE
                   /\ UNCHANGED <<merger, topic_model_inc>> /\ scores' = ResetScores
<1> DEFINE q == internal_task_queue
<1>1. q # <<>> /\ q' = Tail(q) /\ merger.pc = "tasks"
  BY DEF MergerTaskStep
<1>2. /\ Len(q) \in Nat /\ Len(q) > 0 /\ Head(q) = q[1] /\ Len(q') = Len(q) - 1
      /\ \A i \in 1..(Len(q) - 1) : q'[i] = q[i + 1]
      /\ q' \in Seq(MergerTask)
  BY <1>1, HeadTailProperties, EmptySeq, LenProperties
<1>3. q' = <<>> <=> Len(q) = 1
  BY <1>2, EmptySeq
<1>4. \/ /\ q[1].task_type = "kDisposeModel" /\ UNCHANGED <<sync_event, merger, scores>>
      \/ /\ q[1].task_type = "kForcePullTopicModel"
         /\ UNCHANGED <<sync_event, scores, topic_model_inc>>
         /\ merger' = [merger EXCEPT !.pc = "pull", !.todo = {m \in Model : topic_model[m] # Nil}]
      \/ /\ q[1].task_type = "kForcePushTopicModelIncrement" /\ sync_event' = TRUE
         /\ UNCHANGED <<merger, scores, topic_model_inc>>
      \/ /\ q[1].task_type = "kForceResetScores" /\ sync_event' = TRUE
         /\ UNCHANGED <<merger, topic_model_inc>> /\ scores' = ResetScores
  BY <1>2, Zenon DEF MergerTaskStep
<1>5. [merger EXCEPT !.pc = "pull", !.todo = {m \in Model : topic_model[m] # Nil}].pc = "pull"
      /\ [merger EXCEPT !.pc = "pull", !.todo = {m \in Model : topic_model[m] # Nil}].todo
           = {m \in Model : topic_model[m] # Nil}
  BY DEF MergerState
<1>6. QED
  BY <1>1, <1>2, <1>3, <1>4, <1>5, Zenon

\* A call queues its task behind the disposals.
LEMMA TaskForced ==
  ASSUME internal_task_queue \in Seq(MergerTask), NEW type \in TaskType, ForceTask(type)
  PROVE  /\ ~sync_event' /\ internal_task_queue' # <<>>
         /\ Len(internal_task_queue) \in Nat
         /\ Len(internal_task_queue') = Len(internal_task_queue) + 1
         /\ internal_task_queue'[Len(internal_task_queue) + 1].task_type = type
         /\ \A i \in 1..Len(internal_task_queue) :
              internal_task_queue'[i] = internal_task_queue[i]
<1> DEFINE task == [task_type |-> type, model |-> Nil]
<1>1. task \in MergerTask /\ internal_task_queue' = Append(internal_task_queue, task)
      /\ sync_event' = FALSE
  BY DEF ForceTask, MergerTask
<1>2. task.task_type = type
  OBVIOUS
<1> HIDE DEF task
<1>3. QED
  BY <1>1, <1>2, AppendProperties

LEMMA TasksStep ==
  ASSUME InstanceInv, InstanceInv', CleanInv, TasksInv, [Next]_vars
  PROVE  TasksInv'
<1> DEFINE q == internal_task_queue
           n == Len(internal_task_queue)
           Waits == {"invoke.reset", "wait.push", "wait.pull"}
<1>0. /\ q \in Seq(MergerTask) /\ n \in Nat /\ merger \in MergerState
      /\ q # <<>> => n > 0
      /\ sync_event \in BOOLEAN
  <2>1. q \in Seq(MergerTask) /\ merger \in MergerState /\ sync_event \in BOOLEAN
    BY DEF InstanceInv, MergerOK, MergerTypeOK
  <2>2. QED
    BY <2>1, LenProperties, EmptySeq
<1>1. CASE /\ UNCHANGED <<internal_task_queue, sync_event>>
           /\ merger'.pc = "pull" <=> merger.pc = "pull"
           /\ UNCHANGED api \/ (api.pc \notin Waits /\ api'.pc \notin Waits)
  BY <1>1 DEF TasksInv, Forced, OnlyDisposals
<1>2. CASE MergerStep
  <2>1. UNCHANGED api /\ MergerThread
    BY <1>2, MergerLeaves DEF MergerStep
  <2>2. CASE MergerPullReturn
    <3>1. /\ merger.pc = "pull" /\ merger'.pc # "pull" /\ sync_event' = TRUE
          /\ UNCHANGED internal_task_queue
      BY <1>0, <2>2 DEF MergerPullReturn, mergerQueues, MergerState
    <3>2. QED
      BY <2>1, <3>1 DEF TasksInv, Forced
  <2>3. CASE MergerTaskStep
    <3>1. /\ n > 0 /\ q # <<>> /\ merger.pc = "tasks" /\ Len(q') = n - 1 /\ (q' = <<>> <=> n = 1)
          /\ \A i \in 1..(n - 1) : q'[i] = q[i + 1]
      BY <1>0, <2>3, TaskTaken
    <3>2. ASSUME OnlyDisposals(n)
          PROVE  OnlyDisposals(n - 1)' /\ UNCHANGED <<merger, sync_event>>
      <4>1. q[1].task_type = "kDisposeModel"
        BY <1>0, <3>1, <3>2 DEF OnlyDisposals
      <4>2. UNCHANGED <<merger, sync_event>>
        BY <1>0, <2>3, <4>1, TaskTaken
      <4>3. OnlyDisposals(n - 1)'
        BY <1>0, <3>1, <3>2 DEF OnlyDisposals
      <4>4. QED
        BY <4>2, <4>3
    <3>3. ASSUME NEW type \in TaskType, type # "kDisposeModel", Forced(type)
          PROVE  Forced(type)'
      <4>1. ~sync_event /\ OnlyDisposals(n - 1) /\ q[n].task_type = type
        BY <3>1, <3>3 DEF Forced
      <4>2. CASE n = 1
        <5>1. q[1].task_type = type /\ q' = <<>>
          BY <3>1, <4>1, <4>2
        <5>2. \/ sync_event' = TRUE /\ UNCHANGED merger
              \/ type = "kForcePullTopicModel" /\ merger'.pc = "pull" /\ UNCHANGED sync_event
          BY <1>0, <2>3, <3>3, <5>1, TaskTaken
        <5>3. QED
          BY <3>1, <4>1, <5>1, <5>2 DEF Forced
      <4>3. CASE n # 1
        <5>1. q[1].task_type = "kDisposeModel"
          BY <1>0, <3>1, <4>1, <4>3 DEF OnlyDisposals
        <5>2. UNCHANGED <<merger, sync_event>>
          BY <1>0, <2>3, <5>1, TaskTaken
        <5>3. \A i \in 1..(n - 1 - 1) : q'[i].task_type = "kDisposeModel"
          BY <1>0, <3>1, <4>1 DEF OnlyDisposals
        <5>4. q'[n - 1].task_type = type
          BY <1>0, <3>1, <4>1, <4>3
        <5>5. QED
          BY <3>1, <4>1, <4>3, <5>2, <5>3, <5>4 DEF Forced, OnlyDisposals
      <4>4. QED
        BY <4>2, <4>3
    <3>4. /\ api.pc = "invoke.reset" => Forced("kForceResetScores")'
          /\ api.pc = "wait.push" => Forced("kForcePushTopicModelIncrement")'
          /\ api.pc = "wait.pull" => Forced("kForcePullTopicModel")'
      BY <3>3 DEF TasksInv, TaskType
    <3>5. api.pc \notin Waits => OnlyDisposals(n)' /\ merger'.pc # "pull"
      BY <3>1, <3>2 DEF TasksInv, OnlyDisposals
    <3>6. QED
      BY <2>1, <3>4, <3>5, Zenon DEF TasksInv
  <2>4. QED
    BY <1>0, <1>1, <2>1, <2>2, <2>3, MergerTalks
<1>3. ASSUME NEW type \in TaskType, ForceTask(type), UNCHANGED merger, OnlyDisposals(n),
             merger.pc # "pull"
      PROVE  Forced(type)'
  <2>1. /\ ~sync_event' /\ q' # <<>> /\ Len(q') = n + 1 /\ q'[n + 1].task_type = type
        /\ \A i \in 1..n : q'[i] = q[i]
    BY <1>0, <1>3, TaskForced
  <2>2. \A i \in 1..(n + 1 - 1) : q'[i].task_type = "kDisposeModel"
    BY <1>0, <1>3, <2>1 DEF OnlyDisposals
  <2>3. QED
    BY <1>3, <2>1, <2>2 DEF Forced, OnlyDisposals
<1>4. ASSUME NEW type \in TaskType, Forced(type), sync_event
      PROVE  q = <<>> /\ merger.pc # "pull" /\ OnlyDisposals(n)
  BY <1>0, <1>4, EmptySeq DEF Forced, OnlyDisposals
<1>5. CASE ApiCall \/ ApiThread
  <2>0. UNCHANGED merger
    BY <1>5, ApiFlow
  <2>1. ASSUME NEW k \in IterationCounts, k # 0, InvokeIteration(k)
        PROVE  TasksInv'
    <3>1. ForceTask("kForceResetScores") /\ api.pc = "ready" /\ api'.pc = "invoke.reset"
      BY <2>1, ApiPcs, Zenon DEF InvokeIteration
    <3>2. Forced("kForceResetScores")'
      BY <1>3, <2>0, <3>1 DEF TasksInv, TaskType
    <3>3. QED
      BY <3>1, <3>2 DEF TasksInv
  <2>2. CASE InvokeGeneration \/ WaitPulled
    <3>1. sync_event /\ UNCHANGED <<internal_task_queue, sync_event>>
      BY <2>2 DEF InvokeGeneration, WaitPulled, mergerVars
    <3>2. /\ api.pc \in {"invoke.reset", "wait.pull"}
          /\ api'.pc \in {"invoke.add", "ready", "wait.done"}
      BY <2>2, ApiPcs
    <3>3. OnlyDisposals(n) /\ merger.pc # "pull"
      BY <1>4, <3>1, <3>2 DEF TasksInv, TaskType
    <3>4. QED
      BY <2>0, <3>1, <3>2, <3>3 DEF TasksInv, OnlyDisposals
  <2>3. CASE WaitPush
    <3>1. /\ ForceTask("kForcePushTopicModelIncrement")
          /\ api.pc = "wait.poll" /\ api'.pc = "wait.push"
      BY <2>3, ApiPcs DEF WaitPush
    <3>2. Forced("kForcePushTopicModelIncrement")'
      BY <1>3, <2>0, <3>1 DEF TasksInv, TaskType
    <3>3. QED
      BY <3>1, <3>2 DEF TasksInv
  <2>4. CASE WaitPull
    <3>1. /\ ForceTask("kForcePullTopicModel") /\ api.pc = "wait.push" /\ api'.pc = "wait.pull"
          /\ sync_event
      BY <2>4, ApiPcs DEF WaitPull
    <3>2. OnlyDisposals(n) /\ merger.pc # "pull"
      BY <1>4, <3>1 DEF TasksInv, TaskType
    <3>3. Forced("kForcePullTopicModel")'
      BY <1>3, <2>0, <3>1, <3>2 DEF TaskType
    <3>4. QED
      BY <3>1, <3>3 DEF TasksInv
  <2>5. CASE DisposeModelMerger
    <3> DEFINE task == [task_type |-> "kDisposeModel", model |-> api.model]
    <3>1. /\ api.pc = "dispose.merger" /\ api'.pc = "dispose.batches"
          /\ q' = Append(q, task) /\ task \in MergerTask
      BY <2>5, ApiPcs
      DEF DisposeModelMerger, DisposeTopicModel, MergerTask, TaskType, InstanceInv, ApiOK, CallHolds
    <3>2. task.task_type = "kDisposeModel"
      OBVIOUS
    <3> HIDE DEF task
    <3>3. /\ Len(q') = n + 1 /\ q'[n + 1].task_type = "kDisposeModel"
          /\ \A i \in 1..n : q'[i] = q[i]
      BY <1>0, <3>1, <3>2, AppendProperties
    <3>4. OnlyDisposals(n) /\ merger.pc # "pull"
      BY <3>1 DEF TasksInv
    <3>5. OnlyDisposals(n)'
      BY <1>0, <3>3, <3>4 DEF OnlyDisposals
    <3>6. QED
      BY <2>0, <3>1, <3>4, <3>5 DEF TasksInv
  <2>6. CASE \/ Plain \/ CreateModelSchema \/ DisposeModelBatches \/ AddBatchCall \/ InvokeAdd
             \/ WaitReturn
             \/ \E m \in Model, s \in CreateStatuses : CreateModel(m, s)
             \/ \E m \in DisposableModels : DisposeModel(m)
    <3>1. UNCHANGED <<internal_task_queue, sync_event>>
      BY <2>6, Zenon
      DEF Plain, CreateModelSchema, DisposeModelBatches, AddBatchCall, InvokeAdd, WaitReturn,
          CreateModel, DisposeModel, mergerVars
    <3>2. api.pc \notin Waits /\ api'.pc \notin Waits
      BY <2>6, ApiPcs DEF Plain, PlainPc
    <3>3. QED
      BY <1>1, <2>0, <3>1, <3>2
  <2>7. QED
    BY <1>5, <2>1, <2>2, <2>3, <2>4, <2>5, <2>6, ApiCases
<1>6. CASE LoaderStep \/ UNCHANGED vars \/ \E p \in Processors : ProcessorStep(p)
  <2>1. UNCHANGED <<internal_task_queue, sync_event, merger, api>>
    BY <1>6, LoaderLeaves, ProcessorLeaves DEF vars, mergerVars, apiVars
  <2>2. QED
    BY <1>1, <2>1
<1>7. QED
  BY <1>2, <1>5, <1>6 DEF Next

-----------------------------------------------------------------------------
(* Nothing is under way.                                                   *)
\* The sums stay when a disposal finds none.
LEMMA IncrementsStay ==
  ASSUME topic_model_inc \in [Model -> TopicModel \cup {Nil}], MergerThread
  PROVE  MergerMerge \/ \A m \in Model : topic_model_inc'[m] \in {topic_model_inc[m], Nil}
<1>1. CASE MergerTaskStep
  <2>1. \/ UNCHANGED topic_model_inc
        \/ topic_model_inc' = [topic_model_inc EXCEPT ![Head(internal_task_queue).model] = Nil]
    BY <1>1, Zenon DEF MergerTaskStep
  <2>2. QED
    BY <2>1
<1>2. CASE MergerPull
  BY <1>2 DEF MergerPull
<1>3. CASE \/ MergerStop \/ MergerTop \/ MergerNoTask \/ MergerPop \/ MergerCallbackDone
           \/ MergerCallbackCache \/ MergerPullReturn
  BY <1>3
  DEF MergerStop, MergerTop, MergerNoTask, MergerPop, MergerCallbackDone, MergerCallbackCache,
      MergerPullReturn, mergerModels
<1>4. QED
  BY <1>1, <1>2, <1>3 DEF MergerThread

\* Once everything is processed the threads have nothing to add, and the merger
\* does not come back from its idle loop.
LEMMA ProcessedStays ==
  ASSUME InstanceInv, InstanceInv', SchemaInv, CleanInv, GenerationInv, MarksInv,
         IsEverythingProcessed,
         LoaderStep \/ MergerStep \/ \E p \in Processors : ProcessorStep(p)
  PROVE  /\ IsEverythingProcessed' /\ (Drained => Drained')
         /\ MergerStep => ~MergerMerge
<1>0. /\ \A b \in Batch : Queued(b) = 0
      /\ merger.pc \notin {"merge", "done"} /\ merger_queue = <<>>
      /\ merger \in MergerState /\ \A b \in Batch : Queued(b)' \in Nat
  <2>1. Places'
    BY PlacesOK, PTL
  <2>2. QED
    BY <2>1, NobodyHolds DEF Places, InstanceInv, MergerOK, MergerTypeOK
<1>1. CASE LoaderStep
  <2>1. ~\E b \in Batch : Takes(b)
    BY <1>0 DEF Takes
  <2>2. UNCHANGED batchManagerVars /\ UNCHANGED merger
    BY <1>1, <2>1, LoaderFlow, LoaderLeaves
  <2>3. ~MergerStep \/ ~MergerMerge
    BY <1>0 DEF MergerMerge
  <2>4. QED
    BY <2>2, <2>3 DEF IsEverythingProcessed, batchManagerVars, Drained
<1>2. CASE \E p \in Processors : ProcessorStep(p)
  <2>1. UNCHANGED <<tasks, in_progress, merger>>
    BY <1>2, ProcessorLeaves
  <2>2. ~MergerStep \/ ~MergerMerge
    BY <1>0 DEF MergerMerge
  <2>3. QED
    BY <2>1, <2>2 DEF IsEverythingProcessed, Drained
<1>3. CASE MergerStep
  <2>1. UNCHANGED tasks /\ MergerThread
    BY <1>3, MergerLeaves DEF MergerStep
  <2>2. UNCHANGED in_progress /\ merger'.pc \in Idle /\ ~MergerMerge
    BY <1>0, <2>1, MergerGoes DEF Idle, MergerMerge
  <2>3. QED
    BY <2>1, <2>2 DEF IsEverythingProcessed, Drained, Idle
<1>4. QED
  BY <1>1, <1>2, <1>3

\* A disposal is queued.
Disposing == \E i \in 1..Len(internal_task_queue) :
               internal_task_queue[i].task_type = "kDisposeModel"

LEMMA CalmStep ==
  ASSUME InstanceInv, InstanceInv', SchemaInv, CleanInv, GenerationInv, MarksInv, TasksInv,
         CalmInv, CountInv, PullInv, Disciplined, [Next]_vars
  PROVE  CalmInv'
<1> DEFINE AtRest == quiet \/ api.pc = "invoke.reset" => Calm
           ModelCalls == api.pc \in {"create", "dispose.merger", "dispose.batches"} => quiet
           Processed == api.pc \in {"wait.push", "wait.pull", "wait.done"} => IsEverythingProcessed
           Flushed == api.pc \in {"wait.pull", "wait.done"} \/ (api.pc = "wait.push" /\ sync_event)
                        => Drained
           Disposals == Disposing => quiet \/ api.pc = "invoke.reset"
           Iterating == api.pc \in {"invoke.reset", "invoke.add"} => ~quiet
<1>0. /\ AtRest /\ ModelCalls /\ Processed /\ Flushed /\ Disposals /\ Iterating
      /\ CalmInv' <=> /\ AtRest' /\ ModelCalls' /\ Processed' /\ Flushed' /\ Disposals'
                      /\ Iterating'
  BY DEF CalmInv, Disposing
<1>01. /\ internal_task_queue \in Seq(MergerTask) /\ merger \in MergerState
       /\ topic_model_inc \in [Model -> TopicModel \cup {Nil}]
       /\ Len(internal_task_queue) \in Nat
       /\ in_progress \in [Model -> SUBSET Batch]
  BY LenProperties DEF InstanceInv, MergerOK, MergerTypeOK, BatchManagerTypeOK
<1>1. CASE LoaderStep \/ MergerStep \/ \E p \in Processors : ProcessorStep(p)
  <2>1. UNCHANGED <<api, due, quiet>>
    BY <1>1, LoaderLeaves, MergerLeaves, ProcessorLeaves
  <2>2. IsEverythingProcessed => IsEverythingProcessed' /\ (Drained => Drained')
    BY <1>1, ProcessedStays
  <2>3. AtRest'
    <3>1. SUFFICES ASSUME Calm PROVE \A m \in Model : topic_model_inc'[m] = Nil
      BY <1>0, <2>1, <2>2 DEF Calm, Drained
    <3>2. CASE MergerStep
      <4>1. MergerThread /\ ~MergerMerge
        BY <1>1, <3>1, <3>2, ProcessedStays DEF Calm, Drained, MergerStep
      <4>2. QED
        BY <1>01, <3>1, <4>1, IncrementsStay DEF Calm
    <3>3. CASE UNCHANGED topic_model_inc
      BY <3>1, <3>3 DEF Calm
    <3>4. QED
      BY <1>1, <3>2, <3>3, LoaderLeaves, ProcessorLeaves
  <2>4. Flushed'
    <3>1. CASE UNCHANGED sync_event
      BY <1>0, <2>1, <2>2, <3>1 DEF Drained
    <3>2. CASE MergerStep /\ ~(UNCHANGED sync_event)
      <4>1. merger'.pc = "tasks"
        <5>1. CASE MergerTaskStep
          BY <1>01, <3>2, <5>1, TaskTaken
        <5>2. CASE MergerPullReturn
          BY <1>01, <5>2 DEF MergerPullReturn, MergerState
        <5>3. QED
          BY <1>01, <3>2, <5>1, <5>2, MergerTalks DEF MergerStep
      <4>2. QED
        BY <1>0, <2>1, <2>2, <4>1 DEF Drained
    <3>3. QED
      BY <1>1, <3>1, <3>2, LoaderLeaves, ProcessorLeaves
  <2>5. Disposing' => Disposing
    <3>1. CASE UNCHANGED internal_task_queue
      BY <3>1 DEF Disposing
    <3>2. CASE MergerTaskStep
      BY <1>01, <3>2, TaskTaken DEF Disposing
    <3>3. CASE MergerStep /\ ~(UNCHANGED internal_task_queue)
      <4>1. ~MergerPullReturn
        BY <3>3 DEF MergerPullReturn, mergerQueues
      <4>2. QED
        BY <1>01, <3>2, <3>3, <4>1, MergerTalks DEF MergerStep
    <3>4. QED
      BY <1>1, <3>1, <3>3, LoaderLeaves, ProcessorLeaves
  <2>6. QED
    BY <1>0, <2>1, <2>2, <2>3, <2>4, <2>5
<1>2. CASE UNCHANGED vars
  <2>1. UNCHANGED <<tasks, in_progress, merger, topic_model_inc, internal_task_queue,
                    sync_event, api, due, quiet>>
    BY <1>2 DEF vars, batchManagerVars, mergerVars, apiVars
  <2>2. QED
    BY <1>0, <2>1 DEF Calm, Drained, IsEverythingProcessed, Disposing
<1>3. ASSUME UNCHANGED <<tasks, in_progress, merger, topic_model_inc, due>>
      PROVE  /\ Calm' <=> Calm
             /\ Drained' <=> Drained
             /\ IsEverythingProcessed' <=> IsEverythingProcessed
  BY <1>3 DEF Calm, Drained, IsEverythingProcessed
<1>4. UNCHANGED internal_task_queue => (Disposing' <=> Disposing)
  BY DEF Disposing
<1>5. ASSUME NEW type \in TaskType, type # "kDisposeModel", ForceTask(type)
      PROVE  (Disposing' => Disposing) /\ ~sync_event'
  BY <1>01, <1>5, TaskForced DEF Disposing
<1>6. CASE ApiCall \/ ApiThread
  <2>0. UNCHANGED <<merger, merger_queue>>
    BY <1>6, ApiFlow
  <2>1. CASE Plain \/ AddBatchCall
    <3>1. /\ UNCHANGED <<tasks, in_progress, topic_model_inc, internal_task_queue, sync_event,
                         due, quiet>>
          /\ api.pc \in PlainPc /\ api'.pc \in PlainPc
      BY <2>1, ApiPcs
      DEF Plain, PlainPc, AddBatchCall, AddBatch, batchManagerVars, mergerVars, mergerInternals
    <3>2. QED
      BY <1>0, <1>3, <1>4, <2>0, <3>1 DEF PlainPc
  <2>2. CASE \/ CreateModelSchema \/ DisposeModelMerger \/ DisposeModelBatches
             \/ \E m \in Model, s \in CreateStatuses : CreateModel(m, s)
             \/ \E m \in DisposableModels : DisposeModel(m)
    <3>1. quiet
      <4>1. CASE CreateModelSchema \/ DisposeModelMerger \/ DisposeModelBatches
        BY <1>0, <4>1, ApiPcs
      <4>2. CASE \/ \E m \in Model, s \in CreateStatuses : CreateModel(m, s)
                 \/ \E m \in DisposableModels : DisposeModel(m)
        BY <4>2, Zenon DEF CreateModel, DisposeModel, Call, Disciplined
      <4>3. QED
        BY <2>2, <4>1, <4>2
    <3>2. UNCHANGED <<tasks, topic_model_inc, quiet>> /\ (UNCHANGED due \/ DisposeModelBatches)
      BY <2>2, Zenon
      DEF CreateModelSchema, DisposeModelMerger, DisposeModelBatches, CreateModel, DisposeModel,
          ForgetModel, batchManagerVars, mergerVars, mergerInternals
    <3>3. Calm
      BY <1>0, <3>1
    <3>4. \A m \in Model : in_progress'[m] = {}
      <4>1. UNCHANGED in_progress \/ in_progress' = [in_progress EXCEPT ![api.model] = {}]
        BY <2>2, Zenon
        DEF CreateModelSchema, DisposeModelMerger, DisposeModelBatches, CreateModel, DisposeModel,
            ForgetModel, batchManagerVars
      <4>2. QED
        BY <1>01, <3>3, <4>1 DEF Calm, Drained, IsEverythingProcessed
    <3>5. due' = [m \in Model |-> NoCounts]
      BY <3>2, <3>3 DEF Calm, DisposeModelBatches
    <3>6. Calm' /\ quiet'
      BY <2>0, <3>1, <3>2, <3>3, <3>4, <3>5 DEF Calm, Drained, IsEverythingProcessed
    <3>7. api'.pc \in {"create", "ready", "dispose.merger", "dispose.batches"}
      BY <2>2, ApiPcs
    <3>8. QED
      BY <1>0, <3>6, <3>7
  <2>3. CASE \E n \in IterationCounts : n # 0 /\ InvokeIteration(n)
    <3>1. quiet /\ quiet' = FALSE /\ UNCHANGED <<tasks, in_progress, topic_model_inc, due>>
      BY <2>3, Zenon DEF InvokeIteration, Call, Disciplined, mergerInternals, batchManagerVars
    <3>2. Calm'
      BY <1>0, <1>3, <2>0, <3>1
    <3>3. api'.pc = "invoke.reset"
      BY <2>3, ApiPcs
    <3>4. QED
      BY <1>0, <3>1, <3>2, <3>3
  <2>4. CASE InvokeGeneration
    <3>1. /\ UNCHANGED <<internal_task_queue, quiet>> /\ sync_event
          /\ api.pc = "invoke.reset" /\ api'.pc \in {"invoke.add", "ready"}
      BY <2>4, ApiPcs DEF InvokeGeneration, mergerVars
    <3>2. internal_task_queue = <<>>
      BY <3>1 DEF TasksInv, Forced
    <3>3. ~Disposing
      BY <3>2, EmptySeq DEF Disposing
    <3>4. QED
      BY <1>0, <1>4, <3>1, <3>3
  <2>5. CASE InvokeAdd
    <3>1. /\ UNCHANGED <<internal_task_queue, quiet>>
          /\ api.pc = "invoke.add" /\ api'.pc \in {"invoke.add", "ready"}
      BY <2>5, ApiPcs DEF InvokeAdd, mergerVars
    <3>2. QED
      BY <1>0, <1>4, <3>1
  <2>6. CASE WaitPush \/ WaitPull
    <3>1. /\ UNCHANGED <<tasks, in_progress, topic_model_inc, due, quiet>>
          /\ \/ /\ api.pc = "wait.poll" /\ api'.pc = "wait.push" /\ IsEverythingProcessed
                /\ ForceTask("kForcePushTopicModelIncrement")
             \/ /\ api.pc = "wait.push" /\ api'.pc = "wait.pull" /\ sync_event
                /\ ForceTask("kForcePullTopicModel")
      BY <2>6, ApiPcs DEF WaitPush, WaitPull, mergerInternals, batchManagerVars
    <3>2. (Disposing' => Disposing) /\ ~sync_event'
      BY <1>5, <3>1 DEF TaskType
    <3>3. QED
      BY <1>0, <1>3, <2>0, <3>1, <3>2
  <2>7. CASE WaitPulled
    <3>1. /\ UNCHANGED <<tasks, in_progress, topic_model_inc, internal_task_queue, sync_event, due,
                         quiet>>
          /\ api.pc = "wait.pull" /\ api'.pc = "wait.done"
      BY <2>7, ApiPcs DEF WaitPulled, mergerVars, batchManagerVars
    <3>2. QED
      BY <1>0, <1>3, <1>4, <2>0, <3>1
  <2>8. CASE WaitReturn
    <3>1. /\ UNCHANGED <<tasks, in_progress, topic_model_inc>> /\ quiet' = TRUE
          /\ due' = [m \in Model |-> NoCounts]
          /\ api.pc = "wait.done" /\ api'.pc = "ready"
      BY <2>8, ApiPcs DEF WaitReturn, mergerVars, batchManagerVars
    <3>2. \A m \in Model : topic_model_inc[m] = Nil
      <4>1. \A m \in Model : m \in EnabledModels \/ schema[m] = "absent"
        BY DEF EnabledModels, SchemaInv, InstanceInv, SchemaTypeOK, ModelStatus
      <4>2. QED
        BY <3>1, <4>1 DEF PullInv, Pulled, CountInv
    <3>3. Calm'
      BY <1>0, <2>0, <3>1, <3>2 DEF Calm, Drained, IsEverythingProcessed
    <3>4. QED
      BY <3>1, <3>3, <1>0
  <2>9. QED
    BY <1>6, <2>1, <2>2, <2>3, <2>4, <2>5, <2>6, <2>7, <2>8, ApiCases
<1>7. QED
  BY <1>1, <1>2, <1>6 DEF Next

-----------------------------------------------------------------------------
(* Counting.                                                               *)
\* Copies of b on their way to m, in the merger's hands and in its increments.
Merging(b, m) == IF MergerHolds(b, m, {"merge"}) THEN 1 ELSE 0

\* The right-hand side of Conservation.
Balance(b, m) ==
  Queued(b) + Unprocessed(b) + Unpopped(b, m) + Merging(b, m) + Merged(m)[b]

\* Conservation, in these terms.
Balanced ==
  api.pc \notin {"wait.pull", "wait.done"} =>
    \A m \in EnabledModels, b \in Batch : due[m][b] = Balance(b, m)

LEMMA ConservationIs == Conservation <=> Balanced
<1>1. ASSUME NEW m \in Model, NEW b \in Batch
      PROVE  Balance(b, m) = Count(tasks, LAMBDA t : t = b) + Unprocessed(b) + Unpopped(b, m)
                  + One(MergerHolds(b, m, {"merge"}))
                  + (IF topic_model_inc[m] = Nil THEN 0 ELSE topic_model_inc[m].n_wt[b])
  <2>1. Merged(m)[b] = IF topic_model_inc[m] = Nil THEN 0 ELSE topic_model_inc[m].n_wt[b]
    BY DEF Merged, NoCounts
  <2>2. QED
    BY <2>1 DEF Balance, Queued, Merging, One
<1>2. EnabledModels \subseteq Model
  BY DEF EnabledModels
<1>3. QED
  BY <1>1, <1>2 DEF Conservation, Balanced

\* The increments kept are counters.
LEMMA MergedCounts ==
  ASSUME InstanceInv, NEW m \in Model
  PROVE  Merged(m) \in Counters /\ \A b \in Batch : Merged(m)[b] \in Nat
BY DEF Merged, NoCounts, Counters, InstanceInv, MergerOK, MergerTypeOK, TopicModel

\* When all is calm there is nothing to count.
LEMMA CalmCounts == InstanceInv /\ SchemaInv /\ MarksInv /\ Calm => CountInv
<1> SUFFICES ASSUME InstanceInv, SchemaInv, MarksInv, Calm
    PROVE  CountInv
  OBVIOUS
<1>1. /\ \A b \in Batch : Queued(b) = 0 /\ Unprocessed(b) = 0
      /\ \A b \in Batch, m \in Model : Unpopped(b, m) = 0
      /\ merger.pc # "merge"
  BY NobodyHolds DEF Calm, Drained
<1>2. \A m \in Model : due[m] = NoCounts /\ topic_model_inc[m] = Nil /\ Merged(m) = NoCounts
  BY DEF Calm, Merged
<1>3. \A m \in Model, b \in Batch : due[m][b] = Balance(b, m)
  BY <1>1, <1>2 DEF Balance, Merging, MergerHolds, NoCounts
<1>4. Conservation
  BY <1>3, ConservationIs DEF Balanced, EnabledModels
<1>5. QED
  BY <1>2, <1>4 DEF CountInv, EnabledModels

\* Until WaitIdle pulls, only an increment that is merged changes the sums.
LEMMA MergedStays ==
  ASSUME InstanceInv, TasksInv, CalmInv, MergerStep, api.pc # "wait.pull"
  PROVE  MergerMerge \/ \A m \in Model : topic_model_inc'[m] = topic_model_inc[m]
<1>1. /\ topic_model_inc \in [Model -> TopicModel \cup {Nil}] /\ MergerThread
      /\ merger \in MergerState /\ internal_task_queue \in Seq(MergerTask)
  BY DEF InstanceInv, MergerOK, MergerTypeOK, MergerStep
<1>2. CASE MergerTaskStep
  <2>1. CASE internal_task_queue[1].task_type = "kDisposeModel"
    <3>1. quiet \/ api.pc = "invoke.reset"
      BY <1>1, <1>2, <2>1, TaskTaken DEF CalmInv
    <3>2. \A m \in Model : topic_model_inc[m] = Nil
      BY <3>1 DEF CalmInv, Calm
    <3>3. ~MergerMerge
      BY <1>2 DEF MergerTaskStep, MergerMerge
    <3>4. QED
      BY <1>1, <3>2, <3>3, IncrementsStay
  <2>2. CASE internal_task_queue[1].task_type # "kDisposeModel"
    BY <1>1, <1>2, <2>2, TaskTaken
  <2>3. QED
    BY <2>1, <2>2
<1>3. CASE MergerPull
  BY <1>3 DEF MergerPull, TasksInv, Forced
<1>4. CASE \/ MergerStop \/ MergerTop \/ MergerNoTask \/ MergerPop \/ MergerCallbackDone
           \/ MergerCallbackCache \/ MergerPullReturn
  BY <1>4
  DEF MergerStop, MergerTop, MergerNoTask, MergerPop, MergerCallbackDone, MergerCallbackCache,
      MergerPullReturn, mergerModels
<1>5. QED
  BY <1>1, <1>2, <1>3, <1>4 DEF MergerThread

\* ApplyDiff and Append: one more of the batch in the sums and in the scores.
Adds(c, k) ==
  /\ c = merger.increment.batch /\ k = merger.increment.model /\ k \in EnabledModels
  /\ merger.pc = "merge" /\ merger'.pc = "done" /\ merger'.increment = merger.increment
  /\ topic_model_inc'[k] # Nil
  /\ \A m \in Model : m # k => topic_model_inc'[m] = topic_model_inc[m]
  /\ Merged(k)' = [Merged(k) EXCEPT ![c] = @ + 1]
  /\ \A m \in Model : m # k => Merged(m)' = Merged(m)
  /\ scores' = [scores EXCEPT ![k] = [scores[k] EXCEPT ![c] = @ + 1]]

\* A merge adds exactly the increment it holds, to the sums and to the scores.
LEMMA MergerAdds ==
  ASSUME InstanceInv, InstanceInv', HoldersInv, MergerMerge
  PROVE  \E c \in Batch, k \in Model : Adds(c, k)
<1> DEFINE inc == merger.increment
           cur == topic_model[inc.model]
           old == IF topic_model_inc[inc.model] = Nil
                  THEN NewModel(cur.incarnation)
                  ELSE topic_model_inc[inc.model]
<1>1. /\ inc \in ModelIncrement /\ inc.model \in EnabledModels /\ merger.pc = "merge"
      /\ topic_model \in [Model -> TopicModel \cup {Nil}]
      /\ topic_model_inc \in [Model -> TopicModel \cup {Nil}]
      /\ scores \in [Model -> Counters] /\ merger \in MergerState
  BY DEF MergerMerge, InstanceInv, MergerOK, MergerTypeOK, MergerHoldsIncrement, HoldersInv,
         FitsModel
<1>2. PICK c \in Batch, k \in Model : c = inc.batch /\ k = inc.model
  BY <1>1 DEF ModelIncrement
<1>3. cur # Nil /\ cur \in TopicModel
  BY <1>1, <1>2
  DEF InstanceInv, ModelsInOrder, SchemaModelsExist, GetModelNames, EnabledModels
<1>4. old \in TopicModel /\ old.n_wt = Merged(k)
  BY <1>1, <1>2, <1>3 DEF NewModel, TopicModel, Merged, NoCounts, Counters
<1>5. /\ topic_model_inc' = [topic_model_inc EXCEPT ![k] = ApplyDiff(old, c)]
      /\ scores' = [scores EXCEPT ![k][c] = @ + 1]
      /\ merger' = [merger EXCEPT !.pc = "done"]
  BY <1>2, <1>3 DEF MergerMerge, MergerGoto
<1> HIDE DEF old, cur
<1>6. /\ ApplyDiff(old, c).n_wt = [Merged(k) EXCEPT ![c] = @ + 1]
      /\ ApplyDiff(old, c) \in TopicModel
  BY <1>4 DEF ApplyDiff, TopicModel, Counters
<1>7. /\ topic_model_inc'[k] = ApplyDiff(old, c) /\ topic_model_inc'[k] # Nil
      /\ \A m \in Model : m # k => topic_model_inc'[m] = topic_model_inc[m]
  BY <1>1, <1>5, <1>6, NilRecordAssumption
<1>8. /\ Merged(k)' = [Merged(k) EXCEPT ![c] = @ + 1]
      /\ \A m \in Model : m # k => Merged(m)' = Merged(m)
  BY <1>6, <1>7 DEF Merged
<1>9. scores' = [scores EXCEPT ![k] = [scores[k] EXCEPT ![c] = @ + 1]]
  BY <1>5
<1>10. merger'.pc = "done" /\ merger'.increment = merger.increment
  BY <1>1, <1>5 DEF MergerState
<1>11. Adds(c, k)
  BY <1>1, <1>2, <1>7, <1>8, <1>9, <1>10 DEF Adds
<1>12. QED
  BY <1>11

\* Conservation: each place that gives a copy up hands it to another.
LEMMA CountStep ==
  ASSUME InstanceInv, InstanceInv', SchemaInv, SchemaInv', CleanInv, GenerationInv, MarksInv,
         MarksInv', HoldersInv, TasksInv, CalmInv, CalmInv', CountInv, Disciplined, [Next]_vars
  PROVE  CountInv'
<1> DEFINE Kinds ==
             /\ \A m \in Model : schema[m] = "absent" =>
                  due[m] = NoCounts /\ topic_model_inc[m] = Nil
             /\ \A m, n \in EnabledModels : due[m] = due[n]
             /\ \A m \in Model : topic_model_inc[m] # Nil =>
                  \E b \in Batch : topic_model_inc[m].n_wt[b] > 0
           Pulling == {"wait.pull", "wait.done"}
<1>0. /\ Balanced /\ Kinds
      /\ Balanced' /\ Kinds' => CountInv'
      /\ EnabledModels \subseteq Model
  <2>1. Balanced' => Conservation'
    BY ConservationIs, PTL
  <2>2. QED
    BY <2>1, ConservationIs DEF CountInv, EnabledModels
<1>00. ASSUME NEW b \in Batch, NEW m \in Model
       PROVE  /\ Queued(b) \in Nat /\ Queued(b)' \in Nat
              /\ Unprocessed(b) \in Nat /\ Unprocessed(b)' \in Nat
              /\ Unpopped(b, m) \in Nat /\ Unpopped(b, m)' \in Nat
              /\ Merging(b, m) \in Nat /\ Merging(b, m)' \in Nat
              /\ Merged(m)[b] \in Nat
  <2>1. Places /\ Places'
    BY PlacesOK, PTL
  <2>2. QED
    BY <2>1, MergedCounts DEF Places, Merging
<1>1. ASSUME UNCHANGED <<schema, due>>, \A m \in Model : topic_model_inc'[m] = topic_model_inc[m]
      PROVE  /\ Kinds' /\ EnabledModels' = EnabledModels
             /\ \A m \in Model : Merged(m)' = Merged(m)
  BY <1>0, <1>1 DEF EnabledModels, Merged
<1>2. ASSUME UNCHANGED <<schema, due>>, \A m \in Model : topic_model_inc'[m] = topic_model_inc[m],
             Still, UNCHANGED tasks, \A b \in Batch, m \in Model : Merging(b, m)' = Merging(b, m),
             api.pc \notin Pulling \/ api'.pc \in Pulling
      PROVE  CountInv'
  <2>1. ASSUME NEW b \in Batch, NEW m \in EnabledModels
        PROVE  Balance(b, m)' = Balance(b, m)
    <3>1. m \in Model /\ Queued(b)' = Queued(b)
      BY <1>0, <1>2 DEF Queued, Count
    <3>2. QED
      BY <1>1, <1>2, <2>1, <3>1 DEF Balance, Still
  <2>2. Balanced'
    BY <1>0, <1>1, <1>2, <2>1 DEF Balanced
  <2>3. QED
    BY <1>0, <1>1, <1>2, <2>2
<1>3. UNCHANGED merger => \A b \in Batch, m \in Model : Merging(b, m)' = Merging(b, m)
  BY DEF Merging, MergerHolds
<1>4. CASE LoaderStep
  <2>1. UNCHANGED <<schema, due, topic_model_inc, merger, api>>
    BY <1>4, LoaderLeaves
  <2>2. CASE Still /\ UNCHANGED batchManagerVars
    BY <1>2, <1>3, <2>1, <2>2 DEF batchManagerVars
  <2>3. ASSUME NEW c \in Batch, Takes(c)
        PROVE  CountInv'
    <3>1. ASSUME NEW b \in Batch, NEW m \in EnabledModels
          PROVE  Balance(b, m)' = Balance(b, m)
      <4>0. m \in Model
        BY <1>0
      <4>1. /\ Unpopped(b, m)' = Unpopped(b, m) /\ Merging(b, m)' = Merging(b, m)
            /\ Merged(m)' = Merged(m)
            /\ Queued(b) + Unprocessed(b) = Queued(b)' + Unprocessed(b)'
        <5>1. Queued(b) + Unprocessed(b) = Queued(b)' + Unprocessed(b)'
          BY <1>00, <2>3, <4>0 DEF Takes
        <5>2. QED
          BY <1>1, <1>3, <2>1, <2>3, <4>0, <5>1 DEF Takes
      <4>2. QED
        BY <1>00, <4>0, <4>1 DEF Balance
    <3>2. Balanced'
      BY <1>0, <1>1, <2>1, <3>1 DEF Balanced
    <3>3. QED
      BY <1>0, <1>1, <2>1, <3>2
  <2>4. QED
    BY <1>4, <2>2, <2>3, LoaderFlow
<1>5. ASSUME NEW p \in Processors, ProcessorStep(p)
      PROVE  CountInv'
  <2>1. UNCHANGED <<schema, due, topic_model_inc, merger, api, tasks>>
    BY <1>5, ProcessorLeaves
  <2>2. CASE Still
    BY <1>2, <1>3, <2>1, <2>2
  <2>3. ASSUME NEW c \in Batch, Snapshots(c)
        PROVE  CountInv'
    <3>1. ASSUME NEW b \in Batch, NEW m \in EnabledModels
          PROVE  Balance(b, m)' = Balance(b, m)
      <4>0. m \in Model
        BY <1>0
      <4>1. /\ Queued(b)' = Queued(b) /\ Merging(b, m)' = Merging(b, m)
            /\ Merged(m)' = Merged(m)
            /\ Unprocessed(b) + Unpopped(b, m) = Unprocessed(b)' + Unpopped(b, m)'
        <5>1. Unprocessed(b) + Unpopped(b, m) = Unprocessed(b)' + Unpopped(b, m)'
          BY <1>00, <2>3, <3>1, <4>0 DEF Snapshots
        <5>2. Queued(b)' = Queued(b)
          BY <2>1 DEF Queued, Count
        <5>3. QED
          BY <1>1, <1>3, <2>1, <4>0, <5>1, <5>2
      <4>2. QED
        BY <1>00, <4>0, <4>1 DEF Balance
    <3>2. Balanced'
      BY <1>0, <1>1, <2>1, <3>1 DEF Balanced
    <3>3. QED
      BY <1>0, <1>1, <2>1, <3>2
  <2>4. QED
    BY <1>5, <2>2, <2>3, ProcessorFlow
<1>6. CASE MergerStep /\ api.pc \in Pulling
  <2>1. UNCHANGED <<schema, due, api>> /\ MergerThread
    BY <1>6, MergerLeaves DEF MergerStep
  <2>2. IsEverythingProcessed
    BY <1>6 DEF CalmInv
  <2>3. ~MergerMerge
    BY <1>6, <2>2, ProcessedStays
  <2>4. \A m \in Model : topic_model_inc'[m] \in {topic_model_inc[m], Nil}
    BY <2>1, <2>3, IncrementsStay DEF InstanceInv, MergerOK, MergerTypeOK
  <2>5. Balanced'
    BY <1>6, <2>1 DEF Balanced
  <2>6. Kinds'
    BY <1>0, <2>1, <2>4 DEF EnabledModels
  <2>7. QED
    BY <1>0, <2>5, <2>6
<1>7. CASE MergerStep /\ api.pc \notin Pulling
  <2>1. UNCHANGED <<schema, due, api, tasks>> /\ MergerThread /\ merger \in MergerState
    BY <1>7, MergerLeaves DEF MergerStep, InstanceInv, MergerOK, MergerTypeOK
  <2>2. CASE MergerMerge
    <3>1. PICK c \in Batch, k \in Model : Adds(c, k)
      BY <2>2, MergerAdds
    <3>2. Still
      BY <1>7, <2>2, MergerFlow DEF MergerMerge, MergerPop
    <3>3. ASSUME NEW b \in Batch, NEW m \in EnabledModels
          PROVE  Balance(b, m)' = Balance(b, m)
      <4>0. m \in Model
        BY <1>0
      <4>1. /\ Unpopped(b, m)' = Unpopped(b, m) /\ Unprocessed(b)' = Unprocessed(b)
            /\ Queued(b)' = Queued(b)
        BY <2>1, <3>2, <4>0 DEF Still, Queued, Count
      <4>2. Merging(b, m) + Merged(m)[b] = Merging(b, m)' + (Merged(m)[b])'
        <5>1. Merged(m) \in Counters /\ Merged(m)[b] \in Nat
          BY <4>0, MergedCounts
        <5>2. Merging(b, m) = (IF b = c /\ m = k THEN 1 ELSE 0) /\ Merging(b, m)' = 0
          BY <3>1 DEF Adds, Merging, MergerHolds
        <5>3. (Merged(m)[b])' = IF b = c /\ m = k THEN Merged(m)[b] + 1 ELSE Merged(m)[b]
          BY <3>1, <4>0, <5>1 DEF Adds, Counters
        <5>4. QED
          BY <5>1, <5>2, <5>3
      <4>3. (Merged(m)[b])' \in Nat
        BY <4>0, <3>1, MergedCounts DEF Adds, Counters
      <4>4. QED
        BY <1>00, <4>0, <4>1, <4>2, <4>3 DEF Balance
    <3>4. EnabledModels' = EnabledModels
      BY <2>1 DEF EnabledModels
    <3>5. Balanced'
      BY <1>0, <1>7, <2>1, <3>3, <3>4 DEF Balanced
    <3>6. Kinds'
      <4>1. /\ schema[k] # "absent" /\ topic_model_inc'[k] # Nil
            /\ \A m \in Model : m # k => topic_model_inc'[m] = topic_model_inc[m]
        BY <3>1 DEF Adds, EnabledModels
      <4>2. topic_model_inc'[k].n_wt[c] > 0
        <5>1. topic_model_inc'[k].n_wt = Merged(k)'
          BY <3>1 DEF Adds, Merged
        <5>2. Merged(k)'[c] = Merged(k)[c] + 1 /\ Merged(k)[c] \in Nat
          BY <3>1, MergedCounts DEF Adds, Counters
        <5>3. QED
          BY <5>1, <5>2
      <4>3. QED
        BY <1>0, <2>1, <3>4, <4>1, <4>2
    <3>7. QED
      BY <1>0, <3>5, <3>6
  <2>3. CASE MergerPop /\ merger_queue # <<>> /\ merger'.pc = "merge"
    <3>1. PICK c \in Batch, k \in Model :
            c = merger'.increment.batch /\ k = merger'.increment.model /\ Pops(c, k)
      <4>1. ~(UNCHANGED merger_queue)
        BY <2>3, HeadTailProperties DEF MergerPop, InstanceInv, MergerOK, MergerTypeOK
      <4>2. QED
        BY <1>7, <4>1, MergerFlow
    <3>2. \A m \in Model : topic_model_inc'[m] = topic_model_inc[m]
      BY <2>3 DEF MergerPop, mergerModels
    <3>3. ASSUME NEW b \in Batch, NEW m \in EnabledModels
          PROVE  Balance(b, m)' = Balance(b, m)
      <4>0. m \in Model
        BY <1>0
      <4>1. /\ Unprocessed(b)' = Unprocessed(b) /\ Queued(b)' = Queued(b)
            /\ Merged(m)' = Merged(m)
        BY <1>1, <2>1, <3>1, <3>2, <4>0 DEF Pops, Queued, Count
      <4>2. Unpopped(b, m) = Unpopped(b, m)' + (IF b = c /\ m = k THEN 1 ELSE 0)
        BY <1>00, <3>1, <4>0 DEF Pops
      <4>3. Merging(b, m) = 0 /\ Merging(b, m)' = IF b = c /\ m = k THEN 1 ELSE 0
        BY <2>3, <3>1 DEF Merging, MergerHolds, MergerPop
      <4>4. QED
        BY <1>00, <4>0, <4>1, <4>2, <4>3 DEF Balance
    <3>4. Balanced'
      BY <1>0, <1>1, <2>1, <3>2, <3>3 DEF Balanced
    <3>5. QED
      BY <1>0, <1>1, <2>1, <3>2, <3>4
  <2>4. CASE ~MergerMerge /\ ~(MergerPop /\ merger_queue # <<>>)
    <3>1. Still
      BY <1>7, <2>4, MergerFlow
    <3>2. \A m \in Model : topic_model_inc'[m] = topic_model_inc[m]
      BY <1>7, <2>4, MergedStays
    <3>3. merger.pc # "merge" /\ merger'.pc # "merge"
      BY <2>1, <2>4, MergerGoes DEF Idle
    <3>4. \A b \in Batch, m \in Model : Merging(b, m)' = Merging(b, m)
      BY <3>3 DEF Merging, MergerHolds
    <3>5. QED
      BY <1>2, <1>7, <2>1, <3>1, <3>2, <3>4
  <2>5. QED
    BY <2>1, <2>2, <2>3, <2>4, MergerGoes DEF MergerPop
<1>8. CASE ApiCall \/ ApiThread
  <2>0. Still /\ UNCHANGED merger /\ \A b \in Batch, m \in Model : Merging(b, m)' = Merging(b, m)
    BY <1>3, <1>8, ApiFlow
  <2>1. ASSUME quiet' \/ api'.pc = "invoke.reset"
        PROVE  CountInv'
    <3>1. Calm'
      BY <2>1 DEF CalmInv
    <3>2. QED
      BY <3>1, CalmCounts, PTL
  <2>2. CASE \/ CreateModelSchema \/ DisposeModelMerger \/ DisposeModelBatches \/ WaitReturn
             \/ \E m \in Model, s \in CreateStatuses : CreateModel(m, s)
             \/ \E m \in DisposableModels : DisposeModel(m)
    <3>1. CASE CreateModelSchema \/ DisposeModelMerger \/ DisposeModelBatches
      <4>1. UNCHANGED quiet
        BY <3>1 DEF CreateModelSchema, DisposeModelMerger, DisposeModelBatches
      <4>2. quiet
        BY <3>1, ApiPcs DEF CalmInv
      <4>3. QED
        BY <2>1, <4>1, <4>2
    <3>2. CASE \/ \E m \in Model, s \in CreateStatuses : CreateModel(m, s)
               \/ \E m \in DisposableModels : DisposeModel(m)
      <4>1. quiet
        BY <3>2, Zenon DEF CreateModel, DisposeModel, Call, Disciplined
      <4>2. UNCHANGED quiet
        BY <3>2, Zenon DEF CreateModel, DisposeModel
      <4>3. QED
        BY <2>1, <4>1, <4>2
    <3>3. CASE WaitReturn
      BY <2>1, <3>3 DEF WaitReturn
    <3>4. QED
      BY <2>2, <3>1, <3>2, <3>3
  <2>3. CASE \E n \in IterationCounts : n # 0 /\ InvokeIteration(n)
    BY <2>1, <2>3, ApiPcs
  <2>4. CASE Plain \/ AddBatchCall \/ InvokeGeneration \/ WaitPush \/ WaitPull \/ WaitPulled
    <3>1. UNCHANGED <<schema, due, topic_model_inc, tasks>>
      BY <2>4, Zenon
      DEF Plain, AddBatchCall, AddBatch, InvokeGeneration, WaitPush, WaitPull, WaitPulled,
          mergerVars, mergerInternals, batchManagerVars
    <3>2. api.pc \notin Pulling \/ api'.pc \in Pulling
      BY <2>4, ApiPcs DEF Plain, PlainPc
    <3>3. QED
      BY <1>2, <2>0, <3>1, <3>2
  <2>5. CASE InvokeAdd
    <3> DEFINE c == Min(api.todo)
    <3>1. /\ c \in Batch /\ tasks' = Append(tasks, c)
          /\ due' = [m \in Model |-> IF m \in EnabledModels
                                     THEN [due[m] EXCEPT ![c] = @ + 1] ELSE due[m]]
          /\ UNCHANGED <<schema, topic_model_inc>>
          /\ api.pc = "invoke.add" /\ api'.pc \in {"invoke.add", "ready"}
      <4>1. c \in Batch
        BY <2>5, MinOfBatches DEF InvokeAdd, At, InstanceInv, ApiOK, CallHolds, ApiState
      <4>2. QED
        BY <2>5, <4>1, ApiPcs DEF InvokeAdd, Add, mergerVars
    <3> HIDE DEF c
    <3>2. EnabledModels' = EnabledModels
      BY <3>1 DEF EnabledModels
    <3>3. ASSUME NEW b \in Batch, NEW m \in EnabledModels
          PROVE  due'[m][b] = Balance(b, m)'
      <4>0. m \in Model /\ due[m] \in Counters
        BY <1>0 DEF InstanceInv, ApiOK
      <4>1. Queued(b)' = Queued(b) + (IF b = c THEN 1 ELSE 0)
        <5>1. Where(tasks', {b}) = Where(tasks, {b}) + One(c \in {b})
          BY <3>1, WhereAppend DEF InstanceInv, BatchManagerTypeOK
        <5>2. QED
          BY <5>1, UnprocessedIs DEF One
      <4>2. /\ Unprocessed(b)' = Unprocessed(b) /\ Unpopped(b, m)' = Unpopped(b, m)
            /\ Merging(b, m)' = Merging(b, m) /\ Merged(m)' = Merged(m)
        BY <2>0, <3>1, <4>0 DEF Still, Merged
      <4>3. due'[m][b] = due[m][b] + (IF b = c THEN 1 ELSE 0)
        BY <3>1, <4>0 DEF Counters
      <4>4. due[m][b] = Balance(b, m)
        BY <1>0, <3>1 DEF Balanced
      <4>5. QED
        BY <1>00, <4>0, <4>1, <4>2, <4>3, <4>4 DEF Balance
    <3>4. Balanced'
      BY <3>2, <3>3 DEF Balanced
    <3>5. Kinds'
      <4>1. \A m \in Model : schema[m] = "absent" => due'[m] = due[m]
        BY <3>1 DEF EnabledModels
      <4>2. ASSUME NEW m \in EnabledModels, NEW n \in EnabledModels
            PROVE  due'[m] = due'[n]
        BY <1>0, <3>1
      <4>3. QED
        BY <1>0, <3>1, <3>2, <4>1, <4>2
    <3>6. QED
      BY <1>0, <3>4, <3>5
  <2>6. QED
    BY <1>8, <2>2, <2>3, <2>4, <2>5, ApiCases
<1>9. CASE UNCHANGED vars
  <2>1. UNCHANGED <<schema, due, topic_model_inc, tasks, merger, api, loader, processor_queue,
                    merger_queue, processor>>
    BY <1>9 DEF vars, batchManagerVars, dataLoaderVars, mergerVars, processorVars, apiVars
  <2>2. Still
    BY <2>1, NothingMoves
  <2>3. QED
    BY <1>2, <1>3, <2>1, <2>2
<1>10. QED
  BY <1>4, <1>5, <1>6, <1>7, <1>8, <1>9 DEF Next

-----------------------------------------------------------------------------
(* The pull.                                                               *)
\* The tasks that are not disposals belong to the call that waits for them.
LEMMA TaskOfCall ==
  ASSUME TasksInv, internal_task_queue # <<>>, Len(internal_task_queue) \in Nat,
         Len(internal_task_queue) > 0
  PROVE  LET type == internal_task_queue[1].task_type IN
         /\ type = "kForcePullTopicModel" => api.pc = "wait.pull" /\ ~sync_event
         /\ type = "kForcePushTopicModelIncrement" => api.pc = "wait.push"
         /\ type = "kForceResetScores" => api.pc = "invoke.reset"
<1> DEFINE type == internal_task_queue[1].task_type
           n == Len(internal_task_queue)
<1>1. ASSUME NEW k, Forced(k)
      PROVE  ~sync_event /\ type \in {"kDisposeModel", k}
  BY <1>1 DEF Forced, OnlyDisposals
<1>2. CASE api.pc \notin {"invoke.reset", "wait.push", "wait.pull"}
  BY <1>2 DEF TasksInv, OnlyDisposals
<1>3. CASE api.pc \in {"invoke.reset", "wait.push", "wait.pull"}
  BY <1>1, <1>3 DEF TasksInv
<1>4. QED
  BY <1>2, <1>3

\* A pull is only under way while WaitIdle waits for it.
LEMMA PullOfCall ==
  ASSUME TasksInv, merger.pc = "pull"
  PROVE  api.pc = "wait.pull" /\ ~sync_event
BY DEF TasksInv, Forced

LEMMA PullStep ==
  ASSUME InstanceInv, InstanceInv', SchemaInv, CleanInv, GenerationInv, MarksInv, HoldersInv,
         TasksInv, CalmInv, CountInv, PullInv, Disciplined, [Next]_vars
  PROVE  PullInv'
<1> DEFINE Walk == /\ merger.pc = "pull" => merger.todo \subseteq EnabledModels
                   /\ merger.pc # "pull" => merger.todo = {}
           Ahead(m) == ~sync_event /\ (merger.pc = "pull" => m \in merger.todo)
           Pull == api.pc = "wait.pull" => \A m \in EnabledModels :
                     IF Ahead(m) THEN Merged(m) = due[m] ELSE Pulled(m)
           Finished == api.pc = "wait.done" => \A m \in EnabledModels : Pulled(m)
<1>0. /\ Walk /\ Pull /\ Finished
      /\ PullInv' <=> Walk' /\ Pull' /\ Finished'
      /\ EnabledModels \subseteq Model
  BY DEF PullInv, EnabledModels
<1>01. /\ merger \in MergerState /\ internal_task_queue \in Seq(MergerTask)
       /\ topic_model \in [Model -> TopicModel \cup {Nil}]
       /\ topic_model_inc \in [Model -> TopicModel \cup {Nil}]
       /\ due \in [Model -> Counters]
  BY DEF InstanceInv, MergerOK, MergerTypeOK, ApiOK
<1>1. ASSUME UNCHANGED <<schema, due>>, NEW m \in Model, topic_model_inc'[m] = topic_model_inc[m],
             topic_model'[m] = topic_model[m]
      PROVE  Merged(m)' = Merged(m) /\ (Pulled(m)' <=> Pulled(m))
  BY <1>1 DEF Merged, Pulled
<1>2. ASSUME UNCHANGED <<schema, due, api, sync_event>>,
             merger'.pc = "pull" <=> merger.pc = "pull", merger'.todo = merger.todo,
             \/ api.pc \notin {"wait.pull", "wait.done"}
             \/ \A m \in Model :
                  topic_model_inc'[m] = topic_model_inc[m] /\ topic_model'[m] = topic_model[m]
      PROVE  PullInv'
  <2>1. EnabledModels' = EnabledModels /\ Walk'
    BY <1>0, <1>2 DEF EnabledModels
  <2>2. CASE api.pc \notin {"wait.pull", "wait.done"}
    BY <1>0, <1>2, <2>1, <2>2
  <2>3. CASE \A m \in Model :
               topic_model_inc'[m] = topic_model_inc[m] /\ topic_model'[m] = topic_model[m]
    <3>1. \A m \in EnabledModels : Merged(m)' = Merged(m) /\ (Pulled(m)' <=> Pulled(m))
      BY <1>0, <1>1, <1>2, <2>3
    <3>2. Finished'
      BY <1>0, <1>2, <2>1, <3>1
    <3>3. \A m \in EnabledModels : Ahead(m)' <=> Ahead(m)
      BY <1>2
    <3>4. Pull'
      <4>1. SUFFICES ASSUME api.pc = "wait.pull", NEW m \in EnabledModels
            PROVE  IF Ahead(m)' THEN Merged(m)' = due[m] ELSE Pulled(m)'
        BY <1>2, <2>1
      <4>2. IF Ahead(m) THEN Merged(m) = due[m] ELSE Pulled(m)
        BY <1>0, <4>1
      <4> HIDE DEF Ahead
      <4>3. QED
        BY <3>1, <3>3, <4>2
    <3>5. QED
      BY <1>0, <2>1, <3>2, <3>4
  <2>4. QED
    BY <1>2, <2>2, <2>3
<1>3. CASE LoaderStep \/ UNCHANGED vars \/ \E p \in Processors : ProcessorStep(p)
  <2>1. UNCHANGED <<schema, due, api, sync_event, merger, topic_model, topic_model_inc>>
    BY <1>3, LoaderLeaves, ProcessorLeaves DEF vars, mergerVars, apiVars
  <2>2. QED
    BY <1>2, <2>1
<1>4. CASE MergerStep
  <2>0. UNCHANGED <<schema, due, api>> /\ MergerThread /\ EnabledModels' = EnabledModels
    BY <1>4, MergerLeaves DEF MergerStep, EnabledModels
  <2>1. CASE MergerTaskStep
    <3>1. /\ merger.pc = "tasks" /\ UNCHANGED topic_model
          /\ internal_task_queue # <<>> /\ Len(internal_task_queue) \in Nat
          /\ Len(internal_task_queue) > 0
      BY <1>01, <2>1, TaskTaken DEF MergerTaskStep
    <3>2. CASE internal_task_queue[1].task_type = "kDisposeModel"
      <4>1. UNCHANGED <<sync_event, merger>>
        BY <1>01, <2>1, <3>2, TaskTaken
      <4>2. ~MergerMerge
        BY <3>1 DEF MergerMerge
      <4>3. quiet \/ api.pc = "invoke.reset"
        BY <3>1, <3>2 DEF CalmInv
      <4>4. \A m \in Model : topic_model_inc'[m] = topic_model_inc[m]
        BY <1>01, <2>0, <4>2, <4>3, IncrementsStay DEF CalmInv, Calm
      <4>5. QED
        BY <1>2, <2>0, <3>1, <4>1, <4>4
    <3>3. CASE internal_task_queue[1].task_type = "kForcePullTopicModel"
      <4>1. /\ UNCHANGED <<sync_event, topic_model_inc>> /\ merger'.pc = "pull"
            /\ merger'.todo = {m \in Model : topic_model[m] # Nil}
        BY <1>01, <2>1, <3>3, TaskTaken
      <4>2. api.pc = "wait.pull" /\ ~sync_event
        BY <3>1, <3>3, TaskOfCall
      <4>3. merger'.todo = EnabledModels
        BY <4>1, <4>2
        DEF EnabledModels, SchemaInv, InstanceInv, SchemaTypeOK, ModelStatus, ModelsInOrder,
            SchemaModelsExist, GetModelNames
      <4>4. \A m \in EnabledModels : Merged(m)' = due[m]
        BY <1>0, <1>1, <2>0, <3>1, <4>1, <4>2
      <4>5. QED
        BY <1>0, <2>0, <4>1, <4>2, <4>3, <4>4
    <3>4. CASE internal_task_queue[1].task_type \in
                 {"kForcePushTopicModelIncrement", "kForceResetScores"}
      <4>1. UNCHANGED <<merger, topic_model_inc>>
        BY <1>01, <2>1, <3>4, TaskTaken
      <4>2. api.pc \in {"wait.push", "invoke.reset"}
        BY <3>1, <3>4, TaskOfCall
      <4>3. Walk' /\ Pull' /\ Finished'
        BY <1>0, <2>0, <4>1, <4>2
      <4>4. QED
        BY <1>0, <4>3
    <3>5. QED
      BY <1>01, <2>1, <3>2, <3>3, <3>4, TaskTaken
  <2>2. CASE MergerPull
    <3>1. PICK k \in Model : k = Min(merger.todo) /\ k \in merger.todo
      BY <1>01, <2>2, MinOfModels DEF MergerPull, MergerState
    <3>2. /\ merger.pc = "pull" /\ topic_model[k] # Nil /\ topic_model_inc[k] # Nil
          /\ topic_model' = [topic_model EXCEPT ![k].n_wt = topic_model_inc[k].n_wt]
          /\ topic_model_inc' = [topic_model_inc EXCEPT ![k] = Nil]
          /\ merger' = [merger EXCEPT !.todo = @ \ {k}]
          /\ UNCHANGED sync_event
      BY <2>2, <3>1 DEF MergerPull, PullStops
    <3>3. api.pc = "wait.pull" /\ ~sync_event
      BY <3>2, PullOfCall
    <3>4. merger'.pc = "pull" /\ merger'.todo = merger.todo \ {k}
      BY <1>01, <3>2 DEF MergerState
    <3>5. k \in EnabledModels /\ Merged(k) = due[k]
      BY <1>0, <3>1, <3>2, <3>3
    <3>6. Pulled(k)'
      <4>1. topic_model_inc'[k] = Nil
        BY <1>01, <3>2
      <4>2. topic_model'[k].n_wt = topic_model_inc[k].n_wt
        BY <1>01, <3>2 DEF TopicModel
      <4>3. topic_model_inc[k].n_wt = due[k]
        BY <3>2, <3>5 DEF Merged
      <4>4. QED
        BY <2>0, <4>1, <4>2, <4>3 DEF Pulled
    <3>7. ASSUME NEW m \in EnabledModels, m # k
          PROVE  Merged(m)' = Merged(m) /\ (Pulled(m)' <=> Pulled(m))
      <4>1. topic_model_inc'[m] = topic_model_inc[m] /\ topic_model'[m] = topic_model[m]
        BY <1>0, <1>01, <3>2, <3>7
      <4>2. QED
        BY <1>0, <1>1, <2>0, <4>1
    <3>8. Pull'
      <4> SUFFICES ASSUME NEW m \in EnabledModels
          PROVE  IF ~sync_event /\ m \in merger.todo \ {k} THEN Merged(m)' = due[m] ELSE Pulled(m)'
        BY <2>0, <3>2, <3>4
      <4>1. IF m \in merger.todo THEN Merged(m) = due[m] ELSE Pulled(m)
        BY <1>0, <3>2, <3>3
      <4>2. QED
        BY <3>1, <3>3, <3>6, <3>7, <4>1
    <3>9. QED
      BY <1>0, <2>0, <3>2, <3>3, <3>4, <3>8
  <2>3. CASE MergerPullReturn
    <3>1. /\ merger.pc = "pull" /\ sync_event' = TRUE
          /\ merger'.pc = "tasks" /\ merger'.todo = {}
          /\ UNCHANGED <<topic_model, topic_model_inc>>
      BY <1>01, <2>3 DEF MergerPullReturn, MergerState, mergerModels
    <3>2. api.pc = "wait.pull" /\ ~sync_event
      BY <3>1, PullOfCall
    <3>3. \A m \in EnabledModels : Pulled(m)
      <4>1. CASE merger.todo = {}
        BY <1>0, <3>1, <3>2, <4>1
      <4>2. CASE merger.todo # {}
        <5>1. PICK k \in Model : k = Min(merger.todo) /\ k \in merger.todo
          BY <1>01, <4>2, MinOfModels DEF MergerState
        <5>2. k \in EnabledModels /\ PullStops(k)
          BY <1>0, <2>3, <3>1, <4>2, <5>1 DEF MergerPullReturn
        <5>3. topic_model_inc[k] = Nil
          BY <5>2
          DEF PullStops, EnabledModels, InstanceInv, ModelsInOrder, SchemaModelsExist, GetModelNames
        <5>4. due[k] = NoCounts
          BY <1>0, <3>1, <3>2, <5>1, <5>2, <5>3 DEF Merged
        <5>5. ASSUME NEW m \in EnabledModels PROVE Pulled(m)
          <6>1. due[m] = NoCounts
            BY <5>2, <5>4 DEF CountInv
          <6>2. CASE m \in merger.todo
            <7>1. Merged(m) = NoCounts
              BY <1>0, <3>1, <3>2, <6>1, <6>2
            <7>2. topic_model_inc[m] = Nil
              BY <1>0, <7>1 DEF CountInv, Merged, NoCounts
            <7>3. QED
              BY <6>1, <7>2 DEF Pulled
          <6>3. CASE m \notin merger.todo
            BY <1>0, <3>1, <3>2, <6>3
          <6>4. QED
            BY <6>2, <6>3
        <5>6. QED
          BY <5>5
      <4>3. QED
        BY <4>1, <4>2
    <3>4. \A m \in EnabledModels : Pulled(m)'
      BY <1>0, <1>1, <2>0, <3>1, <3>3
    <3>5. QED
      BY <1>0, <2>0, <3>1, <3>2, <3>4
  <2>4. CASE \/ MergerStop \/ MergerTop \/ MergerNoTask \/ MergerPop \/ MergerCallbackDone
             \/ MergerCallbackCache
    <3>1. UNCHANGED <<sync_event, topic_model, topic_model_inc>>
      BY <2>4, Zenon
      DEF MergerStop, MergerTop, MergerNoTask, MergerPop, MergerCallbackDone, MergerCallbackCache,
          mergerModels
    <3>2. (merger'.pc = "pull" <=> merger.pc = "pull") /\ merger'.todo = merger.todo
      <4> USE DEF MergerState, MergerGoto
      <4>1. CASE \/ MergerStop \/ MergerTop \/ MergerNoTask \/ MergerCallbackDone
                 \/ MergerCallbackCache
        BY <1>01, <4>1
        DEF MergerStop, MergerTop, MergerNoTask, MergerCallbackDone, MergerCallbackCache
      <4>2. CASE MergerPop
        BY <1>01, <4>2 DEF MergerPop
      <4>3. QED
        BY <2>4, <4>1, <4>2
    <3>3. QED
      BY <1>2, <2>0, <3>1, <3>2
  <2>5. CASE MergerMerge
    <3>1. UNCHANGED sync_event /\ merger'.todo = merger.todo /\ merger'.pc # "pull"
          /\ merger.pc # "pull"
      BY <1>01, <2>5 DEF MergerMerge, MergerGoto, MergerState
    <3>2. api.pc \notin {"wait.pull", "wait.done"}
      BY <1>4, <2>5, ProcessedStays DEF CalmInv
    <3>3. QED
      BY <1>2, <2>0, <3>1, <3>2
  <2>6. QED
    BY <2>0, <2>1, <2>2, <2>3, <2>4, <2>5 DEF MergerThread
<1>5. CASE ApiCall \/ ApiThread
  <2>1. UNCHANGED merger
    BY <1>5, ApiFlow
  <2>2. CASE \/ Plain \/ AddBatchCall \/ CreateModelSchema \/ DisposeModelMerger
             \/ DisposeModelBatches \/ InvokeGeneration \/ InvokeAdd \/ WaitPush \/ WaitReturn
             \/ \E m \in Model, s \in CreateStatuses : CreateModel(m, s)
             \/ \E m \in DisposableModels : DisposeModel(m)
             \/ \E n \in IterationCounts : n # 0 /\ InvokeIteration(n)
    <3>1. api.pc # "wait.pull" /\ api'.pc \notin {"wait.pull", "wait.done"}
      BY <2>2, ApiPcs DEF Plain, PlainPc
    <3>2. merger.pc # "pull"
      BY <3>1, PullOfCall
    <3>3. QED
      BY <1>0, <2>1, <3>1, <3>2
  <2>3. CASE WaitPull
    <3>1. /\ api.pc = "wait.push" /\ api'.pc = "wait.pull" /\ sync_event /\ ~sync_event'
          /\ UNCHANGED <<schema, due, topic_model, topic_model_inc>>
      BY <2>3, ApiPcs DEF WaitPull, ForceTask, mergerInternals
    <3>2. merger.pc # "pull"
      BY <3>1, PullOfCall
    <3>3. ASSUME NEW m \in EnabledModels PROVE Merged(m)' = due[m]
      <4>0. m \in Model /\ due[m] \in Counters /\ Merged(m) \in Counters
        BY <1>0, <1>01, MergedCounts
      <4>1. IsEverythingProcessed
        BY <3>1 DEF CalmInv
      <4>2. ASSUME NEW b \in Batch PROVE due[m][b] = Merged(m)[b]
        <5>1. /\ Queued(b) = 0 /\ Unprocessed(b) = 0 /\ Unpopped(b, m) = 0
              /\ Merging(b, m) = 0
          BY <4>0, <4>1, NobodyHolds DEF Merging, MergerHolds
        <5>2. due[m][b] = Balance(b, m)
          BY <3>1, ConservationIs DEF CountInv, Balanced
        <5>3. Merged(m)[b] \in Nat
          BY <4>0, MergedCounts
        <5>4. QED
          BY <5>1, <5>2, <5>3 DEF Balance
      <4>3. due[m] = Merged(m)
        BY <4>0, <4>2 DEF Counters
      <4>4. QED
        BY <1>1, <3>1, <4>0, <4>3
    <3>4. EnabledModels' = EnabledModels
      BY <3>1 DEF EnabledModels
    <3>5. QED
      BY <1>0, <2>1, <3>1, <3>2, <3>3, <3>4
  <2>4. CASE WaitPulled
    <3>1. /\ api.pc = "wait.pull" /\ api'.pc = "wait.done" /\ sync_event
          /\ UNCHANGED <<schema, due, topic_model, topic_model_inc>>
      BY <2>4, ApiPcs DEF WaitPulled, mergerVars
    <3>2. merger.pc # "pull" /\ EnabledModels' = EnabledModels
      BY <3>1, PullOfCall DEF EnabledModels
    <3>3. \A m \in EnabledModels : Pulled(m)'
      BY <1>0, <1>1, <3>1
    <3>4. QED
      BY <1>0, <2>1, <3>1, <3>2, <3>3
  <2>5. QED
    BY <1>5, <2>2, <2>3, <2>4, ApiCases
<1>6. QED
  BY <1>3, <1>4, <1>5 DEF Next

-----------------------------------------------------------------------------
(* Scores and the theta cache.                                             *)
\* When WaitIdle queues the pull, the sums are what is due.
LEMMA SumsAreDue ==
  ASSUME InstanceInv, TasksInv, PullInv', WaitPull
  PROVE  /\ EnabledModels' = EnabledModels
         /\ \A m \in EnabledModels : Merged(m)' = due'[m] /\ Merged(m)' = Merged(m)
<1>1. /\ api.pc = "wait.push" /\ api'.pc = "wait.pull" /\ ~sync_event'
      /\ UNCHANGED <<schema, merger, topic_model_inc>>
  BY ApiPcs DEF WaitPull, ForceTask, mergerInternals
<1>2. merger'.pc # "pull"
  BY <1>1, PullOfCall
<1>3. EnabledModels' = EnabledModels /\ \A m \in EnabledModels : Merged(m)' = Merged(m)
  BY <1>1 DEF EnabledModels, Merged
<1>4. QED
  BY <1>1, <1>2, <1>3 DEF PullInv

LEMMA ScoresStep ==
  ASSUME InstanceInv, InstanceInv', SchemaInv, CleanInv, GenerationInv, MarksInv, HoldersInv,
         TasksInv, CalmInv, CalmInv', PullInv', ScoresInv, Disciplined, [Next]_vars
  PROVE  ScoresInv'
<1> DEFINE Pulling == {"wait.pull", "wait.done"}
           Appended == ~quiet /\ api.pc # "invoke.reset" =>
             \A m \in EnabledModels :
               scores[m] = IF api.pc \in Pulling THEN due[m] ELSE Merged(m)
           Reset == api.pc = "invoke.reset" /\ sync_event => scores = ResetScores
<1>0. /\ Appended /\ Reset
      /\ ScoresInv' <=> Appended' /\ Reset'
      /\ EnabledModels \subseteq Model
  BY DEF ScoresInv, EnabledModels
<1>01. /\ merger \in MergerState /\ internal_task_queue \in Seq(MergerTask)
       /\ topic_model_inc \in [Model -> TopicModel \cup {Nil}]
       /\ scores \in [Model -> Counters]
  BY DEF InstanceInv, MergerOK, MergerTypeOK, ApiOK
<1>1. ASSUME UNCHANGED <<schema, due, scores, quiet>>,
             UNCHANGED sync_event \/ api'.pc # "invoke.reset",
             \/ UNCHANGED api
             \/ /\ api.pc # "invoke.reset" /\ api'.pc # "invoke.reset"
                /\ api.pc \in Pulling <=> api'.pc \in Pulling,
             api.pc \in Pulling \/ \A m \in Model : topic_model_inc'[m] = topic_model_inc[m]
      PROVE  ScoresInv'
  <2>1. EnabledModels' = EnabledModels
    BY <1>1 DEF EnabledModels
  <2>2. api.pc \in Pulling \/ \A m \in EnabledModels : Merged(m)' = Merged(m)
    BY <1>0, <1>1 DEF Merged
  <2>3. Appended'
    <3>1. CASE api.pc \in Pulling
      BY <1>0, <1>1, <2>1, <3>1
    <3>2. CASE api.pc \notin Pulling
      BY <1>0, <1>1, <2>1, <2>2, <3>2
    <3>3. QED
      BY <3>1, <3>2
  <2>4. Reset'
    BY <1>0, <1>1
  <2>5. QED
    BY <1>0, <2>3, <2>4
<1>2. CASE LoaderStep \/ UNCHANGED vars \/ \E p \in Processors : ProcessorStep(p)
  <2>1. UNCHANGED <<schema, due, scores, quiet, api, sync_event, topic_model_inc>>
    BY <1>2, LoaderLeaves, ProcessorLeaves DEF vars, mergerVars, apiVars
  <2>2. QED
    BY <1>1, <2>1
<1>3. CASE MergerStep
  <2>0. UNCHANGED <<schema, due, quiet, api>> /\ MergerThread /\ EnabledModels' = EnabledModels
    BY <1>3, MergerLeaves DEF MergerStep, EnabledModels
  <2>1. CASE MergerTaskStep
    <3>1. /\ internal_task_queue # <<>> /\ Len(internal_task_queue) \in Nat
          /\ Len(internal_task_queue) > 0 /\ ~MergerMerge
      BY <1>01, <2>1, TaskTaken DEF MergerTaskStep, MergerMerge
    <3>2. CASE internal_task_queue[1].task_type = "kForceResetScores"
      <4>1. api.pc = "invoke.reset" /\ scores' = ResetScores
        BY <1>01, <2>1, <3>1, <3>2, TaskTaken, TaskOfCall
      <4>2. scores' = ResetScores'
        BY <4>1 DEF ResetScores, NoCounts
      <4>3. QED
        BY <1>0, <2>0, <4>1, <4>2
    <3>3. CASE internal_task_queue[1].task_type # "kForceResetScores"
      <4>1. /\ UNCHANGED scores
            /\ UNCHANGED sync_event \/ api.pc = "wait.push"
        BY <1>01, <2>1, <3>1, <3>3, TaskTaken, TaskOfCall
      <4>2. api.pc \in Pulling \/ \A m \in Model : topic_model_inc'[m] = topic_model_inc[m]
        BY <1>3, <3>1, MergedStays
      <4>3. QED
        BY <1>1, <2>0, <4>1, <4>2
    <3>4. QED
      BY <3>2, <3>3
  <2>2. CASE MergerPull \/ MergerPullReturn
    <3>1. merger.pc = "pull" /\ UNCHANGED scores
      BY <2>2 DEF MergerPull, MergerPullReturn
    <3>2. api.pc = "wait.pull"
      BY <3>1, PullOfCall
    <3>3. QED
      BY <1>1, <2>0, <3>1, <3>2
  <2>3. CASE MergerMerge
    <3>1. PICK c \in Batch, k \in Model : Adds(c, k)
      BY <2>3, MergerAdds
    <3>2. ~IsEverythingProcessed
      BY <1>3, <2>3, ProcessedStays
    <3>3. api.pc \notin Pulling /\ api.pc # "invoke.reset" /\ ~quiet
      BY <3>2 DEF CalmInv, Calm, Drained
    <3>4. ASSUME NEW m \in EnabledModels
          PROVE  scores'[m] = Merged(m)'
      <4>1. scores[m] = Merged(m) /\ m \in Model
        BY <1>0, <3>3
      <4>2. CASE m = k
        BY <1>01, <3>1, <4>1, <4>2 DEF Adds
      <4>3. CASE m # k
        BY <1>01, <3>1, <4>1, <4>3 DEF Adds
      <4>4. QED
        BY <4>2, <4>3
    <3>5. QED
      BY <1>0, <2>0, <3>3, <3>4
  <2>4. CASE \/ MergerStop \/ MergerTop \/ MergerNoTask \/ MergerPop \/ MergerCallbackDone
             \/ MergerCallbackCache
    <3>1. UNCHANGED <<sync_event, scores, topic_model_inc>>
      BY <2>4, Zenon
      DEF MergerStop, MergerTop, MergerNoTask, MergerPop, MergerCallbackDone, MergerCallbackCache,
          mergerModels
    <3>2. QED
      BY <1>1, <2>0, <3>1
  <2>5. QED
    BY <2>0, <2>1, <2>2, <2>3, <2>4 DEF MergerThread
<1>4. CASE ApiCall \/ ApiThread
  <2>1. CASE quiet' /\ api'.pc # "invoke.reset"
    BY <1>0, <2>1
  <2>2. CASE \/ CreateModelSchema \/ DisposeModelMerger \/ DisposeModelBatches \/ WaitReturn
             \/ \E m \in Model, s \in CreateStatuses : CreateModel(m, s)
             \/ \E m \in DisposableModels : DisposeModel(m)
    <3>1. api'.pc # "invoke.reset"
      BY <2>2, ApiPcs
    <3>2. CASE CreateModelSchema \/ DisposeModelMerger \/ DisposeModelBatches
      <4>1. UNCHANGED quiet
        BY <3>2 DEF CreateModelSchema, DisposeModelMerger, DisposeModelBatches
      <4>2. quiet
        BY <3>2, ApiPcs DEF CalmInv
      <4>3. QED
        BY <2>1, <3>1, <4>1, <4>2
    <3>3. CASE \/ \E m \in Model, s \in CreateStatuses : CreateModel(m, s)
               \/ \E m \in DisposableModels : DisposeModel(m)
      <4>1. quiet
        BY <3>3, Zenon DEF CreateModel, DisposeModel, Call, Disciplined
      <4>2. UNCHANGED quiet
        BY <3>3, Zenon DEF CreateModel, DisposeModel
      <4>3. QED
        BY <2>1, <3>1, <4>1, <4>2
    <3>4. CASE WaitReturn
      BY <2>1, <3>1, <3>4 DEF WaitReturn
    <3>5. QED
      BY <2>2, <3>2, <3>3, <3>4
  <2>3. CASE \E n \in IterationCounts : n # 0 /\ InvokeIteration(n)
    <3>1. api'.pc = "invoke.reset"
      BY <2>3, ApiPcs
    <3>2. ~sync_event'
      BY <2>3 DEF InvokeIteration, ForceTask
    <3>3. QED
      BY <1>0, <3>1, <3>2
  <2>4. CASE InvokeGeneration
    <3>1. /\ UNCHANGED <<schema, scores, topic_model_inc>> /\ sync_event
          /\ api.pc = "invoke.reset" /\ api'.pc \in {"invoke.add", "ready"}
      BY <2>4, ApiPcs DEF InvokeGeneration, mergerVars
    <3>2. scores = ResetScores /\ \A m \in Model : topic_model_inc[m] = Nil
      BY <1>0, <3>1 DEF CalmInv, Calm
    <3>3. \A m \in Model : scores'[m] = Merged(m)'
      BY <3>1, <3>2 DEF ResetScores, Merged
    <3>4. EnabledModels' = EnabledModels
      BY <3>1 DEF EnabledModels
    <3>5. QED
      BY <1>0, <3>1, <3>3, <3>4
  <2>5. CASE InvokeAdd
    <3>1. /\ UNCHANGED <<schema, scores, topic_model_inc, quiet>>
          /\ api.pc = "invoke.add" /\ api'.pc \in {"invoke.add", "ready"}
      BY <2>5, ApiPcs DEF InvokeAdd, mergerVars
    <3>2. EnabledModels' = EnabledModels /\ \A m \in EnabledModels : Merged(m)' = Merged(m)
      BY <3>1 DEF EnabledModels, Merged
    <3>3. QED
      BY <1>0, <3>1, <3>2
  <2>6. CASE WaitPull
    <3>1. /\ UNCHANGED <<schema, scores, quiet>>
          /\ api.pc = "wait.push" /\ api'.pc = "wait.pull"
      BY <2>6, ApiPcs DEF WaitPull, mergerInternals
    <3>2. /\ EnabledModels' = EnabledModels
          /\ \A m \in EnabledModels : Merged(m)' = due'[m] /\ Merged(m)' = Merged(m)
      BY <2>6, SumsAreDue
    <3>3. QED
      BY <1>0, <3>1, <3>2
  <2>7. CASE Plain \/ AddBatchCall \/ WaitPush \/ WaitPulled
    <3>1. UNCHANGED <<schema, due, scores, quiet, topic_model_inc>>
      BY <2>7, Zenon DEF Plain, AddBatchCall, WaitPush, WaitPulled, mergerVars, mergerInternals
    <3>2. /\ api.pc # "invoke.reset" /\ api'.pc # "invoke.reset"
          /\ api.pc \in Pulling <=> api'.pc \in Pulling
      BY <2>7, ApiPcs DEF Plain, PlainPc
    <3>3. QED
      BY <1>1, <3>1, <3>2
  <2>8. QED
    BY <1>4, <2>2, <2>3, <2>4, <2>5, <2>6, <2>7, ApiCases
<1>5. QED
  BY <1>2, <1>3, <1>4 DEF Next

LEMMA CacheStep ==
  ASSUME InstanceInv, InstanceInv', SchemaInv, CleanInv, GenerationInv, MarksInv, HoldersInv,
         TasksInv, CalmInv, CalmInv', PullInv', CacheInv, Disciplined, [Next]_vars
  PROVE  CacheInv'
<1> DEFINE Pulling == {"wait.pull", "wait.done"}
           Rows == \A m \in EnabledModels, b \in Batch :
                     Merged(m)[b] > 0 => <<b, m>> \in cache \/ Caching(b, m)
           Stored == api.pc \in Pulling => \A m \in EnabledModels, b \in Batch :
                      due[m][b] > 0 => <<b, m>> \in cache
<1>1. SUFFICES ASSUME CacheTheta
      PROVE  Rows' /\ Stored'
  BY DEF CacheInv
<1>0. /\ Rows /\ Stored /\ EnabledModels \subseteq Model
      /\ merger \in MergerState
      /\ topic_model_inc \in [Model -> TopicModel \cup {Nil}]
  BY <1>1 DEF CacheInv, EnabledModels, InstanceInv, MergerOK, MergerTypeOK
<1>2. \A b \in Batch : ~(NoCounts[b] > 0)
  BY DEF NoCounts
<1>3. ASSUME UNCHANGED schema, \A m \in Model : topic_model_inc'[m] \in {topic_model_inc[m], Nil},
             cache \subseteq cache',
             \A b \in Batch, m \in Model : Caching(b, m) => <<b, m>> \in cache' \/ Caching(b, m)'
      PROVE  Rows' /\ EnabledModels' = EnabledModels
  <2>1. EnabledModels' = EnabledModels
    BY <1>3 DEF EnabledModels
  <2>2. ASSUME NEW m \in EnabledModels, NEW b \in Batch, Merged(m)'[b] > 0
        PROVE  <<b, m>> \in cache' \/ Caching(b, m)'
    <3>1. Merged(m)' \in {Merged(m), NoCounts}
      BY <1>0, <1>3 DEF Merged
    <3>2. Merged(m)[b] > 0
      BY <1>2, <2>2, <3>1
    <3>3. QED
      BY <1>0, <1>3, <3>2
  <2>3. QED
    BY <2>1, <2>2
<1>4. ASSUME UNCHANGED <<schema, due>>, cache \subseteq cache',
             api'.pc \in Pulling => api.pc \in Pulling
      PROVE  Stored'
  BY <1>0, <1>4 DEF EnabledModels
<1>5. UNCHANGED merger => \A b \in Batch, m \in Model : Caching(b, m) => Caching(b, m)'
  BY DEF Caching
<1>6. CASE LoaderStep \/ UNCHANGED vars \/ \E p \in Processors : ProcessorStep(p)
  <2>1. UNCHANGED <<schema, due, api, cache, merger, topic_model_inc>>
    BY <1>6, LoaderLeaves, ProcessorLeaves DEF vars, mergerVars, apiVars, dataLoaderVars
  <2>2. QED
    BY <1>3, <1>4, <1>5, <2>1
<1>7. CASE MergerStep
  <2>0. UNCHANGED <<schema, due, api>> /\ MergerThread
    BY <1>7, MergerLeaves DEF MergerStep
  <2>1. CASE MergerMerge
    <3>1. PICK c \in Batch, k \in Model : Adds(c, k)
      BY <2>1, MergerAdds
    <3>2. UNCHANGED cache
      BY <2>1 DEF MergerMerge
    <3>3. EnabledModels' = EnabledModels
      BY <2>0 DEF EnabledModels
    <3>4. ASSUME NEW m \in EnabledModels, NEW b \in Batch, Merged(m)'[b] > 0
          PROVE  <<b, m>> \in cache' \/ Caching(b, m)'
      <4>0. m \in Model /\ Merged(m) \in Counters
        BY <1>0, MergedCounts
      <4>1. CASE b = c /\ m = k
        BY <3>1, <4>1 DEF Adds, Caching
      <4>2. CASE ~(b = c /\ m = k)
        <5>1. Merged(m)[b] > 0
          BY <3>1, <3>4, <4>0, <4>2 DEF Adds, Counters
        <5>2. ~Caching(b, m)
          BY <3>1 DEF Adds, Caching
        <5>3. QED
          BY <1>0, <3>2, <5>1, <5>2
      <4>3. QED
        BY <4>1, <4>2
    <3>5. QED
      BY <1>4, <2>0, <3>2, <3>3, <3>4
  <2>2. CASE MergerCallbackCache
    <3>1. /\ merger.pc = "cache" /\ UNCHANGED topic_model_inc
          /\ cache' = cache \cup {<<merger.increment.batch, merger.increment.model>>}
      BY <1>1, <2>2 DEF MergerCallbackCache, CallbackCache, mergerModels
    <3>2. \A b \in Batch, m \in Model : Caching(b, m) => <<b, m>> \in cache'
      BY <3>1 DEF Caching
    <3>3. QED
      BY <1>3, <1>4, <2>0, <3>1, <3>2
  <2>3. CASE ~MergerMerge /\ ~MergerCallbackCache
    <3>1. \A m \in Model : topic_model_inc'[m] \in {topic_model_inc[m], Nil}
      BY <1>0, <2>0, <2>3, IncrementsStay
    <3>2. UNCHANGED cache
      BY <2>0, <2>3, Zenon
      DEF MergerThread, MergerStop, MergerTop, MergerTaskStep, MergerNoTask, MergerPop,
          MergerCallbackDone, MergerPull, MergerPullReturn
    <3>3. \A b \in Batch, m \in Model : Caching(b, m) => Caching(b, m)'
      BY <1>0, <2>0, <2>3, MergerGoes DEF Caching, Idle
    <3>4. QED
      BY <1>3, <1>4, <2>0, <3>1, <3>2, <3>3
  <2>4. QED
    BY <2>1, <2>2, <2>3
<1>8. CASE ApiCall \/ ApiThread
  <2>0. UNCHANGED merger /\ \A b \in Batch, m \in Model : Caching(b, m) => Caching(b, m)'
    BY <1>5, <1>8, ApiFlow
  <2>1. CASE Calm' /\ api'.pc \notin Pulling
    <3>1. \A m \in Model : topic_model_inc'[m] = Nil
      BY <2>1 DEF Calm
    <3>2. \A m \in Model : Merged(m)' = NoCounts
      BY <3>1 DEF Merged, NoCounts
    <3>3. EnabledModels' \subseteq Model
      BY DEF EnabledModels
    <3>4. QED
      BY <1>2, <2>1, <3>2, <3>3
  <2>2. CASE \/ CreateModelSchema \/ DisposeModelMerger \/ DisposeModelBatches \/ WaitReturn
             \/ \E m \in Model, s \in CreateStatuses : CreateModel(m, s)
             \/ \E m \in DisposableModels : DisposeModel(m)
    <3>1. api'.pc \notin Pulling
      BY <2>2, ApiPcs
    <3>2. quiet'
      <4>1. CASE CreateModelSchema \/ DisposeModelMerger \/ DisposeModelBatches
        <5>1. UNCHANGED quiet
          BY <4>1 DEF CreateModelSchema, DisposeModelMerger, DisposeModelBatches
        <5>2. quiet
          BY <4>1, ApiPcs DEF CalmInv
        <5>3. QED
          BY <5>1, <5>2
      <4>2. CASE \/ \E m \in Model, s \in CreateStatuses : CreateModel(m, s)
                 \/ \E m \in DisposableModels : DisposeModel(m)
        <5>1. quiet
          BY <4>2, Zenon DEF CreateModel, DisposeModel, Call, Disciplined
        <5>2. UNCHANGED quiet
          BY <4>2, Zenon DEF CreateModel, DisposeModel
        <5>3. QED
          BY <5>1, <5>2
      <4>3. CASE WaitReturn
        BY <4>3 DEF WaitReturn
      <4>4. QED
        BY <2>2, <4>1, <4>2, <4>3
    <3>3. QED
      BY <2>1, <3>1, <3>2 DEF CalmInv
  <2>3. CASE \/ Plain \/ AddBatchCall \/ InvokeGeneration \/ InvokeAdd \/ WaitPush \/ WaitPull
             \/ WaitPulled \/ \E n \in IterationCounts : n # 0 /\ InvokeIteration(n)
    <3>1. UNCHANGED <<schema, cache, topic_model_inc>>
      BY <2>3, Zenon
      DEF Plain, AddBatchCall, AddBatch, InvokeGeneration, InvokeAdd, WaitPush, WaitPull,
          WaitPulled, InvokeIteration, dataLoaderVars, mergerVars, mergerInternals
    <3>2. Rows' /\ EnabledModels' = EnabledModels
      BY <1>3, <2>0, <3>1
    <3>3. Stored'
      <4>1. CASE WaitPull
        <5>1. \A m \in EnabledModels : Merged(m)' = due'[m]
          BY <4>1, SumsAreDue
        <5>2. api'.pc = "wait.pull"
          BY <4>1, ApiPcs
        <5>3. \A b \in Batch, m \in Model : ~Caching(b, m)'
          BY <5>2 DEF CalmInv, Drained, Caching
        <5>4. QED
          BY <1>0, <3>2, <5>1, <5>3
      <4>2. CASE WaitPulled
        <5>1. UNCHANGED due /\ api.pc = "wait.pull"
          BY <4>2, ApiPcs DEF WaitPulled
        <5>2. QED
          BY <1>4, <3>1, <5>1
      <4>3. CASE ~WaitPull /\ ~WaitPulled
        <5>1. api'.pc \notin Pulling
          BY <2>3, <4>3, ApiPcs DEF Plain, PlainPc
        <5>2. QED
          BY <5>1
      <4>4. QED
        BY <4>1, <4>2, <4>3
    <3>4. QED
      BY <3>2, <3>3
  <2>4. QED
    BY <1>8, <2>2, <2>3, ApiCases
<1>9. QED
  BY <1>6, <1>7, <1>8 DEF Next

-----------------------------------------------------------------------------
(* The invariant.                                                          *)
LEMMA InitPipeline == ASSUME Disciplined, Init, InstanceInv PROVE PipelineInv
<1>1. /\ schema \in InitialSchemas /\ schema \in [Model -> ModelStatus]
      /\ tasks = <<>> /\ in_progress = [m \in Model |-> {}]
      /\ loader.pc = "size" /\ loader.batch = Nil /\ processor_queue = <<>>
      /\ topic_model = [m \in Model |-> IF m \in GetModelNames THEN NewModel(0) ELSE Nil]
      /\ topic_model_inc = [m \in Model |-> Nil]
      /\ merger_queue = <<>> /\ internal_task_queue = <<>>
      /\ merger.pc = "top" /\ merger.todo = {}
      /\ processor = [p \in Processors |-> NewProcessor]
      /\ api.pc = "ready" /\ due = [m \in Model |-> NoCounts] /\ quiet = TRUE
  BY LocalInstanceAssumption
  DEF Init, BatchManagerInit, DataLoaderInit, MergerInit, ProcessorInit, Ready
<1>2. SchemaInv
  BY <1>1 DEF SchemaInv, Disciplined, GetModelNames
<1>3. CleanInv
  BY <1>1 DEF CleanInv, NewProcessor
<1>4. GenerationInv
  BY <1>1 DEF GenerationInv, NoCounts
<1>5. MarksInv
  <2>1. Places /\ HandedSum
    BY PlacesOK, HandedIs
  <2>2. ASSUME NEW b \in Batch, NEW m \in Model PROVE Handed(b, m) = 0
    <3>1. Unprocessed(b) = 0
      BY <1>1, <2>1, BatchAssumption, NilAssumption DEF Places, NewProcessor
    <3>2. Unpopped(b, m) = 0
      BY <1>1, <2>1 DEF Places, Working, NewProcessor
    <3>3. Held(b, m) = 0
      BY <1>1 DEF Held, MergerHolds
    <3>4. QED
      BY <2>1, <3>1, <3>2, <3>3 DEF HandedSum
  <2>3. QED
    BY <1>1, <2>2 DEF MarksInv
<1>6. HoldersInv
  BY <1>1 DEF HoldersInv, NewProcessor
<1>7. Len(internal_task_queue) = 0
  BY <1>1, EmptySeq
<1>8. TasksInv
  BY <1>1, <1>7 DEF TasksInv, OnlyDisposals
<1>9. Calm
  BY <1>1 DEF Calm, Drained, IsEverythingProcessed
<1>10. CalmInv
  BY <1>1, <1>7, <1>9 DEF CalmInv
<1>11. CountInv
  BY <1>2, <1>5, <1>9, CalmCounts
<1>12. PullInv /\ ScoresInv
  BY <1>1 DEF PullInv, ScoresInv
<1>13. CacheInv
  <2>1. \A m \in Model, b \in Batch : ~(Merged(m)[b] > 0)
    BY <1>1 DEF Merged, NoCounts
  <2>2. QED
    BY <1>1, <2>1 DEF CacheInv, EnabledModels
<1>14. QED
  BY <1>2, <1>3, <1>4, <1>5, <1>6, <1>8, <1>10, <1>11, <1>12, <1>13 DEF PipelineInv

LEMMA StepPipeline ==
  ASSUME Disciplined, InstanceInv, InstanceInv', PipelineInv, [Next]_vars
  PROVE  PipelineInv'
<1>0. /\ SchemaInv /\ CleanInv /\ GenerationInv /\ MarksInv /\ HoldersInv /\ TasksInv
      /\ CalmInv /\ CountInv /\ PullInv /\ ScoresInv /\ CacheInv
  BY DEF PipelineInv
<1>1. SchemaInv'
  BY <1>0, SchemaStep
<1>2. CleanInv'
  BY <1>0, CleanStep
<1>3. GenerationInv'
  BY <1>0, GenerationStep
<1>4. MarksInv'
  BY <1>0, MarksStep
<1>5. HoldersInv'
  BY <1>0, HoldersStep
<1>6. TasksInv'
  BY <1>0, TasksStep
<1>7. CalmInv'
  BY <1>0, CalmStep
<1>8. CountInv'
  BY <1>0, <1>1, <1>4, <1>7, CountStep
<1>9. PullInv'
  BY <1>0, PullStep
<1>10. ScoresInv'
  BY <1>0, <1>7, <1>9, ScoresStep
<1>11. CacheInv'
  BY <1>0, <1>7, <1>9, CacheStep
<1>12. QED
  BY <1>1, <1>2, <1>3, <1>4, <1>5, <1>6, <1>7, <1>8, <1>9, <1>10, <1>11 DEF PipelineInv

\* The invariant holds in every reachable state of a disciplined caller, however
\* the threads interleave.
THEOREM PipelineInvariant == ASSUME Disciplined PROVE Spec => []PipelineInv
<1>1. Init /\ InstanceInv => PipelineInv
  BY InitPipeline
<1>2. InstanceInv /\ InstanceInv' /\ PipelineInv /\ [Next]_vars => PipelineInv'
  BY StepPipeline
<1>3. QED
  BY <1>1, <1>2, InstanceInvariant, PTL DEF Spec

\* From InvokeIteration (master_component.cc) to the topic model, every copy of a
\* batch is in exactly one place: the task list, the loader, the processor queue, a
\* processor, the merger queue, the merger, or the counters of each model.  None is
\* lost and none is merged twice, whatever the threads do in between.
THEOREM ConservationHolds == ASSUME Disciplined PROVE Spec => []Conservation
<1>1. PipelineInv => Conservation
  BY DEF PipelineInv, CountInv
<1>2. QED
  BY <1>1, PipelineInvariant, PTL

-----------------------------------------------------------------------------
(* What it implies.                                                        *)
\* WaitIdle returned true: the pulled topic model of every enabled model counts
\* every batch as often as iterations were invoked, and so do its scores.
THEOREM WaitIdleIsComplete == ASSUME Disciplined PROVE Spec => []WaitIdleComplete
<1>1. ASSUME InstanceInv, PipelineInv PROVE WaitIdleComplete
  <2>1. SUFFICES ASSUME api.pc = "wait.done", NEW m \in EnabledModels,
                        NEW b \in Batch, due[m][b] > 0
                 PROVE  topic_model[m].n_wt = due[m] /\ scores[m] = due[m]
    BY DEF WaitIdleComplete
  <2>2. m \in Model
    BY DEF EnabledModels
  <2>3. due[m] # NoCounts
    BY <2>1 DEF NoCounts
  <2>4. ~quiet
    BY <1>1, <2>2, <2>3 DEF PipelineInv, CalmInv, Calm
  <2>5. topic_model[m].n_wt = due[m]
    BY <1>1, <2>1, <2>3 DEF PipelineInv, PullInv, Pulled
  <2>6. scores[m] = due[m]
    BY <1>1, <2>1, <2>4 DEF PipelineInv, ScoresInv
  <2>7. QED
    BY <2>5, <2>6
<1>2. QED
  BY <1>1, PipelineInvariant, InstanceInvariant, PTL

\* ... and RequestThetaMatrix then has a row for each of those batches, though
\* the merger stores the cache entry after it has reported the batch as done.
THEOREM ThetaIsComplete == ASSUME Disciplined PROVE Spec => []ThetaComplete
<1>1. ASSUME PipelineInv PROVE ThetaComplete
  <2>1. SUFFICES ASSUME api.pc = "wait.done", CacheTheta, NEW m \in EnabledModels,
                        NEW b \in Batch, due[m][b] > 0
                 PROVE  b \in ThetaMatrix(m)
    BY DEF ThetaComplete
  <2>2. m \in Model
    BY DEF EnabledModels
  <2>3. b \in generation
    BY <1>1, <2>1, <2>2 DEF PipelineInv, GenerationInv
  <2>4. <<b, m>> \in cache
    BY <1>1, <2>1 DEF PipelineInv, CacheInv
  <2>5. QED
    BY <2>3, <2>4 DEF ThetaMatrix
<1>2. QED
  BY <1>1, PipelineInvariant, PTL

\* processor.cc:443: a processor finds the topic model of every model that the
\* schema listed when it took the batch, and its thread is never aborted.
THEOREM ModelIsPresent == ASSUME Disciplined PROVE Spec => []ModelPresent
<1>1. PipelineInv => ModelPresent
  BY DEF PipelineInv, CleanInv, ModelPresent, Aborted
<1>2. QED
  BY <1>1, PipelineInvariant, PTL

\* The merger adds an increment to the incarnation of the model that it was
\* computed for, never to a new model of that name.
THEOREM IncarnationIsTheSame == ASSUME Disciplined PROVE Spec => []SameIncarnation
<1>1. PipelineInv => SameIncarnation
  BY DEF PipelineInv, HoldersInv, FitsModel, SameIncarnation
<1>2. QED
  BY <1>1, PipelineInvariant, PTL

-----------------------------------------------------------------------------
(* The length of the task list.                                            *)
LEMMA MostIterationsIs ==
  ASSUME Bounded
  PROVE  MostIterations \in Nat /\ \A n \in IterationCounts : n <= MostIterations
<1>1. IterationCounts \subseteq Nat
  BY LocalInstanceAssumption
<1>2. \E k \in IterationCounts : \A n \in IterationCounts : k >= n
  BY <1>1 DEF Bounded
<1>3. MostIterations \in IterationCounts /\ \A n \in IterationCounts : MostIterations >= n
  BY <1>2, Zenon DEF MostIterations, Max
<1>4. QED
  BY <1>1, <1>3

\* Cardinalities of sets of batches are numbers that behave.
LEMMA SetsOfBatches ==
  ASSUME Bounded, NEW S \in SUBSET Batch
  PROVE  /\ Cardinality(Batch) \in Nat /\ IsFiniteSet(S)
         /\ Cardinality(S) \in Nat /\ Cardinality(S) <= Cardinality(Batch)
         /\ \A b \in S : Cardinality(S \ {b}) = Cardinality(S) - 1 /\ Cardinality(S) > 0
<1>1. IsFiniteSet(S) /\ Cardinality(S) <= Cardinality(Batch)
  BY FS_Subset DEF Bounded
<1>2. Cardinality(S) \in Nat /\ Cardinality(Batch) \in Nat
  BY <1>1, FS_CardinalityType DEF Bounded
<1>3. ASSUME NEW b \in S
      PROVE  Cardinality(S \ {b}) = Cardinality(S) - 1 /\ Cardinality(S) > 0
  <2>1. Cardinality(S \ {b}) = Cardinality(S) - 1
    BY <1>1, FS_RemoveElement
  <2>2. Cardinality(S) # 0
    BY <1>1, FS_EmptySet
  <2>3. QED
    BY <1>2, <2>1, <2>2
<1>4. QED
  BY <1>1, <1>2, <1>3

\* One repetition less of the generation.
LEMMA Repetitions ==
  ASSUME NEW n \in Nat, NEW c \in Nat, n > 0
  PROVE  (n - 1) * c \in Nat /\ (n - 1) * c + c = n * c
OBVIOUS

\* Multiplication is monotone.
LEMMA Fewer ==
  ASSUME NEW n \in Nat, NEW k \in Nat, NEW c \in Nat, n <= k
  PROVE  n * c <= k * c
OBVIOUS

LEMMA BoundStep ==
  ASSUME Bounded, Disciplined, InstanceInv, InstanceInv', CalmInv, BoundInv, [Next]_vars
  PROVE  BoundInv'
<1> DEFINE K == MostIterations
           C == Cardinality(Batch)
<1>0. /\ K \in Nat /\ C \in Nat /\ \A n \in IterationCounts : n \in Nat /\ n <= K
      /\ calls \in Nat /\ MaxCalls \in Nat
      /\ api \in ApiState /\ tasks \in Seq(Batch) /\ Len(tasks) \in Nat
      /\ generation \in SUBSET Batch
  BY MostIterationsIs, SetsOfBatches, LocalInstanceAssumption
  DEF InstanceInv, ApiOK, BatchManagerTypeOK, LoaderOK, DataLoaderTypeOK
<1> HIDE DEF K, C
<1>1. ASSUME UNCHANGED <<api, calls>>, Len(tasks') <= Len(tasks), tasks' \in Seq(Batch)
      PROVE  BoundInv'
  <2>1. BoundInv' <=>
          /\ calls <= MaxCalls
          /\ api.pc \in {"invoke.reset", "invoke.add"} => calls > 0 /\ api.iterations <= K
          /\ api.pc = "invoke.add" =>
               Len(tasks') + Cardinality(api.todo) + (api.iterations - 1) * C <= K * C
    BY <1>1 DEF BoundInv, K, C
  <2>2. CASE api.pc = "invoke.add"
    <3>1. /\ Cardinality(api.todo) \in Nat /\ (api.iterations - 1) * C \in Nat /\ K * C \in Nat
      <4>1. api.todo \in SUBSET Batch /\ api.iterations \in Nat /\ api.iterations > 0
        BY <1>0, <2>2 DEF InstanceInv, ApiOK, CallHolds, ApiState
      <4>2. QED
        BY <1>0, <4>1, SetsOfBatches, Repetitions
    <3>2. /\ Len(tasks) + Cardinality(api.todo) + (api.iterations - 1) * C <= K * C
          /\ Len(tasks') \in Nat
      BY <1>1, <2>2 DEF BoundInv, K, C
    <3>3. Len(tasks') + Cardinality(api.todo) + (api.iterations - 1) * C <= K * C
      BY <1>0, <1>1, <3>1, <3>2
    <3>4. QED
      BY <2>1, <2>2, <3>3 DEF BoundInv, K
  <2>3. QED
    BY <2>1, <2>2 DEF BoundInv, K, C
<1>2. ASSUME api'.pc \notin {"invoke.reset", "invoke.add"},
             calls' = calls \/ (calls < MaxCalls /\ calls' = calls + 1)
      PROVE  BoundInv'
  BY <1>0, <1>2 DEF BoundInv
<1>3. CASE LoaderStep
  <2>1. UNCHANGED <<api, calls>>
    BY <1>3 DEF LoaderStep, apiVars
  <2>2. CASE LoaderNext
    <3>1. PICK i \in 1..Len(tasks) : tasks' = RemoveAt(tasks, i)
      BY <2>2 DEF LoaderNext, NextTask
    <3>2. tasks' \in Seq(Batch) /\ Len(tasks') = Len(tasks) - 1
      <4>1. tasks' \in Seq(Batch)
        BY <1>0, <3>1, TakeOut
      <4>2. DOMAIN tasks' = 1..(Len(tasks) - 1)
        BY <1>0, <3>1, RemoveAtElements
      <4>3. DOMAIN tasks' = 1..Len(tasks') /\ Len(tasks') \in Nat
        BY <4>1
      <4>4. QED
        BY <1>0, <4>1, <4>2, <4>3
    <3>3. QED
      BY <1>0, <1>1, <2>1, <3>2
  <2>3. CASE ~LoaderNext
    <3>1. UNCHANGED tasks
      BY <1>3, <2>3
      DEF LoaderStep, LoaderThread, LoaderStop, LoaderSize, LoaderNothing, LoaderBatch,
          LoaderCache, LoaderPush, DoneForAll, batchManagerVars
    <3>2. QED
      BY <1>0, <1>1, <2>1, <3>1
  <2>4. QED
    BY <2>2, <2>3
<1>4. CASE MergerStep \/ UNCHANGED vars \/ \E p \in Processors : ProcessorStep(p)
  <2>1. UNCHANGED <<api, calls, tasks>>
    BY <1>4, MergerLeaves, Zenon
    DEF MergerStep, ProcessorStep, apiVars, vars, batchManagerVars
  <2>2. QED
    BY <1>0, <1>1, <2>1
<1>5. ASSUME NEW n \in IterationCounts, n # 0, InvokeIteration(n)
      PROVE  BoundInv'
  <2>1. /\ api'.pc = "invoke.reset" /\ api'.iterations = n
        /\ calls < MaxCalls /\ calls' = calls + 1
    BY <1>0, <1>5 DEF InvokeIteration, Call, ApiState
  <2>2. QED
    BY <1>0, <2>1 DEF BoundInv, K
<1>6. CASE InvokeGeneration
  <2>1. CASE generation = {}
    BY <1>2, <1>6, <2>1, ReturnOK DEF InvokeGeneration, At
  <2>2. CASE generation # {}
    <3>1. /\ api.pc = "invoke.reset" /\ calls' = calls /\ tasks' = tasks
          /\ api'.pc = "invoke.add" /\ api'.todo = generation /\ api'.iterations = api.iterations
      BY <1>0, <1>6, <2>2 DEF InvokeGeneration, At, ApiState, batchManagerVars
    <3>2. tasks = <<>>
      BY <3>1 DEF CalmInv, Calm, Drained, IsEverythingProcessed
    <3>3. api.iterations \in Nat /\ api.iterations > 0 /\ api.iterations <= K
      BY <1>0, <3>1 DEF InstanceInv, ApiOK, CallHolds, ApiState, BoundInv, K
    <3>4. Cardinality(generation) \in Nat /\ Cardinality(generation) <= C
      BY <1>0, SetsOfBatches DEF C
    <3>5. /\ (api.iterations - 1) * C \in Nat /\ (api.iterations - 1) * C + C <= K * C
          /\ K * C \in Nat
      BY <1>0, <3>3, Repetitions, Fewer
    <3> DEFINE g == Cardinality(generation)
               r == (api.iterations - 1) * C
               all == K * C
    <3>6. Len(tasks') + Cardinality(api'.todo) + (api'.iterations - 1) * C <= K * C
      <4>1. Len(tasks') = 0
        BY <3>1, <3>2, EmptySeq
      <4>2. Cardinality(api'.todo) = g /\ (api'.iterations - 1) * C = r
        BY <3>1
      <4>3. g \in Nat /\ g <= C /\ r \in Nat /\ r + C <= all /\ all \in Nat
        BY <3>4, <3>5
      <4> HIDE DEF g, r, all
      <4>4. 0 + g + r <= all
        BY <1>0, <4>3
      <4>5. QED
        BY <4>1, <4>2, <4>4 DEF all
    <3>7. calls' > 0 /\ api'.iterations <= K /\ calls' <= MaxCalls
      BY <3>1, <3>3 DEF BoundInv
    <3>8. QED
      BY <3>6, <3>7 DEF BoundInv, K, C
  <2>3. QED
    BY <2>1, <2>2
<1>7. CASE InvokeAdd
  <2> DEFINE b == Min(api.todo)
             rest == api.todo \ {b}
             t == Cardinality(api.todo)
  <2>1. /\ api.pc = "invoke.add" /\ calls' = calls /\ tasks' = Append(tasks, b)
        /\ api.todo \in SUBSET Batch /\ api.todo # {}
        /\ api.iterations \in Nat /\ api.iterations > 0 /\ api.iterations <= K
    BY <1>0, <1>7 DEF InvokeAdd, At, Add, InstanceInv, ApiOK, CallHolds, ApiState, BoundInv, K
  <2>2. b \in api.todo /\ b \in Batch
    BY <2>1, MinOfBatches
  <2>3. Len(tasks') = Len(tasks) + 1
    BY <1>0, <2>1, <2>2, PushBack
  <2>4. t \in Nat /\ Cardinality(rest) = t - 1 /\ t > 0
    BY <2>1, <2>2, SetsOfBatches
  <2>5. Cardinality(generation) \in Nat /\ Cardinality(generation) <= C
    BY <1>0, SetsOfBatches DEF C
  <2>6. /\ (api.iterations - 1) * C \in Nat /\ K * C \in Nat
        /\ Len(tasks) + t + (api.iterations - 1) * C <= K * C
    <3>1. (api.iterations - 1) * C \in Nat /\ K * C \in Nat
      <4>1. PICK n \in Nat : n = api.iterations /\ n > 0
        BY <2>1
      <4>2. (n - 1) * C \in Nat
        BY <1>0, <4>1, Repetitions
      <4>3. K * C \in Nat
        BY <1>0
      <4>4. QED
        BY <4>1, <4>2, <4>3
    <3>2. Len(tasks) + t + (api.iterations - 1) * C <= K * C
      BY <2>1 DEF BoundInv, K, C
    <3>3. QED
      BY <3>1, <3>2
  <2> HIDE DEF t
  <2>7. CASE rest # {} /\ api' = [api EXCEPT !.todo = rest]
    <3>1. api'.pc = api.pc /\ api'.todo = rest /\ api'.iterations = api.iterations
      BY <1>0, <2>7 DEF ApiState
    <3>2. Len(tasks') + Cardinality(api'.todo) + (api'.iterations - 1) * C <= K * C
      BY <1>0, <2>3, <2>4, <2>6, <3>1
    <3>3. QED
      BY <2>1, <3>1, <3>2 DEF BoundInv, K, C
  <2>8. CASE /\ rest = {} /\ api.iterations > 1
             /\ api' = [api EXCEPT !.todo = generation, !.iterations = @ - 1]
    <3>1. api'.pc = api.pc /\ api'.todo = generation /\ api'.iterations = api.iterations - 1
      BY <1>0, <2>8 DEF ApiState
    <3>2. /\ (api'.iterations - 1) * C \in Nat
          /\ (api'.iterations - 1) * C + C = (api.iterations - 1) * C
      <4>1. PICK n \in Nat : n = api.iterations - 1 /\ n > 0
        BY <2>1, <2>8
      <4>2. (n - 1) * C \in Nat /\ (n - 1) * C + C = n * C
        BY <1>0, <4>1, Repetitions
      <4>3. QED
        BY <3>1, <4>1, <4>2
    <3> DEFINE g == Cardinality(generation)
               r == (api'.iterations - 1) * C
               q == (api.iterations - 1) * C
               all == K * C
    <3>3. Len(tasks') + Cardinality(api'.todo) + (api'.iterations - 1) * C <= K * C
      <4>1. Cardinality(api'.todo) = g
        BY <3>1
      <4>2. /\ g \in Nat /\ g <= C /\ r \in Nat /\ r + C = q /\ all \in Nat
            /\ Len(tasks) + t + q <= all
        BY <2>5, <2>6, <3>2
      <4> HIDE DEF g, r, q, all
      <4>3. Len(tasks) + 1 + g + r <= all
        BY <1>0, <2>4, <4>2
      <4>4. QED
        BY <2>3, <4>1, <4>3 DEF r, all
    <3>4. api'.iterations <= K
      BY <1>0, <2>1, <3>1
    <3>5. QED
      BY <2>1, <3>1, <3>3, <3>4 DEF BoundInv, K, C
  <2>9. CASE Return
    BY <1>2, <2>1, <2>9, ReturnOK
  <2>10. QED
    BY <1>7, <2>7, <2>8, <2>9 DEF InvokeAdd
<1>8. CASE ApiCall \/ ApiThread
  <2>1. calls' = calls \/ (calls < MaxCalls /\ calls' = calls + 1)
    BY <1>8, Zenon
    DEF ApiCall, CreateModel, DisposeModel, AddBatchCall, InvokeIteration, WaitIdle,
        Reconfigure, Destroy, ApiThread, CreateModelSchema, DisposeModelMerger,
        DisposeModelBatches, InvokeGeneration, InvokeAdd, WaitTimeout, WaitPush, WaitPull,
        WaitPulled, WaitReturn, RemoveProcessor, AddProcessor, DestroyProcessor,
        ReconfigureReturn, DestroyMerger, DestroyLoader, Destroyed, Call, At
  <2>2. CASE \/ Plain \/ AddBatchCall \/ CreateModelSchema \/ DisposeModelMerger
             \/ DisposeModelBatches \/ WaitPush \/ WaitPull \/ WaitPulled \/ WaitReturn
             \/ \E m \in Model, s \in CreateStatuses : CreateModel(m, s)
             \/ \E m \in DisposableModels : DisposeModel(m)
    <3>1. api'.pc \notin {"invoke.reset", "invoke.add"}
      BY <2>2, ApiPcs DEF Plain, PlainPc
    <3>2. QED
      BY <1>2, <2>1, <3>1
  <2>3. QED
    BY <1>5, <1>6, <1>7, <1>8, <2>2, ApiCases
<1>9. QED
  BY <1>3, <1>4, <1>8 DEF Next

-----------------------------------------------------------------------------
(* The pipeline implements BatchTracking.                                  *)
\* What is out for a model is what is marked for it.
HandedNow == [b \in Batch |-> [m \in Model |-> Handed(b, m)]]

\* ... and what the batch manager says of it.
MarkedNow == [b \in Batch |-> [m \in Model |-> IF b \in in_progress[m] THEN 1 ELSE 0]]

LEMMA HandedIsMarked == MarksInv => HandedNow = MarkedNow
BY DEF MarksInv, HandedNow, MarkedNow

\* The initial states map to initial states.
LEMMA TrackingInit ==
  ASSUME Init, InstanceInv, PipelineInv
  PROVE  Tracking!Init
<1>1. SchemaTypeOK /\ BatchManagerInit
  BY DEF Init, InstanceInv
<1>2. HandedNow = MarkedNow
  BY HandedIsMarked DEF PipelineInv
<1>3. HandedNow = [b \in Batch |-> [m \in Model |-> 0]]
  BY <1>1, <1>2 DEF MarkedNow, BatchManagerInit
<1>4. QED
  BY <1>1, <1>3
  DEF Tracking!Init, Tracking!SchemaTypeOK, Tracking!ModelStatus, SchemaTypeOK, ModelStatus,
      Tracking!BatchManagerInit, BatchManagerInit, HandedNow

\* Next: the batch taken was marked for no model and is for every one of the schema.
LEMMA LoaderHandsOut ==
  ASSUME InstanceInv, HandedNow = MarkedNow, HandedNow' = MarkedNow', LoaderNext, UNCHANGED schema
  PROVE  \E i \in 1..Len(tasks) : Tracking!HandOut(i)
<1>1. PICK i \in 1..Len(tasks) : NextTask(i)
  BY DEF LoaderNext
<1>2. tasks \in Seq(Batch) /\ in_progress \in [Model -> SUBSET Batch]
  BY DEF InstanceInv, BatchManagerTypeOK
<1>3. PICK c \in Batch : c = tasks[i]
  BY <1>2
<1>4. /\ \A m \in Model : c \notin in_progress[m]
      /\ in_progress' = [m \in Model |-> IF m \in GetModelNames
                                         THEN in_progress[m] \cup {c} ELSE in_progress[m]]
  BY <1>1, <1>3 DEF NextTask, Selectable
<1>5. HandedNow' = [HandedNow EXCEPT ![c] = [m \in Model |-> IF m \in GetModelNames
                                                            THEN @[m] + 1 ELSE @[m]]]
  <2> DEFINE new == [HandedNow EXCEPT ![c] = [m \in Model |-> IF m \in GetModelNames
                                                              THEN @[m] + 1 ELSE @[m]]]
  <2>1. ASSUME NEW b \in Batch PROVE MarkedNow'[b] = new[b]
    <3>1. MarkedNow'[b] = [m \in Model |-> IF b \in in_progress'[m] THEN 1 ELSE 0]
      BY DEF MarkedNow
    <3>2. MarkedNow[b] = [m \in Model |-> IF b \in in_progress[m] THEN 1 ELSE 0]
      BY DEF MarkedNow
    <3>3. CASE b = c
      <4>1. new[b] = [m \in Model |-> IF m \in GetModelNames
                                      THEN HandedNow[c][m] + 1 ELSE HandedNow[c][m]]
        BY <3>3 DEF HandedNow
      <4>2. ASSUME NEW m \in Model
            PROVE  (IF b \in in_progress'[m] THEN 1 ELSE 0)
                     = (IF m \in GetModelNames THEN HandedNow[c][m] + 1 ELSE HandedNow[c][m])
        <5>1. HandedNow[c][m] = 0
          BY <1>4, <3>2, <3>3
        <5>2. b \in in_progress'[m] <=> m \in GetModelNames
          BY <1>4, <3>3
        <5>3. QED
          BY <5>1, <5>2
      <4>3. QED
        BY <3>1, <4>1, <4>2
    <3>4. CASE b # c
      <4>1. new[b] = MarkedNow[b]
        BY <3>4 DEF HandedNow
      <4>2. \A m \in Model : b \in in_progress'[m] <=> b \in in_progress[m]
        BY <1>4, <3>4
      <4>3. QED
        BY <3>1, <3>2, <4>1, <4>2
    <3>5. QED
      BY <3>3, <3>4
  <2>2. new = [b \in Batch |-> new[b]] /\ MarkedNow' = [b \in Batch |-> MarkedNow'[b]]
    BY DEF HandedNow, MarkedNow
  <2> HIDE DEF new
  <2>3. MarkedNow' = new
    BY <2>1, <2>2
  <2>4. QED
    BY <2>3 DEF new
<1>6. Tracking!HandOut(i)
  <2>1. Tracking!NextTask(i)
    <3>1. Tracking!RemoveAt(tasks, i) = RemoveAt(tasks, i)
      BY Zenon DEF Tracking!RemoveAt, RemoveAt
    <3>2. QED
      BY <1>1, <3>1, Zenon
      DEF Tracking!NextTask, Tracking!Selectable, Tracking!GetModelNames, NextTask, Selectable,
          GetModelNames
  <2>2. Tracking!GetModelNames = GetModelNames
    BY DEF Tracking!GetModelNames, GetModelNames
  <2>3. HandedNow' = [HandedNow EXCEPT ![tasks[i]] =
                        [m \in Model |-> IF m \in Tracking!GetModelNames
                                         THEN @[m] + 1 ELSE @[m]]]
    BY <1>3, <1>5, <2>2, Zenon
  <2>4. QED
    BY <2>1, <2>3, Zenon DEF Tracking!HandOut, HandedNow
<1>7. QED
  BY <1>6

\* Callback: the merger still holds the increment that it reports.
LEMMA MergerReports ==
  ASSUME InstanceInv, HandedNow = MarkedNow, HandedNow' = MarkedNow', MarksInv,
         MergerCallbackDone, UNCHANGED <<schema, tasks>>
  PROVE  \E b \in Batch, m \in Model : Tracking!Report(b, m)
<1>1. merger.pc = "done" /\ merger.increment \in ModelIncrement
  BY DEF MergerCallbackDone, InstanceInv, MergerOK, MergerHoldsIncrement
<1>2. PICK c \in Batch, k \in Model : c = merger.increment.batch /\ k = merger.increment.model
  BY <1>1 DEF ModelIncrement
<1>3. Done(c, k)
  BY <1>2 DEF MergerCallbackDone, CallbackDone
<1>4. Handed(c, k) > 0 /\ Handed(c, k) = 1 /\ c \in in_progress[k]
  <2>1. Places /\ HandedSum
    BY PlacesOK, HandedIs
  <2>2. Held(c, k) = 1 /\ Unprocessed(c) \in Nat /\ Unpopped(c, k) \in Nat
    BY <1>1, <1>2, <2>1 DEF Held, MergerHolds, Places
  <2>3. Handed(c, k) > 0
    BY <2>1, <2>2 DEF HandedSum
  <2>4. QED
    BY <2>3 DEF MarksInv
<1>5. /\ in_progress \in [Model -> SUBSET Batch]
      /\ in_progress' = [in_progress EXCEPT ![k] = in_progress[k] \ {c}]
  BY <1>3 DEF Done, InstanceInv, BatchManagerTypeOK
<1>6. HandedNow' = [HandedNow EXCEPT ![c][k] = @ - 1]
  <2> DEFINE new == [HandedNow EXCEPT ![c][k] = @ - 1]
  <2>1. ASSUME NEW b \in Batch PROVE MarkedNow'[b] = new[b]
    <3>1. MarkedNow'[b] = [m \in Model |-> IF b \in in_progress'[m] THEN 1 ELSE 0]
      BY DEF MarkedNow
    <3>2. MarkedNow[b] = [m \in Model |-> IF b \in in_progress[m] THEN 1 ELSE 0]
      BY DEF MarkedNow
    <3>3. CASE b = c
      <4>1. new[b] = [m \in Model |-> IF m = k THEN 0 ELSE HandedNow[c][m]]
        BY <1>4, <3>3 DEF HandedNow
      <4>2. ASSUME NEW m \in Model
            PROVE  (IF b \in in_progress'[m] THEN 1 ELSE 0)
                     = (IF m = k THEN 0 ELSE HandedNow[c][m])
        BY <1>5, <3>2, <3>3
      <4>3. QED
        BY <3>1, <4>1, <4>2
    <3>4. CASE b # c
      <4>1. new[b] = MarkedNow[b]
        BY <3>4 DEF HandedNow
      <4>2. \A m \in Model : b \in in_progress'[m] <=> b \in in_progress[m]
        BY <1>5, <3>4
      <4>3. QED
        BY <3>1, <3>2, <4>1, <4>2
    <3>5. QED
      BY <3>3, <3>4
  <2>2. new = [b \in Batch |-> new[b]] /\ MarkedNow' = [b \in Batch |-> MarkedNow'[b]]
    BY DEF HandedNow, MarkedNow
  <2> HIDE DEF new
  <2>3. MarkedNow' = new
    BY <2>1, <2>2
  <2>4. QED
    BY <2>3 DEF new
<1>7. Tracking!Report(c, k)
  BY <1>3, <1>4, <1>6 DEF Tracking!Report, Tracking!Done, Done, HandedNow
<1>8. QED
  BY <1>7

\* The API thread's part of the step simulation.
LEMMA ApiTracks ==
  ASSUME Bounded, Disciplined, InstanceInv, PipelineInv, BoundInv, HandedNow = MarkedNow,
         HandedNow' = MarkedNow', ApiCall \/ ApiThread
  PROVE  Tracking!QuietNext \/ UNCHANGED <<schema, tasks, in_progress>>
<1>0. /\ CalmInv /\ api \in ApiState /\ CallHolds /\ DisposableModels \subseteq Model
      /\ generation \in SUBSET Batch
  BY LocalInstanceAssumption
  DEF PipelineInv, InstanceInv, ApiOK, LoaderOK, DataLoaderTypeOK
<1>1. UNCHANGED in_progress => UNCHANGED HandedNow
  BY DEF MarkedNow
<1>2. CASE CreateModelSchema
  <2>1. PICK m \in Model, s \in ModelStatus : m = api.model /\ s = api.status
    BY <1>0, <1>2 DEF CreateModelSchema, At, CallHolds, ApiState
  <2>2. Tracking!set_model_config(m, s) /\ UNCHANGED <<tasks, in_progress>>
    BY <1>2, <2>1
    DEF CreateModelSchema, set_model_config, Tracking!set_model_config, ModelStatus,
        Tracking!ModelStatus, batchManagerVars
  <2>3. Tracking!SetModel(m, s)
    BY <1>1, <2>2, Zenon DEF Tracking!SetModel, HandedNow
  <2>4. QED
    BY <2>3, Zenon DEF Tracking!QuietNext, Tracking!Work, Tracking!ModelStatus, ModelStatus
<1>3. ASSUME NEW m \in DisposableModels, DisposeModel(m)
      PROVE  Tracking!QuietNext
  <2>1. Tracking!clear_model_config(m) /\ UNCHANGED <<tasks, in_progress>> /\ m \in Model
    BY <1>0, <1>3
    DEF DisposeModel, clear_model_config, Tracking!clear_model_config, batchManagerVars
  <2>2. Tracking!ClearModel(m)
    BY <1>1, <2>1, Zenon DEF Tracking!ClearModel, HandedNow
  <2>3. QED
    BY <2>1, <2>2, Zenon DEF Tracking!QuietNext, Tracking!Work
<1>4. CASE DisposeModelBatches
  <2>1. PICK m \in Model : m = api.model
    BY <1>0, <1>4 DEF DisposeModelBatches, At, CallHolds
  <2>2. IsEverythingProcessed
    BY <1>0, <1>4 DEF DisposeModelBatches, At, CalmInv, Calm, Drained
  <2>3. in_progress \in [Model -> SUBSET Batch] /\ \A k \in Model : in_progress[k] = {}
    BY <2>2 DEF IsEverythingProcessed, InstanceInv, BatchManagerTypeOK
  <2>4. ForgetModel(m) /\ UNCHANGED schema
    BY <1>4, <2>1 DEF DisposeModelBatches
  <2>5. UNCHANGED in_progress
    BY <2>3, <2>4 DEF ForgetModel
  <2>6. Tracking!Forget(m) /\ Tracking!IsEverythingProcessed
    BY <1>1, <2>2, <2>4, <2>5, Zenon
    DEF Tracking!Forget, Tracking!ForgetModel, ForgetModel, HandedNow,
        Tracking!IsEverythingProcessed, IsEverythingProcessed
  <2>7. QED
    BY <2>6, Zenon DEF Tracking!QuietNext
<1>5. CASE InvokeAdd
  <2>1. PICK b \in Batch : b = Min(api.todo)
    BY <1>0, <1>5, MinOfBatches DEF InvokeAdd, At, CallHolds
  <2>2. Add(b) /\ UNCHANGED schema
    BY <1>5, <2>1 DEF InvokeAdd
  <2>3. Len(tasks) < MaxCalls * Cardinality(Batch) * Max(IterationCounts)
    <3> DEFINE C == Cardinality(Batch)
               K == MostIterations
               t == Cardinality(api.todo)
               r == (api.iterations - 1) * C
    <3>1. /\ C \in Nat /\ K \in Nat /\ t \in Nat /\ t > 0 /\ Len(tasks) \in Nat
          /\ MaxCalls \in Nat /\ calls \in Nat /\ calls > 0 /\ calls <= MaxCalls
      <4>1. api.todo \in SUBSET Batch /\ api.todo # {}
        BY <1>0, <1>5 DEF InvokeAdd, At, CallHolds
      <4>2. C \in Nat /\ t \in Nat /\ t > 0
        BY <4>1, SetsOfBatches
      <4>3. calls \in Nat /\ calls > 0 /\ calls <= MaxCalls /\ MaxCalls \in Nat
        BY <1>5, LocalInstanceAssumption DEF InvokeAdd, At, BoundInv, InstanceInv, ApiOK
      <4>4. Len(tasks) \in Nat
        BY DEF InstanceInv, BatchManagerTypeOK
      <4>5. QED
        BY <4>2, <4>3, <4>4, MostIterationsIs
    <3>2. r \in Nat
      <4>1. PICK n \in Nat : n = api.iterations /\ n > 0
        BY <1>0, <1>5 DEF InvokeAdd, At, CallHolds, ApiState
      <4>2. QED
        BY <3>1, <4>1, Repetitions
    <3>3. Len(tasks) + t + r <= K * C
      BY <1>5 DEF InvokeAdd, At, BoundInv
    <3>4. K * C \in Nat /\ K * C = C * K
      BY <3>1
    <3>5. 1 * (C * K) <= MaxCalls * (C * K) /\ C * K \in Nat
      BY <3>1, Fewer
    <3>6. MaxCalls * C * K = MaxCalls * (C * K) /\ 1 * (C * K) = C * K
      BY <3>1
    <3> DEFINE all == C * K
               big == MaxCalls * C * K
    <3>7. Len(tasks) + t + r <= all /\ all <= big /\ all \in Nat /\ big \in Nat
      BY <3>1, <3>3, <3>4, <3>5, <3>6
    <3> HIDE DEF C, K, t, r, all, big
    <3>8. Len(tasks) < big
      BY <3>1, <3>2, <3>7
    <3>9. QED
      BY <3>8 DEF big, C, K, MostIterations
  <2>4. Tracking!AddTask(b)
    BY <1>1, <2>2, <2>3, Zenon DEF Tracking!AddTask, Tracking!Add, Add, HandedNow
  <2>5. QED
    BY <2>4, Zenon DEF Tracking!QuietNext, Tracking!Work
<1>6. CASE \/ Plain \/ AddBatchCall \/ DisposeModelMerger \/ InvokeGeneration
           \/ WaitPush \/ WaitPull \/ WaitPulled \/ WaitReturn
           \/ \E m \in Model, s \in CreateStatuses : CreateModel(m, s)
           \/ \E n \in IterationCounts : n # 0 /\ InvokeIteration(n)
  BY <1>6, Zenon
  DEF Plain, AddBatchCall, AddBatch, DisposeModelMerger, InvokeGeneration, WaitPush, WaitPull,
      WaitPulled, WaitReturn, CreateModel, InvokeIteration, batchManagerVars
<1>7. QED
  BY <1>2, <1>3, <1>4, <1>5, <1>6, ApiCases

\* Every step maps to a step of QuietNext or to a stutter.
LEMMA TrackingStep ==
  ASSUME Bounded, Disciplined, InstanceInv, PipelineInv, PipelineInv', BoundInv, [Next]_vars
  PROVE  [Tracking!QuietNext]_(Tracking!trackingVars)
<1>1. HandedNow = MarkedNow /\ MarksInv /\ GenerationInv
  BY HandedIsMarked DEF PipelineInv
<1>2. HandedNow' = MarkedNow'
  <2>1. MarksInv'
    BY DEF PipelineInv
  <2>2. (HandedNow = MarkedNow)'
    BY <2>1, HandedIsMarked, PTL
  <2>3. QED
    BY <2>2
<1>3. ASSUME UNCHANGED <<schema, tasks, in_progress>>
      PROVE  UNCHANGED Tracking!trackingVars
  <2>1. HandedNow' = HandedNow
    BY <1>1, <1>2, <1>3 DEF MarkedNow
  <2>2. QED
    BY <1>3, <2>1, Zenon DEF Tracking!trackingVars, HandedNow
<1>4. CASE LoaderStep
  <2>1. UNCHANGED schema
    BY <1>4 DEF LoaderStep
  <2>2. CASE LoaderNext
    <3>1. \E i \in 1..Len(tasks) : Tracking!HandOut(i)
      BY <1>1, <1>2, <2>1, <2>2, LoaderHandsOut
    <3>2. QED
      BY <3>1, Zenon DEF Tracking!QuietNext, Tracking!Work
  <2>3. CASE ~LoaderNext
    <3>1. loader.pc = "batch" => loader.batch \in generation
      BY <1>1 DEF GenerationInv
    <3>2. UNCHANGED batchManagerVars
      BY <1>4, <2>3, <3>1
      DEF LoaderStep, LoaderThread, LoaderStop, LoaderSize, LoaderNothing, LoaderBatch,
          LoaderCache, LoaderPush
    <3>3. QED
      BY <1>3, <2>1, <3>2 DEF batchManagerVars
  <2>4. QED
    BY <2>2, <2>3
<1>5. CASE MergerStep
  <2>1. UNCHANGED <<schema, tasks>>
    BY <1>5, MergerLeaves
  <2>2. CASE MergerCallbackDone
    <3>1. \E b \in Batch, m \in Model : Tracking!Report(b, m)
      BY <1>1, <1>2, <2>1, <2>2, MergerReports
    <3>2. QED
      BY <3>1, Zenon DEF Tracking!QuietNext, Tracking!Work
  <2>3. CASE ~MergerCallbackDone
    <3>1. merger \in MergerState /\ MergerThread
      BY <1>5 DEF InstanceInv, MergerOK, MergerTypeOK, MergerStep
    <3>2. UNCHANGED in_progress
      BY <2>3, <3>1, MergerGoes
    <3>3. QED
      BY <1>3, <2>1, <3>2
  <2>4. QED
    BY <2>2, <2>3
<1>6. CASE UNCHANGED vars \/ \E p \in Processors : ProcessorStep(p)
  <2>1. UNCHANGED <<schema, tasks, in_progress>>
    BY <1>6, Zenon DEF ProcessorStep, vars, batchManagerVars
  <2>2. QED
    BY <1>3, <2>1
<1>7. CASE ApiCall \/ ApiThread
  BY <1>1, <1>2, <1>3, <1>7, ApiTracks
<1>8. QED
  BY <1>4, <1>5, <1>6, <1>7 DEF Next

\* The pipeline keeps its side of the batch manager's contract: a report is made
\* with Done exactly once for each model that a batch was handed out for, and a
\* model is forgotten when nothing is out.  What is proved of BatchTracking for
\* quiet callers holds of the local instance.
THEOREM PipelineImplementsTracking ==
  ASSUME Disciplined, Bounded
  PROVE  Spec => ImplementsTracking
<1>1. Init /\ InstanceInv /\ PipelineInv => BoundInv
  <2>1. ASSUME Init PROVE BoundInv
    BY <2>1, LocalInstanceAssumption DEF Init, Ready, BoundInv
  <2>2. QED
    BY <2>1
<1>2. PipelineInv => CalmInv
  BY DEF PipelineInv
<1>3. InstanceInv /\ InstanceInv' /\ CalmInv /\ BoundInv /\ [Next]_vars => BoundInv'
  BY BoundStep
<1>4. Init /\ InstanceInv /\ PipelineInv => Tracking!Init
  BY TrackingInit
<1>5. InstanceInv /\ PipelineInv /\ PipelineInv' /\ BoundInv /\ [Next]_vars
        => [Tracking!QuietNext]_(Tracking!trackingVars)
  BY TrackingStep
<1>6. QED
  BY <1>1, <1>2, <1>3, <1>4, <1>5, InstanceInvariant, PipelineInvariant, PTL
  DEF Spec, ImplementsTracking, Tracking!QuietSpec

-----------------------------------------------------------------------------
(* Theta is re-used.                                                       *)
\* No call of the API touches the sums or the cache, and only the creation of a
\* model puts a new one in place, without counts.
LEMMA ApiKeeps ==
  ASSUME InstanceInv, ApiCall \/ ApiThread
  PROVE  /\ UNCHANGED <<topic_model_inc, cache>>
         /\ \A m \in Model :
              \/ topic_model'[m] \in {topic_model[m], Nil}
              \/ \E k \in Nat : topic_model'[m] = NewModel(k)
<1>1. CASE \/ Plain \/ AddBatchCall \/ InvokeGeneration \/ InvokeAdd \/ WaitPush \/ WaitPull
           \/ WaitPulled \/ WaitReturn \/ CreateModelSchema \/ DisposeModelBatches
           \/ \E m \in DisposableModels : DisposeModel(m)
           \/ \E n \in IterationCounts : n # 0 /\ InvokeIteration(n)
  <2>1. UNCHANGED <<topic_model, topic_model_inc, cache>>
    BY <1>1, Zenon
    DEF Plain, AddBatchCall, AddBatch, InvokeGeneration, InvokeAdd, WaitPush, WaitPull,
        WaitPulled, WaitReturn, CreateModelSchema, DisposeModelBatches, DisposeModel,
        InvokeIteration, dataLoaderVars, mergerVars, mergerInternals
  <2>2. QED
    BY <2>1
<1>2. CASE DisposeModelMerger
  <2>1. UNCHANGED <<topic_model_inc, cache>>
    BY <1>2, Zenon DEF DisposeModelMerger, dataLoaderVars, mergerInternals
  <2>2. topic_model' = [topic_model EXCEPT ![api.model] = Nil]
    BY <1>2 DEF DisposeModelMerger, DisposeTopicModel
  <2>3. topic_model \in [Model -> TopicModel \cup {Nil}]
    BY DEF InstanceInv, MergerOK, MergerTypeOK
  <2>4. QED
    BY <2>1, <2>2, <2>3
<1>3. ASSUME NEW m \in Model, NEW s \in CreateStatuses, CreateModel(m, s)
      PROVE  /\ UNCHANGED <<topic_model_inc, cache>>
             /\ \A n \in Model :
                  \/ topic_model'[n] \in {topic_model[n], Nil}
                  \/ \E k \in Nat : topic_model'[n] = NewModel(k)
  <2>1. UNCHANGED <<topic_model_inc, cache>>
    BY <1>3, Zenon DEF CreateModel, dataLoaderVars, mergerInternals
  <2>2. CreateTopicModel(m)
    BY <1>3 DEF CreateModel
  <2>3. /\ topic_model \in [Model -> TopicModel \cup {Nil}]
        /\ incarnations[m] + 1 \in Nat
    BY DEF InstanceInv, MergerOK, MergerTypeOK
  <2>4. QED
    BY <2>1, <2>2, <2>3 DEF CreateTopicModel
<1>4. QED
  BY <1>1, <1>2, <1>3, ApiCases

\* What a pull publishes is in the cache.
LEMMA PublishedIsCached ==
  ASSUME InstanceInv, TasksInv, PullInv, CacheInv, CacheTheta, MergerPull,
         NEW m \in Model, NEW b \in Batch, Published(m, b)'
  PROVE  Published(m, b) \/ <<b, m>> \in cache
<1> DEFINE k == Min(merger.todo)
<1>0. /\ topic_model \in [Model -> TopicModel \cup {Nil}]
      /\ merger.todo \in SUBSET Model
  BY DEF InstanceInv, MergerOK, MergerTypeOK, MergerState
<1>1. /\ merger.pc = "pull" /\ merger.todo # {} /\ ~PullStops(k)
      /\ topic_model' = [topic_model EXCEPT ![k].n_wt = topic_model_inc[k].n_wt]
  BY DEF MergerPull
<1>2. k \in merger.todo /\ k \in Model
  BY <1>0, <1>1, MinOfModels
<1>3. topic_model[k] \in TopicModel /\ topic_model_inc[k] # Nil
  BY <1>0, <1>1, <1>2 DEF PullStops
<1>4. CASE m # k
  <2>1. topic_model'[m] = topic_model[m]
    BY <1>0, <1>1, <1>2, <1>4
  <2>2. QED
    BY <2>1 DEF Published
<1>5. CASE m = k
  <2>1. topic_model'[m].n_wt = topic_model_inc[m].n_wt
    BY <1>0, <1>1, <1>2, <1>3, <1>5 DEF TopicModel
  <2>2. Merged(m)[b] > 0
    BY <1>3, <1>5, <2>1 DEF Published, Merged
  <2>3. api.pc = "wait.pull" /\ ~sync_event
    BY <1>1, PullOfCall
  <2>4. m \in EnabledModels /\ Merged(m) = due[m]
    BY <1>1, <1>2, <1>5, <2>3 DEF PullInv
  <2>5. due[m][b] > 0
    BY <2>2, <2>4
  <2>6. QED
    BY <2>3, <2>4, <2>5 DEF CacheInv
<1>6. QED
  BY <1>4, <1>5

\* Entries are never taken out of the cache, and no model is published while the
\* loader holds a batch.
LEMMA ReuseStep ==
  ASSUME InstanceInv, InstanceInv', SchemaInv, CleanInv, MarksInv, TasksInv, CalmInv, PullInv,
         CacheInv, ReuseInv, [Next]_vars
  PROVE  ReuseInv'
<1> DEFINE Rows == \A m \in Model, b \in Batch : Published(m, b) => <<b, m>> \in cache
           Seen == loader.pc = "push" =>
                     \A m \in EnabledModels :
                       Published(m, loader.batch) => m \in loader.cached_theta
<1>1. SUFFICES ASSUME CacheTheta
      PROVE  Rows' /\ Seen'
  BY DEF ReuseInv
<1>0. /\ Rows /\ Seen /\ EnabledModels \subseteq Model /\ EnabledModels' \subseteq Model
      /\ loader \in LoaderState
      /\ loader.pc = "push" => loader.batch \in Batch
  BY <1>1 DEF ReuseInv, EnabledModels, InstanceInv, LoaderOK, DataLoaderTypeOK, LoaderHolds
<1>2. ASSUME \A m \in Model, b \in Batch : Published(m, b)' => Published(m, b) \/ <<b, m>> \in cache,
             cache \subseteq cache'
      PROVE  Rows'
  BY <1>0, <1>2
<1>3. ASSUME UNCHANGED loader, EnabledModels' \subseteq EnabledModels \/ loader.pc # "push",
             \A m \in Model, b \in Batch :
               loader.pc = "push" /\ Published(m, b)' => Published(m, b)
      PROVE  Seen'
  BY <1>0, <1>3
<1>4. ASSUME IsEverythingProcessed
      PROVE  loader.pc # "push"
  <2>1. \A b \in Batch : Unprocessed(b) = 0
    BY <1>4, NobodyHolds
  <2>2. \A b \in Batch : loader.batch # b
    BY <2>1, PlacesOK DEF Places
  <2>3. QED
    BY <1>0, <2>2
<1>5. CASE UNCHANGED vars \/ \E p \in Processors : ProcessorStep(p)
  <2>1. UNCHANGED <<schema, topic_model, cache, loader>>
    BY <1>5, ProcessorLeaves DEF vars, mergerVars, dataLoaderVars
  <2>2. EnabledModels' = EnabledModels /\ \A m, b : Published(m, b)' <=> Published(m, b)
    BY <2>1 DEF EnabledModels, Published
  <2>3. QED
    BY <1>0, <2>1, <2>2
<1>6. CASE LoaderStep
  <2>1. UNCHANGED <<schema, topic_model, cache>>
    BY <1>6, LoaderLeaves
  <2>2. EnabledModels' = EnabledModels /\ \A m, b : Published(m, b)' <=> Published(m, b)
    BY <2>1 DEF EnabledModels, Published
  <2>3. Rows'
    BY <1>0, <2>1, <2>2
  <2>4. ASSUME loader'.pc = "push"
        PROVE  Seen'
    <3>0. ASSUME \/ LoaderStop \/ LoaderSize \/ LoaderNext \/ LoaderNothing
                 \/ LoaderBatch \/ LoaderPush
          PROVE  FALSE
      <4>1. \A pc : LoaderGoto(pc) => loader'.pc = pc
        BY <1>0 DEF LoaderGoto, LoaderState
      <4>2. ~LoaderAgain
        BY <2>4 DEF LoaderAgain
      <4>3. ~LoaderNext
        BY <1>0, <2>4 DEF LoaderNext, LoaderState
      <4>4. QED
        BY <2>4, <3>0, <4>1, <4>2, <4>3
        DEF LoaderStop, LoaderSize, LoaderNothing, LoaderBatch, LoaderPush
    <3>1. LoaderCache
      BY <1>6, <3>0 DEF LoaderStep, LoaderThread
    <3>2. /\ loader.pc = "cache" /\ loader'.batch = loader.batch
          /\ loader'.cached_theta = CachedTheta(loader.batch)
      BY <1>0, <3>1 DEF LoaderCache, LoaderState
    <3>3. loader.batch \in Batch
      BY <3>2 DEF InstanceInv, LoaderOK, LoaderHolds
    <3>4. ASSUME NEW m \in EnabledModels, Published(m, loader.batch)
          PROVE  m \in loader'.cached_theta
      BY <1>0, <3>2, <3>3, <3>4 DEF CachedTheta
    <3>5. QED
      BY <2>2, <3>2, <3>4
  <2>5. QED
    BY <2>3, <2>4
<1>7. CASE MergerStep
  <2>0. UNCHANGED <<schema, loader>> /\ MergerThread
    BY <1>7, MergerLeaves DEF MergerStep
  <2>1. EnabledModels' = EnabledModels
    BY <2>0 DEF EnabledModels
  <2>2. CASE MergerPull
    <3>1. UNCHANGED cache
      BY <2>2 DEF MergerPull
    <3>2. Rows'
      BY <1>1, <1>2, <2>2, <3>1, PublishedIsCached
    <3>3. IsEverythingProcessed
      BY <2>2, PullOfCall DEF CalmInv, MergerPull
    <3>4. Seen'
      BY <1>3, <1>4, <2>0, <2>1, <3>3
    <3>5. QED
      BY <3>2, <3>4
  <2>3. CASE ~MergerPull
    <3>1. UNCHANGED topic_model
      BY <2>0, <2>3, Zenon
      DEF MergerThread, MergerStop, MergerTop, MergerTaskStep, MergerNoTask, MergerPop,
          MergerMerge, MergerCallbackDone, MergerCallbackCache, MergerPullReturn, mergerModels
    <3>2. \A m, b : Published(m, b)' <=> Published(m, b)
      BY <3>1 DEF Published
    <3>3. cache \subseteq cache'
      <4>1. CASE MergerCallbackCache
        BY <1>1, <4>1 DEF MergerCallbackCache, CallbackCache
      <4>2. CASE ~MergerCallbackCache
        BY <2>0, <2>3, <4>2, Zenon
        DEF MergerThread, MergerStop, MergerTop, MergerTaskStep, MergerNoTask, MergerPop,
            MergerMerge, MergerCallbackDone, MergerPullReturn
      <4>3. QED
        BY <4>1, <4>2
    <3>4. QED
      BY <1>2, <1>3, <2>0, <2>1, <3>2, <3>3
  <2>4. QED
    BY <2>2, <2>3
<1>8. CASE ApiCall \/ ApiThread
  <2>0. UNCHANGED <<loader, cache>>
    BY <1>8, ApiFlow, ApiKeeps
  <2>1. ASSUME NEW m \in Model, NEW b \in Batch, Published(m, b)'
        PROVE  Published(m, b)
    <3>1. CASE topic_model'[m] \in {topic_model[m], Nil}
      BY <2>1, <3>1 DEF Published
    <3>2. ASSUME NEW k \in Nat, topic_model'[m] = NewModel(k)
          PROVE  Published(m, b)
      <4>1. topic_model'[m].n_wt[b] = 0
        BY <3>2 DEF NewModel, NoCounts
      <4>2. QED
        BY <2>1, <4>1 DEF Published
    <3>3. QED
      BY <1>8, <3>1, <3>2, ApiKeeps
  <2>2. Rows'
    BY <1>2, <2>0, <2>1
  <2>3. EnabledModels' \subseteq EnabledModels \/ loader.pc # "push"
    <3>1. CASE CreateModelSchema
      <4>1. IsEverythingProcessed
        BY <3>1, ApiPcs DEF CalmInv, Calm, Drained
      <4>2. QED
        BY <1>4, <4>1
    <3>2. CASE \E m \in DisposableModels : DisposeModel(m)
      <4>1. PICK k \in DisposableModels : clear_model_config(k)
        BY <3>2 DEF DisposeModel
      <4>2. QED
        BY <4>1 DEF clear_model_config, EnabledModels, InstanceInv, SchemaTypeOK
    <3>3. CASE ~CreateModelSchema /\ ~(\E m \in DisposableModels : DisposeModel(m))
      <4>1. UNCHANGED schema
        BY <1>8, <3>3, ApiCases, Zenon
        DEF Plain, CreateModel, InvokeIteration, AddBatchCall, DisposeModelMerger,
            DisposeModelBatches, InvokeGeneration, InvokeAdd, WaitPush, WaitPull, WaitPulled,
            WaitReturn
      <4>2. QED
        BY <4>1 DEF EnabledModels
    <3>4. QED
      BY <3>1, <3>2, <3>3
  <2>4. QED
    BY <1>3, <2>0, <2>1, <2>2, <2>3
<1>9. QED
  BY <1>5, <1>6, <1>7, <1>8 DEF Next

\* ThetaReused: a batch that the published model counts is queued together with the
\* theta that was cached when it was counted, however many passes an iteration
\* makes, when models change only while nothing is under way.
THEOREM ThetaIsReused == ASSUME Disciplined PROVE Spec => []ThetaReused
<1>1. Init /\ InstanceInv => ReuseInv
  <2>1. ASSUME Init
        PROVE  ReuseInv
    <3>1. /\ loader.pc = "size"
          /\ topic_model = [m \in Model |-> IF m \in GetModelNames THEN NewModel(0) ELSE Nil]
      BY <2>1 DEF Init, DataLoaderInit, MergerInit
    <3>2. \A m \in Model, b \in Batch : ~Published(m, b)
      BY <3>1 DEF Published, NewModel, NoCounts
    <3>3. QED
      BY <3>1, <3>2 DEF ReuseInv
  <2>2. QED
    BY <2>1
<1>2. InstanceInv /\ InstanceInv' /\ PipelineInv /\ ReuseInv /\ [Next]_vars => ReuseInv'
  BY ReuseStep DEF PipelineInv
<1>3. ReuseInv => ThetaReused
  BY DEF ReuseInv, ThetaReused
<1>4. QED
  BY <1>1, <1>2, <1>3, InstanceInvariant, PipelineInvariant, PTL DEF Spec

-----------------------------------------------------------------------------
(* The marks of the batch manager.                                         *)
\* batch_manager.h:25: no two copies of a batch are out for a model, from the task
\* list to the report of its increment.
THEOREM OneCopyIsOut == ASSUME Disciplined PROVE Spec => []AtMostOneCopy
<1>1. PipelineInv => AtMostOneCopy
  BY DEF PipelineInv, MarksInv, AtMostOneCopy
<1>2. QED
  BY <1>1, PipelineInvariant, PTL

\* Every mark is the mark of a copy that is out, and every copy is marked.
THEOREM MarksAreCopies == ASSUME Disciplined PROVE Spec => []MarkedIffHanded
<1>1. PipelineInv => MarkedIffHanded
  BY DEF PipelineInv, MarksInv, MarkedIffHanded, EnabledModels
<1>2. QED
  BY <1>1, PipelineInvariant, PTL
===============================================================================
