------------------------ MODULE LocalInstanceProofs ------------------------
(***************************************************************************)
(* For any sets of batches, models and processors, any bounds and any      *)
(* calls: the types of a local instance, the bounds of the processor queue *)
(* and of the merger queue, and that the merger has every model the schema *)
(* lists.                                                                  *)
(***************************************************************************)
EXTENDS LocalInstanceProps, SequenceTheorems, FiniteSetTheorems,
        WellFoundedInduction, TLAPS

\* A thread between two steps holds what its next step uses.
LoaderHolds ==
  loader.pc \in {"batch", "cache", "push"} => loader.batch \in Batch

MergerHoldsIncrement ==
  merger.pc \in {"merge", "done", "cache"} => merger.increment \in ModelIncrement

ProcessorHolds ==
  \A p \in Processors :
    /\ processor[p].pc \in {"schema", "get", "push"} => processor[p].part \in ProcessorInput
    /\ processor[p].pc \in {"get", "push"} => processor[p].todo # {}

CallHolds ==
  /\ api.pc \in {"create", "dispose.merger", "dispose.batches"} => api.model \in Model
  /\ api.pc = "create" => api.status # "absent"
  /\ api.pc \in {"invoke.reset", "invoke.add"} => api.iterations > 0
  /\ api.pc = "invoke.add" => api.todo # {} /\ api.todo \subseteq generation

\* The loader that has seen room in the queue will push one batch at most.
RoomReserved ==
  Len(processor_queue) + One(loader.pc \in {"next", "batch", "cache", "push"})
    <= ProcessorQueueMaxSize

\* The two calls that change the set of models, half way.
ModelsInOrder ==
  /\ SchemaModelsExist
  /\ api.pc = "create" => topic_model[api.model] # Nil
  /\ api.pc = "dispose.merger" => schema[api.model] = "absent"

LoaderOK == DataLoaderTypeOK /\ LoaderHolds /\ RoomReserved

MergerOK == MergerTypeOK /\ MergerHoldsIncrement

ProcessorOK == ProcessorTypeOK /\ ProcessorHolds

ApiOK ==
  /\ api \in ApiState /\ calls \in Nat /\ quiet \in BOOLEAN
  /\ due \in [Model -> Counters]
  /\ CallHolds

\* The inductive invariant.
InstanceInv ==
  /\ SchemaTypeOK /\ BatchManagerTypeOK /\ LoaderOK /\ MergerOK /\ ProcessorOK
  /\ ApiOK /\ ModelsInOrder

\* A nonempty set of naturals has a least element: the maps and sets of the
\* code are walked from their least key.
LEMMA MinIsMember ==
  ASSUME NEW S \in SUBSET Nat, S # {}
  PROVE  Min(S) \in S
<1> DEFINE R == {ss \in Nat \X Nat : ss[1] < ss[2]}
<1>1. IsWellFoundedOn(R, Nat)
  BY NatLessThanWellFounded, Zenon DEF OpToRel
<1>2. \A x, y \in Nat : x < y => <<x, y>> \in R
  OBVIOUS
<1> HIDE DEF R
<1>3. PICK x \in S : \A y \in S : ~ (<<y, x>> \in R)
  BY <1>1, WFMin
<1>4. \A y \in S : x \in Nat /\ y \in Nat /\ ~ (y < x)
  BY <1>2, <1>3
<1>5. \E k \in S : \A y \in S : k =< y
  BY <1>4
<1>6. QED
  BY <1>5, Zenon DEF Min

LEMMA MinOfModels ==
  ASSUME NEW S \in SUBSET Model, S # {}
  PROVE  Min(S) \in S /\ Min(S) \in Model
BY MinIsMember, ModelAssumption

LEMMA MinOfBatches ==
  ASSUME NEW S \in SUBSET Batch, S # {}
  PROVE  Min(S) \in S /\ Min(S) \in Batch
BY MinIsMember, BatchAssumption

LEMMA TakeOut ==
  ASSUME NEW S, NEW s \in Seq(S), NEW i \in 1..Len(s)
  PROVE  RemoveAt(s, i) \in Seq(S) /\ s[i] \in S
<1>1. SubSeq(s, 1, i - 1) \in Seq(S) /\ SubSeq(s, i + 1, Len(s)) \in Seq(S)
  BY SubSeqProperties
<1>2. QED
  BY <1>1, ConcatProperties, ElementOfSeq DEF RemoveAt

LEMMA PopFront ==
  ASSUME NEW S, NEW s \in Seq(S), s # <<>>
  PROVE  Head(s) \in S /\ Tail(s) \in Seq(S) /\ Len(Tail(s)) = Len(s) - 1
BY HeadTailProperties

LEMMA PushBack ==
  ASSUME NEW S, NEW s \in Seq(S), NEW e \in S
  PROVE  Append(s, e) \in Seq(S) /\ Len(Append(s, e)) = Len(s) + 1
BY AppendProperties
-----------------------------------------------------------------------------
LEMMA InitInstance == Init => InstanceInv
<1> SUFFICES ASSUME Init PROVE InstanceInv
  OBVIOUS
<1> USE LocalInstanceAssumption, DataLoaderAssumption DEF Init
<1>1. SchemaTypeOK /\ BatchManagerTypeOK /\ DataLoaderTypeOK
  BY EmptySeq DEF SchemaTypeOK, BatchManagerInit, BatchManagerTypeOK, DataLoaderInit,
         DataLoaderTypeOK, LoaderState
<1>2. NoCounts \in Counters /\ \A m \in Model : NewModel(0) \in TopicModel
  BY DEF NoCounts, Counters, NewModel, TopicModel
<1>3. MergerTypeOK
  <2>1. topic_model \in [Model -> TopicModel \cup {Nil}]
    BY <1>2 DEF MergerInit
  <2>2. merger_queue \in Seq(ModelIncrement) /\ internal_task_queue \in Seq(MergerTask)
    BY EmptySeq DEF MergerInit
  <2>3. QED
    BY <1>2, <2>1, <2>2 DEF MergerInit, MergerTypeOK, MergerState
<1>4. ProcessorTypeOK
  BY DEF ProcessorInit, NewProcessor, ProcessorTypeOK, ProcessorState
<1>5. ApiOK
  BY <1>2 DEF ApiOK, CallHolds, Ready, ApiState, ApiPc, ModelStatus
<1>6. LoaderHolds /\ MergerHoldsIncrement /\ ProcessorHolds
  BY DEF LoaderHolds, MergerHoldsIncrement, ProcessorHolds, DataLoaderInit,
         MergerInit, ProcessorInit, NewProcessor
<1>7. RoomReserved
  BY DEF RoomReserved, One, DataLoaderInit
<1>8. \A m \in Model : NewModel(0) # Nil
  BY <1>2, NilRecordAssumption
<1>9. ModelsInOrder
  BY <1>8 DEF ModelsInOrder, SchemaModelsExist, MergerInit, Ready, GetModelNames
<1>10. QED
  BY <1>1, <1>3, <1>4, <1>5, <1>6, <1>7, <1>9
  DEF InstanceInv, LoaderOK, MergerOK, ProcessorOK
-----------------------------------------------------------------------------
\* What each thread may disturb.
LEMMA LoaderMoves ==
  ASSUME LoaderOK, NEW s \in LoaderState, loader' = s,
         s.pc \in {"batch", "cache", "push"} => s.batch \in Batch,
         \/ s.pc \in {"size", "stopped"}
         \/ loader.pc \in {"next", "batch", "cache", "push"},
         UNCHANGED <<generation, cache, processor_queue, loader_stopping>>
  PROVE  LoaderOK'
<1>1. DataLoaderTypeOK' /\ LoaderHolds'
  BY DEF LoaderOK, DataLoaderTypeOK, LoaderHolds
<1>2. Len(processor_queue) \in Nat
  BY LenProperties DEF LoaderOK, DataLoaderTypeOK
<1>3. RoomReserved'
  BY <1>2, DataLoaderAssumption DEF LoaderOK, RoomReserved, One
<1>4. QED
  BY <1>1, <1>3 DEF LoaderOK

LEMMA LoaderStepOK ==
  ASSUME InstanceInv, LoaderStep
  PROVE  BatchManagerTypeOK' /\ LoaderOK'
<1> USE DEF LoaderOK, LoaderHolds, RoomReserved, One, DataLoaderTypeOK, LoaderState,
            InstanceInv, BatchManagerTypeOK, batchManagerVars
<1> USE DataLoaderAssumption, LenProperties
<1>1. CASE LoaderStop
  BY <1>1 DEF LoaderStop, LoaderGoto
<1>2. CASE LoaderSize
  BY <1>2 DEF LoaderSize, LoaderGoto
<1>3. CASE LoaderNext
  <2>1. PICK i \in 1..Len(tasks) :
          /\ NextTask(i)
          /\ loader' = [loader EXCEPT !.pc = "batch", !.batch = tasks[i]]
    BY <1>3 DEF LoaderNext
  <2>2. tasks' \in Seq(Batch) /\ tasks[i] \in Batch
    BY <2>1, TakeOut DEF NextTask
  <2>3. in_progress' \in [Model -> SUBSET Batch]
    BY <2>1, <2>2 DEF NextTask
  <2>4. QED
    BY <1>3, <2>1, <2>2, <2>3 DEF LoaderNext
<1>4. CASE LoaderNothing
  <2> DEFINE new == [loader EXCEPT !.pc = "size"]
  <2>1. /\ loader' = new /\ new \in LoaderState /\ new.pc = "size"
        /\ UNCHANGED <<tasks, in_progress, generation, cache, processor_queue, loader_stopping>>
    BY <1>4 DEF LoaderNothing, LoaderGoto
  <2> HIDE DEF LoaderOK
  <2>2. LoaderOK'
    BY <2>1, LoaderMoves
  <2>3. QED
    BY <2>1, <2>2
<1>5. CASE LoaderBatch
  <2>1. CASE loader.batch \in generation
    <3> DEFINE new == [loader EXCEPT !.pc = "cache"]
    <3>1. /\ loader' = new /\ new \in LoaderState /\ new.pc = "cache" /\ new.batch \in Batch
          /\ loader.pc = "batch"
          /\ UNCHANGED <<tasks, in_progress, generation, cache, processor_queue, loader_stopping>>
      BY <1>5, <2>1 DEF LoaderBatch, LoaderGoto
    <3> HIDE DEF LoaderOK
    <3>2. LoaderOK'
      BY <3>1, LoaderMoves
    <3>3. QED
      BY <3>1, <3>2
  <2>2. CASE loader.batch \notin generation
    <3> DEFINE new == [pc |-> "size", batch |-> Nil, cached_theta |-> {}]
    <3>1. /\ loader' = new /\ new \in LoaderState /\ new.pc = "size"
          /\ UNCHANGED <<generation, cache, processor_queue, loader_stopping>>
      BY <1>5, <2>2 DEF LoaderBatch, LoaderAgain
    <3> HIDE DEF LoaderOK
    <3>2. LoaderOK'
      BY <3>1, LoaderMoves
    <3>3. BatchManagerTypeOK'
      BY <1>5, <2>2 DEF LoaderBatch, DoneForAll
    <3>4. QED
      BY <3>2, <3>3
  <2>3. QED
    BY <2>1, <2>2
<1>6. CASE LoaderCache
  BY <1>6 DEF LoaderCache, CachedTheta
<1>7. CASE LoaderPush
  <2> DEFINE part == [batch |-> loader.batch, cached_theta |-> loader.cached_theta]
  <2>1. part \in ProcessorInput
    BY <1>7 DEF LoaderPush, ProcessorInput
  <2>2. processor_queue' \in Seq(ProcessorInput) /\ Len(processor_queue') = Len(processor_queue) + 1
    BY <1>7, <2>1, PushBack DEF LoaderPush
  <2>3. QED
    BY <1>7, <2>2 DEF LoaderPush, LoaderAgain
<1>8. QED
  BY <1>1, <1>2, <1>3, <1>4, <1>5, <1>6, <1>7 DEF LoaderStep, LoaderThread

\* The merger adds counters to models and removes none but increments.
LEMMA MergerStepOK ==
  ASSUME InstanceInv, MergerStep
  PROVE  /\ BatchManagerTypeOK' /\ MergerOK' /\ cache' \in SUBSET (Batch \X Model)
         /\ \A m \in Model : topic_model[m] # Nil => topic_model'[m] # Nil
<1> USE DEF MergerOK, MergerHoldsIncrement, MergerTypeOK, MergerState, InstanceInv,
            LoaderOK, BatchManagerTypeOK, DataLoaderTypeOK, batchManagerVars,
            mergerModels, mergerQueues, MergerGoto
<1>1. CASE MergerStop
  BY <1>1 DEF MergerStop
<1>2. CASE MergerTop
  BY <1>2 DEF MergerTop
<1>3. CASE MergerTaskStep
  <2>1. internal_task_queue' \in Seq(MergerTask)
    BY <1>3, PopFront DEF MergerTaskStep
  <2>2. ResetScores \in [Model -> Counters]
    BY DEF ResetScores, NoCounts, Counters
  <2> DEFINE task == Head(internal_task_queue)
  <2>3. CASE task.task_type = "kDisposeModel"
    BY <1>3, <2>1, <2>3 DEF MergerTaskStep
  <2>4. CASE task.task_type = "kForcePullTopicModel"
    BY <1>3, <2>1, <2>4, ZenonT(30) DEF MergerTaskStep
  <2>5. CASE task.task_type = "kForcePushTopicModelIncrement"
    BY <1>3, <2>1, <2>5 DEF MergerTaskStep
  <2>6. CASE task.task_type = "kForceResetScores"
    BY <1>3, <2>1, <2>2, <2>6 DEF MergerTaskStep
  <2>7. QED
    BY <1>3, <2>3, <2>4, <2>5, <2>6 DEF MergerTaskStep
<1>4. CASE MergerNoTask
  BY <1>4 DEF MergerNoTask
<1>5. CASE MergerPop
  <2>1. CASE merger_queue = <<>>
    BY <1>5, <2>1 DEF MergerPop
  <2>2. CASE merger_queue # <<>>
    <3>1. Head(merger_queue) \in ModelIncrement /\ Tail(merger_queue) \in Seq(ModelIncrement)
      BY <2>2, PopFront
    <3>2. QED
      BY <1>5, <2>2, <3>1 DEF MergerPop
  <2>3. QED
    BY <2>1, <2>2
<1>6. CASE MergerMerge
  <2> DEFINE inc == merger.increment
             cur == topic_model[inc.model]
             old == IF topic_model_inc[inc.model] = Nil
                    THEN NewModel(cur.incarnation) ELSE topic_model_inc[inc.model]
  <2>1. inc \in ModelIncrement /\ inc.model \in Model /\ inc.batch \in Batch
    BY <1>6 DEF MergerMerge, ModelIncrement
  <2>2. CASE cur = Nil
    BY <1>6, <2>2 DEF MergerMerge
  <2>3. CASE cur # Nil
    <3>1. cur \in TopicModel
      BY <2>1, <2>3
    <3>2. old \in TopicModel
      BY <2>1, <3>1 DEF TopicModel, NewModel, NoCounts, Counters
    <3> HIDE DEF old
    <3>3. ApplyDiff(old, inc.batch) \in TopicModel
      <4>1. old.n_wt \in [Batch -> Nat] /\ old.incarnation \in Nat
        BY <3>2 DEF TopicModel, Counters
      <4>2. [old.n_wt EXCEPT ![inc.batch] = @ + 1] \in Counters
        BY <2>1, <4>1 DEF Counters
      <4>3. ApplyDiff(old, inc.batch) =
              [old EXCEPT !.n_wt = [old.n_wt EXCEPT ![inc.batch] = @ + 1]]
        BY DEF ApplyDiff
      <4>4. QED
        BY <3>2, <4>2, <4>3 DEF TopicModel
    <3>4. topic_model_inc' = [topic_model_inc EXCEPT ![inc.model] = ApplyDiff(old, inc.batch)]
      BY <1>6, <2>3 DEF MergerMerge, old
    <3>5. topic_model_inc' \in [Model -> TopicModel \cup {Nil}]
      BY <3>3, <3>4
    <3>6. scores' \in [Model -> Counters]
      <4>1. scores' = [scores EXCEPT ![inc.model] =
                         [scores[inc.model] EXCEPT ![inc.batch] = @ + 1]]
        BY <1>6, <2>3 DEF MergerMerge
      <4>2. scores[inc.model] \in [Batch -> Nat]
        BY <2>1 DEF Counters
      <4>3. [scores[inc.model] EXCEPT ![inc.batch] = @ + 1] \in Counters
        BY <2>1, <4>2 DEF Counters
      <4>4. QED
        BY <4>1, <4>3
    <3>7. QED
      BY <1>6, <2>1, <3>5, <3>6 DEF MergerMerge
  <2>4. QED
    BY <2>2, <2>3
<1>7. CASE MergerCallbackDone
  BY <1>7 DEF MergerCallbackDone, CallbackDone, Done
<1>8. CASE MergerCallbackCache
  <2>1. merger.increment.batch \in Batch /\ merger.increment.model \in Model
    BY <1>8 DEF MergerCallbackCache, ModelIncrement
  <2>2. QED
    <3>1. cache' \in SUBSET (Batch \X Model)
      BY <1>8, <2>1 DEF MergerCallbackCache, CallbackCache
    <3>2. QED
      BY <1>8, <3>1 DEF MergerCallbackCache
<1>9. CASE MergerPull
  <2> DEFINE m == Min(merger.todo)
  <2>1. m \in Model
    BY <1>9, MinOfModels DEF MergerPull
  <2>2. topic_model[m] \in TopicModel /\ topic_model_inc[m] \in TopicModel
    BY <1>9, <2>1 DEF MergerPull, PullStops
  <2> DEFINE new == [topic_model[m] EXCEPT !.n_wt = topic_model_inc[m].n_wt]
  <2>3. new \in TopicModel /\ new # Nil
    BY <2>2, NilRecordAssumption DEF TopicModel
  <2>4. topic_model' = [topic_model EXCEPT ![m] = new]
    BY <1>9 DEF MergerPull
  <2>5. /\ topic_model' \in [Model -> TopicModel \cup {Nil}]
        /\ \A k \in Model : topic_model[k] # Nil => topic_model'[k] # Nil
    BY <2>1, <2>3, <2>4
  <2>6. QED
    BY <1>9, <2>5 DEF MergerPull
<1>10. CASE MergerPullReturn
  BY <1>10 DEF MergerPullReturn
<1>11. QED
  BY <1>1, <1>2, <1>3, <1>4, <1>5, <1>6, <1>7, <1>8, <1>9, <1>10 DEF MergerStep, MergerThread

\* A step of one processor, given the state it leaves that processor in.
LEMMA OneProcessorMoves ==
  ASSUME ProcessorTypeOK, ProcessorHolds, NEW p \in Processors, NEW s \in ProcessorState,
         s.pc \in {"schema", "get", "push"} => s.part \in ProcessorInput,
         s.pc \in {"get", "push"} => s.todo # {},
         processor' = [processor EXCEPT ![p] = s], UNCHANGED processor_stopping
  PROVE  ProcessorTypeOK' /\ ProcessorHolds'
<1>1. \A q \in Processors : processor'[q] = IF q = p THEN s ELSE processor[q]
  BY DEF ProcessorTypeOK
<1>2. ProcessorTypeOK'
  BY <1>1 DEF ProcessorTypeOK
<1>3. ProcessorHolds'
  BY <1>1 DEF ProcessorHolds
<1>4. QED
  BY <1>2, <1>3

\* A processor takes from its queue and never adds to it.
LEMMA ProcessorStepOK ==
  ASSUME InstanceInv, NEW p \in Processors, ProcessorStep(p)
  PROVE  /\ ProcessorOK'
         /\ processor_queue' \in Seq(ProcessorInput)
         /\ Len(processor_queue') <= Len(processor_queue)
         /\ merger_queue' \in Seq(ModelIncrement)
<1> USE DEF InstanceInv, LoaderOK, DataLoaderTypeOK, MergerOK, MergerTypeOK, ProcessorOK
<1> USE LenProperties
<1> DEFINE old == processor[p]
<1>0. /\ old \in ProcessorState
      /\ old.pc \in {"schema", "get", "push"} => old.part \in ProcessorInput
      /\ old.pc \in {"get", "push"} => old.todo # {}
  BY DEF ProcessorTypeOK, ProcessorHolds
<1>1. CASE ProcessorStop(p)
  <2> DEFINE new == [old EXCEPT !.pc = "stopped"]
  <2>1. new \in ProcessorState /\ new.pc = "stopped"
    BY <1>0 DEF ProcessorState
  <2>2. processor' = [processor EXCEPT ![p] = new] /\ UNCHANGED processor_stopping
    BY <1>1 DEF ProcessorStop
  <2>3. ProcessorTypeOK' /\ ProcessorHolds'
    BY <2>1, <2>2, OneProcessorMoves
  <2>4. QED
    BY <1>1, <2>3 DEF ProcessorStop
<1>2. CASE ProcessorPop(p)
  <2>1. /\ Head(processor_queue) \in ProcessorInput
        /\ processor_queue' \in Seq(ProcessorInput)
        /\ Len(processor_queue') = Len(processor_queue) - 1
    BY <1>2, PopFront DEF ProcessorPop
  <2> DEFINE new == [old EXCEPT !.pc = "schema", !.part = Head(processor_queue)]
  <2>2. new \in ProcessorState /\ new.pc = "schema" /\ new.part \in ProcessorInput
    BY <1>0, <2>1 DEF ProcessorState
  <2>3. processor' = [processor EXCEPT ![p] = new] /\ UNCHANGED processor_stopping
    BY <1>2 DEF ProcessorPop
  <2>4. ProcessorTypeOK' /\ ProcessorHolds'
    BY <2>2, <2>3, OneProcessorMoves
  <2>5. QED
    BY <1>2, <2>1, <2>4 DEF ProcessorPop
<1>3. ASSUME NEW names \in SUBSET Model, Continue(p, names), UNCHANGED processor_stopping,
             old.part \in ProcessorInput
      PROVE  ProcessorTypeOK' /\ ProcessorHolds'
  <2> DEFINE new == [old EXCEPT !.pc = IF names = {} THEN "full" ELSE "get",
                                !.part = IF names = {} THEN Nil ELSE @,
                                !.todo = names, !.incarnation = 0]
  <2>1. /\ new \in ProcessorState
        /\ new.pc \in {"schema", "get", "push"} => new.part \in ProcessorInput
        /\ new.pc \in {"get", "push"} => new.todo # {}
    BY <1>0, <1>3 DEF ProcessorState
  <2>2. processor' = [processor EXCEPT ![p] = new]
    BY <1>3 DEF Continue
  <2>3. QED
    BY <1>3, <2>1, <2>2, OneProcessorMoves
<1>4. CASE ProcessorSchema(p)
  <2>1. ProcessorTypeOK' /\ ProcessorHolds'
    BY <1>0, <1>3, <1>4 DEF ProcessorSchema, EnabledModels
  <2>2. QED
    BY <1>4, <2>1 DEF ProcessorSchema
<1>5. CASE ProcessorGet(p)
  <2>1. old.todo \in SUBSET Model /\ old.todo # {}
    BY <1>0, <1>5 DEF ProcessorGet, ProcessorState
  <2>2. Min(old.todo) \in Model
    BY <2>1, MinOfModels
  <2> DEFINE ttm == topic_model[Min(old.todo)]
             aborted == [old EXCEPT !.pc = "aborted"]
             got == [old EXCEPT !.pc = "push", !.incarnation = ttm.incarnation]
  <2>3. CASE ttm = Nil
    <3>1. aborted \in ProcessorState /\ aborted.pc = "aborted"
      BY <1>0 DEF ProcessorState
    <3>2. processor' = [processor EXCEPT ![p] = aborted] /\ UNCHANGED processor_stopping
      BY <1>5, <2>3 DEF ProcessorGet
    <3>3. ProcessorTypeOK' /\ ProcessorHolds'
      BY  <3>1, <3>2, OneProcessorMoves
    <3>4. QED
      BY <1>5, <3>3 DEF ProcessorGet
  <2>4. CASE ttm # Nil
    <3>1. ttm.incarnation \in Nat
      BY <2>2, <2>4 DEF TopicModel
    <3>2. /\ got \in ProcessorState /\ got.pc = "push"
          /\ got.part \in ProcessorInput /\ got.todo # {}
      BY <1>0, <1>5, <2>1, <3>1 DEF ProcessorState, ProcessorGet
    <3>3. processor' = [processor EXCEPT ![p] = got] /\ UNCHANGED processor_stopping
      BY <1>5, <2>4 DEF ProcessorGet
    <3>4. ProcessorTypeOK' /\ ProcessorHolds'
      BY  <3>2, <3>3, OneProcessorMoves
    <3>5. QED
      BY <1>5, <3>4 DEF ProcessorGet
  <2>5. QED
    BY <2>3, <2>4
<1>6. CASE ProcessorPush(p)
  <2> DEFINE m == Min(old.todo)
             inc == [batch |-> old.part.batch, model |-> m, incarnation |-> old.incarnation]
  <2>1. /\ old.todo \in SUBSET Model /\ old.todo # {}
        /\ old.part \in ProcessorInput /\ old.incarnation \in Nat
    BY <1>0, <1>6 DEF ProcessorPush, ProcessorState
  <2>2. m \in Model
    BY <2>1, MinOfModels
  <2>3. inc \in ModelIncrement
    BY <2>1, <2>2 DEF ModelIncrement, ProcessorInput
  <2>4. merger_queue' \in Seq(ModelIncrement)
    BY <1>6, <2>3, PushBack DEF ProcessorPush
  <2>5. ProcessorTypeOK' /\ ProcessorHolds'
    BY <1>3, <1>6, <2>1 DEF ProcessorPush
  <2>6. QED
    BY <1>6, <2>4, <2>5 DEF ProcessorPush
<1>7. CASE ProcessorFull(p)
  <2> DEFINE new == [old EXCEPT !.pc = "pop"]
  <2>1. new \in ProcessorState /\ new.pc = "pop"
    BY <1>0 DEF ProcessorState
  <2>2. processor' = [processor EXCEPT ![p] = new] /\ UNCHANGED processor_stopping
    BY <1>7 DEF ProcessorFull
  <2>3. ProcessorTypeOK' /\ ProcessorHolds'
    BY <2>1, <2>2, OneProcessorMoves
  <2>4. QED
    BY <1>7, <2>3 DEF ProcessorFull
<1>8. QED
  BY <1>1, <1>2, <1>4, <1>5, <1>6, <1>7 DEF ProcessorStep, ProcessorThread
-----------------------------------------------------------------------------
\* What a call leaves alone stays as it is.
LEMMA Frame ==
  ASSUME InstanceInv
  PROVE  /\ UNCHANGED schema => SchemaTypeOK'
         /\ UNCHANGED batchManagerVars => BatchManagerTypeOK'
         /\ UNCHANGED dataLoaderVars => LoaderOK'
         /\ UNCHANGED mergerVars => MergerOK'
         /\ UNCHANGED processorVars => ProcessorOK'
<1> USE DEF InstanceInv
<1>1. UNCHANGED schema => SchemaTypeOK'
  BY DEF SchemaTypeOK
<1>2. UNCHANGED batchManagerVars => BatchManagerTypeOK'
  BY DEF BatchManagerTypeOK, batchManagerVars
<1>3. UNCHANGED dataLoaderVars => LoaderOK'
  BY DEF LoaderOK, DataLoaderTypeOK, LoaderHolds, RoomReserved, One, dataLoaderVars
<1>4. UNCHANGED mergerVars => MergerOK'
  BY DEF MergerOK, MergerTypeOK, MergerHoldsIncrement, mergerVars
<1>5. UNCHANGED processorVars => ProcessorOK'
  BY DEF ProcessorOK, ProcessorTypeOK, ProcessorHolds, processorVars
<1>6. QED
  BY <1>1, <1>2, <1>3, <1>4, <1>5

\* A task of the API in the merger's queue.
LEMMA ForceOK ==
  ASSUME MergerOK, NEW type \in TaskType, ForceTask(type),
         UNCHANGED <<mergerInternals, topic_model, incarnations, merger_stopping>>
  PROVE  MergerOK'
<1>1. [task_type |-> type, model |-> Nil] \in MergerTask
  BY DEF MergerTask
<1>2. internal_task_queue' \in Seq(MergerTask) /\ sync_event' = FALSE
  BY <1>1, PushBack DEF ForceTask, MergerOK, MergerTypeOK
<1>3. QED
  BY <1>2 DEF MergerOK, MergerTypeOK, MergerHoldsIncrement, mergerInternals

\* The models of the schema are in the merger: what does not change either of
\* them, and is not in the middle of one of the two calls, keeps it so.
LEMMA SameModels ==
  ASSUME ModelsInOrder, UNCHANGED <<schema, topic_model>>,
         \/ UNCHANGED api
         \/ api'.pc \notin {"create", "dispose.merger"}
  PROVE  ModelsInOrder'
BY DEF ModelsInOrder, SchemaModelsExist, GetModelNames

LEMMA ReturnOK == Return => /\ api' \in ApiState /\ api'.pc = "ready"
BY DEF Return, Ready, ApiState, ApiPc, ModelStatus

LEMMA GotoOK ==
  ASSUME api \in ApiState, NEW pc \in ApiPc, Goto(pc)
  PROVE  api' \in ApiState /\ api'.pc = pc /\ api'.model = api.model
BY DEF Goto, ApiState

LEMMA ApiCallOK ==
  ASSUME InstanceInv, ApiCall
  PROVE  InstanceInv'
<1> USE DEF InstanceInv
<1>1. ASSUME NEW m \in Model, NEW s \in CreateStatuses, CreateModel(m, s)
      PROVE  InstanceInv'
  <2>1. /\ topic_model' \in [Model -> TopicModel \cup {Nil}]
        /\ incarnations' \in [Model -> Nat]
        /\ topic_model'[m] # Nil
        /\ \A k \in Model : topic_model[k] # Nil => topic_model'[k] # Nil
    <3> USE DEF MergerOK, MergerTypeOK
    <3>1. CASE topic_model[m] = Nil
      <4>1. NewModel(incarnations[m] + 1) \in TopicModel
        BY DEF NewModel, TopicModel, NoCounts, Counters
      <4>2. NewModel(incarnations[m] + 1) # Nil
        BY <4>1, NilRecordAssumption
      <4> DEFINE new == NewModel(incarnations[m] + 1)
      <4> HIDE DEF new
      <4>3. topic_model' = [topic_model EXCEPT ![m] = new]
        BY <1>1, <3>1 DEF CreateModel, CreateTopicModel, new
      <4>4. incarnations' \in [Model -> Nat]
        BY <1>1, <3>1 DEF CreateModel, CreateTopicModel
      <4>5. new \in TopicModel /\ new # Nil
        BY <4>1, <4>2 DEF new
      <4>6. QED
        BY <4>3, <4>4, <4>5
    <3>2. CASE topic_model[m] # Nil
      BY <1>1, <3>2 DEF CreateModel, CreateTopicModel
    <3>3. QED
      BY <3>1, <3>2
  <2>2. MergerOK'
    BY <1>1, <2>1 DEF CreateModel, MergerOK, MergerTypeOK, MergerHoldsIncrement, mergerInternals
  <2>3. api' \in ApiState /\ api'.pc = "create" /\ api'.model = m /\ api'.status = s
    BY <1>1, LocalInstanceAssumption DEF CreateModel, ApiOK, ApiState, ApiPc
  <2>4. ApiOK'
    BY <1>1, <2>3, LocalInstanceAssumption DEF CreateModel, Call, ApiOK, CallHolds
  <2>5. ModelsInOrder'
    BY <1>1, <2>1, <2>3 DEF CreateModel, ModelsInOrder, SchemaModelsExist, GetModelNames
  <2>6. QED
    BY <1>1, <2>2, <2>4, <2>5, Frame DEF CreateModel
<1>2. ASSUME NEW m \in DisposableModels, DisposeModel(m)
      PROVE  InstanceInv'
  <2>1. m \in Model
    BY LocalInstanceAssumption
  <2>2. /\ schema' \in [Model -> ModelStatus]
        /\ schema'[m] = "absent"
        /\ \A k \in Model : schema'[k] # "absent" => schema[k] # "absent"
    BY <1>2, <2>1 DEF DisposeModel, clear_model_config, SchemaTypeOK, ModelStatus
  <2>3. api' \in ApiState /\ api'.pc = "dispose.merger" /\ api'.model = m
    BY <1>2, <2>1 DEF DisposeModel, ApiOK, ApiState, ApiPc
  <2>4. ApiOK'
    BY <1>2, <2>1, <2>3 DEF DisposeModel, Call, ApiOK, CallHolds
  <2>5. ModelsInOrder'
    BY <1>2, <2>2, <2>3
    DEF DisposeModel, mergerVars, ModelsInOrder, SchemaModelsExist, GetModelNames
  <2>6. QED
    BY <1>2, <2>2, <2>4, <2>5, Frame DEF DisposeModel, SchemaTypeOK
<1>3. ASSUME AddBatchCall
      PROVE  InstanceInv'
  <2>1. PICK b \in Batch : AddBatch(b)
    BY <1>3 DEF AddBatchCall
  <2>2. LoaderOK' /\ BatchManagerTypeOK'
    BY <2>1, Frame
    DEF AddBatch, LoaderOK, DataLoaderTypeOK, LoaderHolds, RoomReserved, One
  <2>3. ApiOK'
    BY <1>3, <2>1 DEF AddBatchCall, AddBatch, Call, ApiOK, CallHolds
  <2>4. ModelsInOrder'
    BY <1>3, SameModels DEF AddBatchCall, mergerVars
  <2>5. QED
    BY <1>3, <2>2, <2>3, <2>4, Frame DEF AddBatchCall
<1>4. ASSUME NEW n \in IterationCounts, InvokeIteration(n)
      PROVE  InstanceInv'
  <2>1. CASE n = 0
    <3>1. MergerOK' /\ ModelsInOrder'
      BY <1>4, <2>1, Frame, SameModels DEF InvokeIteration, mergerVars, mergerInternals
    <3>2. ApiOK'
      BY <1>4, <2>1 DEF InvokeIteration, Call, ApiOK, CallHolds, dataLoaderVars
    <3>3. QED
      BY <1>4, <3>1, <3>2, Frame DEF InvokeIteration
  <2>2. CASE n # 0
    <3>1. n \in Nat /\ n > 0
      BY <2>2, LocalInstanceAssumption
    <3>2. MergerOK'
      BY <1>4, <2>2, ForceOK DEF InvokeIteration, TaskType
    <3>3. api' \in ApiState /\ api'.pc = "invoke.reset" /\ api'.iterations = n
      BY <1>4, <2>2, <3>1 DEF InvokeIteration, ApiOK, ApiState, ApiPc
    <3>4. ApiOK'
      <4>1. CallHolds'
        BY <3>1, <3>3 DEF CallHolds
      <4>2. calls' = calls + 1 /\ quiet' = FALSE /\ due' = due
        BY <1>4, <2>2 DEF InvokeIteration, Call
      <4>3. calls' \in Nat /\ due' \in [Model -> Counters]
        BY <4>2 DEF ApiOK
      <4>4. quiet' \in BOOLEAN
        BY <4>2, Zenon
      <4>5. QED
        BY <3>3, <4>1, <4>3, <4>4 DEF ApiOK
    <3>5. ModelsInOrder'
      BY <1>4, <3>3, SameModels DEF InvokeIteration
    <3>6. QED
      BY <1>4, <3>2, <3>4, <3>5, Frame DEF InvokeIteration
  <2>3. QED
    BY <2>1, <2>2
<1>5. ASSUME WaitIdle
      PROVE  InstanceInv'
  <2>1. api' \in ApiState /\ api'.pc = "wait.poll"
    BY <1>5, GotoOK DEF WaitIdle, ApiOK, ApiPc
  <2>2. ApiOK' /\ ModelsInOrder'
    BY <1>5, <2>1, SameModels DEF WaitIdle, Call, ApiOK, CallHolds, mergerVars
  <2>3. QED
    BY <1>5, <2>2, Frame DEF WaitIdle
<1>6. ASSUME Destroy
      PROVE  InstanceInv'
  <2>1. api' \in ApiState /\ api'.pc = "destroy.processors"
    BY <1>6, GotoOK DEF Destroy, ApiOK, ApiPc
  <2>2. ApiOK' /\ ModelsInOrder'
    BY <1>6, <2>1, SameModels DEF Destroy, Call, ApiOK, CallHolds, mergerVars
  <2>3. QED
    BY <1>6, <2>2, Frame DEF Destroy
<1>7. ASSUME NEW n \in ProcessorCounts, Reconfigure(n)
      PROVE  InstanceInv'
  <2>1. n \in Nat
    BY ProcessorAssumption, LocalInstanceAssumption, FS_CardinalityType
  <2>2. api' \in ApiState /\ api'.pc = "reconfigure"
    BY <1>7, <2>1 DEF Reconfigure, ApiOK, ApiState, ApiPc
  <2>3. ApiOK' /\ ModelsInOrder'
    BY <1>7, <2>2, SameModels DEF Reconfigure, Call, ApiOK, CallHolds, mergerVars
  <2>4. QED
    BY <1>7, <2>3, Frame DEF Reconfigure
<1>8. QED
  BY <1>1, <1>2, <1>3, <1>4, <1>5, <1>6, <1>7 DEF ApiCall

LEMMA ApiThreadOK ==
  ASSUME InstanceInv, ApiThread
  PROVE  InstanceInv'
<1> USE DEF InstanceInv, At
<1>1. CASE CreateModelSchema
  <2>1. api.model \in Model
    BY <1>1 DEF CreateModelSchema, ApiOK, CallHolds
  <2>2. /\ schema' \in [Model -> ModelStatus]
        /\ \A k \in Model : schema'[k] # "absent" => schema[k] # "absent" \/ k = api.model
    BY <1>1, <2>1 DEF CreateModelSchema, set_model_config, SchemaTypeOK, ModelStatus
  <2>3. topic_model[api.model] # Nil /\ topic_model' = topic_model
    BY <1>1 DEF CreateModelSchema, ModelsInOrder, mergerVars
  <2>4. api' \in ApiState /\ api'.pc = "ready"
    BY <1>1, ReturnOK DEF CreateModelSchema
  <2>5. ModelsInOrder'
    BY <2>2, <2>3, <2>4 DEF ModelsInOrder, SchemaModelsExist, GetModelNames
  <2>6. ApiOK'
    BY <1>1, <2>4 DEF CreateModelSchema, ApiOK, CallHolds
  <2>7. QED
    BY <1>1, <2>2, <2>5, <2>6, Frame DEF CreateModelSchema, SchemaTypeOK
<1>2. CASE DisposeModelMerger
  <2> DEFINE task == [task_type |-> "kDisposeModel", model |-> api.model]
  <2>1. api.model \in Model /\ schema[api.model] = "absent"
    BY <1>2 DEF DisposeModelMerger, ApiOK, CallHolds, ModelsInOrder
  <2>2. task \in MergerTask
    BY <2>1 DEF MergerTask, TaskType
  <2>3. internal_task_queue' \in Seq(MergerTask)
    BY <1>2, <2>2, PushBack
    DEF DisposeModelMerger, DisposeTopicModel, MergerOK, MergerTypeOK
  <2>4. topic_model' = [topic_model EXCEPT ![api.model] = Nil]
    BY <1>2 DEF DisposeModelMerger, DisposeTopicModel
  <2>5. MergerOK'
    BY <1>2, <2>3, <2>4
    DEF DisposeModelMerger, mergerInternals, MergerOK, MergerTypeOK, MergerHoldsIncrement
  <2>6. api' \in ApiState /\ api'.pc = "dispose.batches" /\ api'.model = api.model
    BY <1>2, GotoOK DEF DisposeModelMerger, ApiOK, ApiPc
  <2>7. ApiOK'
    BY <1>2, <2>1, <2>6 DEF DisposeModelMerger, ApiOK, CallHolds
  <2>8. ModelsInOrder'
    BY <1>2, <2>1, <2>4, <2>6
    DEF DisposeModelMerger, ModelsInOrder, SchemaModelsExist, GetModelNames, MergerOK,
        MergerTypeOK
  <2>9. QED
    BY <1>2, <2>5, <2>7, <2>8, Frame DEF DisposeModelMerger
<1>3. CASE DisposeModelBatches
  <2>1. api' \in ApiState /\ api'.pc = "ready"
    BY <1>3, ReturnOK DEF DisposeModelBatches
  <2>2. due' \in [Model -> Counters]
    BY <1>3 DEF DisposeModelBatches, ApiOK, NoCounts, Counters
  <2>3. ApiOK'
    BY <1>3, <2>1, <2>2 DEF DisposeModelBatches, ApiOK, CallHolds
  <2>4. BatchManagerTypeOK'
    BY <1>3 DEF DisposeModelBatches, ForgetModel, BatchManagerTypeOK
  <2>5. ModelsInOrder'
    BY <1>3, <2>1, SameModels DEF DisposeModelBatches, mergerVars
  <2>6. QED
    BY <1>3, <2>3, <2>4, <2>5, Frame DEF DisposeModelBatches
<1>4. CASE InvokeGeneration
  <2>1. /\ api' \in ApiState
        /\ \/ api'.pc = "ready"
           \/ /\ api'.pc = "invoke.add" /\ api'.todo = generation /\ generation # {}
              /\ api'.iterations = api.iterations /\ api.iterations > 0
    <3>1. CASE generation = {}
      BY <1>4, <3>1, ReturnOK DEF InvokeGeneration
    <3>2. CASE generation # {}
      BY <1>4, <3>2
      DEF InvokeGeneration, ApiOK, ApiState, ApiPc, CallHolds, LoaderOK, DataLoaderTypeOK
    <3>3. QED
      BY <3>1, <3>2
  <2>2. ApiOK'
    BY <1>4, <2>1 DEF InvokeGeneration, ApiOK, CallHolds, dataLoaderVars
  <2>3. ModelsInOrder'
    BY <1>4, <2>1, SameModels DEF InvokeGeneration, mergerVars
  <2>4. QED
    BY <1>4, <2>2, <2>3, Frame DEF InvokeGeneration
<1>5. CASE InvokeAdd
  <2> DEFINE b == Min(api.todo)
             rest == api.todo \ {b}
  <2>1. /\ api.todo \in SUBSET Batch /\ api.todo # {} /\ api.todo \subseteq generation
        /\ api.iterations \in Nat /\ api.iterations > 0 /\ generation \in SUBSET Batch
    BY <1>5 DEF InvokeAdd, ApiOK, CallHolds, ApiState, LoaderOK, DataLoaderTypeOK
  <2>2. b \in Batch
    BY <2>1, MinOfBatches
  <2>3. BatchManagerTypeOK'
    BY <1>5, <2>2, PushBack DEF InvokeAdd, Add, BatchManagerTypeOK
  <2>4. due' \in [Model -> Counters]
    <3>1. \A m \in Model : [due[m] EXCEPT ![b] = @ + 1] \in Counters
      BY <2>2 DEF ApiOK, Counters
    <3>2. QED
      BY <1>5, <3>1 DEF InvokeAdd, ApiOK
  <2>5. /\ api' \in ApiState
        /\ \/ api'.pc = "ready"
           \/ /\ api'.pc = "invoke.add" /\ api'.todo # {} /\ api'.todo \subseteq generation
              /\ api'.iterations > 0
    <3>1. CASE rest # {} /\ api' = [api EXCEPT !.todo = rest]
      BY <1>5, <2>1, <3>1 DEF InvokeAdd, ApiOK, ApiState
    <3>2. CASE api.iterations > 1 /\ api' = [api EXCEPT !.todo = generation, !.iterations = @ - 1]
      <4>1. api.iterations - 1 \in Nat /\ api.iterations - 1 > 0 /\ generation # {}
        BY <2>1, <3>2
      <4>2. api' \in ApiState
        BY <2>1, <3>2, <4>1 DEF ApiOK, ApiState
      <4>3. /\ api'.pc = "invoke.add" /\ api'.todo = generation
            /\ api'.iterations = api.iterations - 1
        BY <1>5, <3>2 DEF InvokeAdd, ApiOK, ApiState
      <4>4. QED
        BY <4>1, <4>2, <4>3
    <3>3. CASE Return
      BY <3>3, ReturnOK
    <3>4. QED
      BY <1>5, <3>1, <3>2, <3>3 DEF InvokeAdd
  <2>6. ApiOK'
    BY <1>5, <2>4, <2>5 DEF InvokeAdd, ApiOK, CallHolds, dataLoaderVars
  <2>7. ModelsInOrder'
    BY <1>5, <2>5, SameModels DEF InvokeAdd, mergerVars
  <2>8. QED
    BY <1>5, <2>3, <2>6, <2>7, Frame DEF InvokeAdd
<1>6. CASE WaitTimeout
  <2>1. api' \in ApiState /\ api'.pc = "ready"
    BY <1>6, ReturnOK DEF WaitTimeout
  <2>2. ApiOK' /\ ModelsInOrder'
    BY <1>6, <2>1, SameModels DEF WaitTimeout, ApiOK, CallHolds, mergerVars
  <2>3. QED
    BY <1>6, <2>2, Frame DEF WaitTimeout
<1>7. CASE WaitPush
  <2>1. api' \in ApiState /\ api'.pc = "wait.push"
    BY <1>7, GotoOK DEF WaitPush, ApiOK, ApiPc
  <2>2. ApiOK' /\ ModelsInOrder'
    BY <1>7, <2>1, SameModels DEF WaitPush, ApiOK, CallHolds
  <2>3. MergerOK'
    BY <1>7, ForceOK DEF WaitPush, TaskType
  <2>4. QED
    BY <1>7, <2>2, <2>3, Frame DEF WaitPush
<1>8. CASE WaitPull
  <2>1. api' \in ApiState /\ api'.pc = "wait.pull"
    BY <1>8, GotoOK DEF WaitPull, ApiOK, ApiPc
  <2>2. ApiOK' /\ ModelsInOrder'
    BY <1>8, <2>1, SameModels DEF WaitPull, ApiOK, CallHolds
  <2>3. MergerOK'
    BY <1>8, ForceOK DEF WaitPull, TaskType
  <2>4. QED
    BY <1>8, <2>2, <2>3, Frame DEF WaitPull
<1>9. CASE WaitPulled
  <2>1. api' \in ApiState /\ api'.pc = "wait.done"
    BY <1>9, GotoOK DEF WaitPulled, ApiOK, ApiPc
  <2>2. ApiOK' /\ ModelsInOrder'
    BY <1>9, <2>1, SameModels DEF WaitPulled, ApiOK, CallHolds, mergerVars
  <2>3. QED
    BY <1>9, <2>2, Frame DEF WaitPulled
<1>10. CASE WaitReturn
  <2>1. api' \in ApiState /\ api'.pc = "ready"
    BY <1>10, ReturnOK DEF WaitReturn
  <2>2. due' \in [Model -> Counters]
    BY <1>10 DEF WaitReturn, NoCounts, Counters
  <2>3. ApiOK' /\ ModelsInOrder'
    BY <1>10, <2>1, <2>2, SameModels DEF WaitReturn, ApiOK, CallHolds, mergerVars
  <2>4. QED
    BY <1>10, <2>3, Frame DEF WaitReturn
<1>11. ASSUME NEW p \in Processors, DestroyProcessor(p)
       PROVE  InstanceInv'
  <2>1. ProcessorOK'
    BY <1>11 DEF DestroyProcessor, StopProcessor, ProcessorOK, ProcessorTypeOK, ProcessorHolds
  <2>2. ApiOK' /\ ModelsInOrder'
    BY <1>11, SameModels DEF DestroyProcessor, ApiOK, CallHolds, mergerVars, dataLoaderVars
  <2>3. QED
    BY <1>11, <2>1, <2>2, Frame DEF DestroyProcessor
<1>12. CASE DestroyMerger
  <2>1. api' \in ApiState /\ api'.pc = "destroy.merger"
    BY <1>12, GotoOK DEF DestroyMerger, ApiOK, ApiPc
  <2>2. ApiOK' /\ ModelsInOrder'
    BY <1>12, <2>1, SameModels DEF DestroyMerger, ApiOK, CallHolds
  <2>3. MergerOK'
    BY <1>12 DEF DestroyMerger, MergerOK, MergerTypeOK, MergerHoldsIncrement, mergerInternals
  <2>4. QED
    BY <1>12, <2>2, <2>3, Frame DEF DestroyMerger
<1>13. CASE DestroyLoader
  <2>1. api' \in ApiState /\ api'.pc = "destroy.loader"
    BY <1>13, GotoOK DEF DestroyLoader, ApiOK, ApiPc
  <2>2. ApiOK' /\ ModelsInOrder'
    BY <1>13, <2>1, SameModels DEF DestroyLoader, ApiOK, CallHolds, mergerVars
  <2>3. LoaderOK'
    BY <1>13 DEF DestroyLoader, LoaderOK, DataLoaderTypeOK, LoaderHolds, RoomReserved, One
  <2>4. QED
    BY <1>13, <2>2, <2>3, Frame DEF DestroyLoader
<1>14. CASE Destroyed
  <2>1. api' \in ApiState /\ api'.pc = "destroyed"
    BY <1>14, GotoOK DEF Destroyed, ApiOK, ApiPc
  <2>2. ApiOK' /\ ModelsInOrder'
    BY <1>14, <2>1, SameModels DEF Destroyed, ApiOK, CallHolds, mergerVars
  <2>3. QED
    BY <1>14, <2>2, Frame DEF Destroyed
<1>15. ASSUME NEW p \in Processors, RemoveProcessor(p)
       PROVE  InstanceInv'
  <2>1. ProcessorOK'
    BY <1>15 DEF RemoveProcessor, StopProcessor, ProcessorOK, ProcessorTypeOK, ProcessorHolds
  <2>2. ApiOK' /\ ModelsInOrder'
    BY <1>15, SameModels DEF RemoveProcessor, ApiOK, CallHolds, mergerVars, dataLoaderVars
  <2>3. QED
    BY <1>15, <2>1, <2>2, Frame DEF RemoveProcessor
<1>16. ASSUME NEW p \in Processors, AddProcessor(p)
       PROVE  InstanceInv'
  <2>1. NewProcessor \in ProcessorState /\ NewProcessor.pc = "pop"
    BY DEF NewProcessor, ProcessorState
  <2>2. ProcessorOK'
    BY <1>16, <2>1 DEF AddProcessor, ProcessorOK, ProcessorTypeOK, ProcessorHolds
  <2>3. ApiOK' /\ ModelsInOrder'
    BY <1>16, SameModels DEF AddProcessor, ApiOK, CallHolds, mergerVars, dataLoaderVars
  <2>4. QED
    BY <1>16, <2>2, <2>3, Frame DEF AddProcessor
<1>17. CASE ReconfigureReturn
  <2>1. api' \in ApiState /\ api'.pc = "ready"
    BY <1>17, ReturnOK DEF ReconfigureReturn
  <2>2. ApiOK' /\ ModelsInOrder'
    BY <1>17, <2>1, SameModels DEF ReconfigureReturn, ApiOK, CallHolds, mergerVars
  <2>3. QED
    BY <1>17, <2>2, Frame DEF ReconfigureReturn
<1>18. QED
  BY <1>1, <1>2, <1>3, <1>4, <1>5, <1>6, <1>7, <1>8, <1>9, <1>10, <1>11, <1>12,
     <1>13, <1>14, <1>15, <1>16, <1>17 DEF ApiThread
-----------------------------------------------------------------------------
LEMMA StepInstance == InstanceInv /\ [Next]_vars => InstanceInv'
<1> SUFFICES ASSUME InstanceInv, [Next]_vars PROVE InstanceInv'
  OBVIOUS
<1>1. CASE LoaderStep
  <2>1. BatchManagerTypeOK' /\ LoaderOK' /\ generation' = generation
    BY <1>1, LoaderStepOK
    DEF LoaderStep, LoaderThread, LoaderStop, LoaderSize, LoaderNext, LoaderNothing,
        LoaderBatch, LoaderCache, LoaderPush
  <2>2. ApiOK' /\ ModelsInOrder'
    BY <1>1, <2>1, SameModels DEF LoaderStep, InstanceInv, ApiOK, CallHolds, apiVars, mergerVars
  <2>3. QED
    BY <1>1, <2>1, <2>2, Frame DEF LoaderStep, InstanceInv
<1>2. CASE MergerStep
  <2>1. /\ BatchManagerTypeOK' /\ MergerOK' /\ cache' \in SUBSET (Batch \X Model)
        /\ \A m \in Model : topic_model[m] # Nil => topic_model'[m] # Nil
    BY <1>2, MergerStepOK
  <2>2. LoaderOK'
    BY <1>2, <2>1
    DEF MergerStep, InstanceInv, LoaderOK, DataLoaderTypeOK, LoaderHolds, RoomReserved, One
  <2>3. ApiOK'
    BY <1>2 DEF MergerStep, InstanceInv, ApiOK, CallHolds, apiVars
  <2>4. ModelsInOrder'
    BY <1>2, <2>1
    DEF MergerStep, InstanceInv, ModelsInOrder, SchemaModelsExist, GetModelNames, apiVars,
        ApiOK, CallHolds
  <2>5. QED
    BY <1>2, <2>1, <2>2, <2>3, <2>4, Frame DEF MergerStep, InstanceInv
<1>3. ASSUME NEW p \in Processors, ProcessorStep(p)
      PROVE  InstanceInv'
  <2>1. /\ ProcessorOK'
        /\ processor_queue' \in Seq(ProcessorInput)
        /\ Len(processor_queue') <= Len(processor_queue)
        /\ merger_queue' \in Seq(ModelIncrement)
    BY <1>3, ProcessorStepOK
  <2>2. Len(processor_queue) \in Nat /\ Len(processor_queue') \in Nat
    BY <2>1, LenProperties DEF InstanceInv, LoaderOK, DataLoaderTypeOK
  <2>3. LoaderOK'
    BY <1>3, <2>1, <2>2, DataLoaderAssumption
    DEF ProcessorStep, InstanceInv, LoaderOK, DataLoaderTypeOK, LoaderHolds, RoomReserved, One
  <2>4. MergerOK'
    BY <1>3, <2>1
    DEF ProcessorStep, InstanceInv, MergerOK, MergerTypeOK, MergerHoldsIncrement
  <2>5. ApiOK' /\ ModelsInOrder'
    BY <1>3, SameModels DEF ProcessorStep, InstanceInv, ApiOK, CallHolds, apiVars
  <2>6. QED
    BY <1>3, <2>1, <2>3, <2>4, <2>5, Frame DEF ProcessorStep, InstanceInv
<1>4. CASE UNCHANGED vars
  <2>1. ApiOK' /\ ModelsInOrder'
    BY <1>4, SameModels
    DEF vars, InstanceInv, ApiOK, CallHolds, apiVars, mergerVars, dataLoaderVars
  <2>2. QED
    BY <1>4, <2>1, Frame DEF vars, InstanceInv
<1>5. QED
  BY <1>1, <1>2, <1>3, <1>4, ApiCallOK, ApiThreadOK DEF Next

\* The invariant holds in every reachable state, whatever calls are made and
\* however the threads interleave.
THEOREM InstanceInvariant == Spec => []InstanceInv
BY InitInstance, StepInstance, PTL DEF Spec

\* Every object of the instance keeps its type: no thread ever reads a nil
\* batch, increment or input.
THEOREM InstanceTypeCorrect == Spec => []TypeOK
<1>1. InstanceInv => TypeOK
  BY DEF InstanceInv, TypeOK, LoaderOK, MergerOK, ProcessorOK, ApiOK
<1>2. QED
  BY <1>1, InstanceInvariant, PTL

\* data_loader.cc:232-267: the loader reads the queue's size and pushes a batch
\* some steps later; the processors only shorten the queue meanwhile.
THEOREM ProcessorQueueIsBounded == Spec => []ProcessorQueueBounded
<1>1. InstanceInv => ProcessorQueueBounded
  <2>1. InstanceInv => Len(processor_queue) \in Nat
    BY LenProperties DEF InstanceInv, LoaderOK, DataLoaderTypeOK
  <2>2. QED
    BY <2>1, DataLoaderAssumption
    DEF InstanceInv, LoaderOK, RoomReserved, One, ProcessorQueueBounded
<1>2. QED
  BY <1>1, InstanceInvariant, PTL

\* instance.cc:125-150: a model is created in the merger before the schema lists it and
\* leaves the schema before the merger forgets it, so that at no point of either
\* call does the schema list a model that the merger does not have.
THEOREM ListedModelsExist == Spec => []SchemaModelsExist
<1>1. InstanceInv => SchemaModelsExist
  BY DEF InstanceInv, ModelsInOrder
<1>2. QED
  BY <1>1, InstanceInvariant, PTL

-----------------------------------------------------------------------------
(* The bound of the merger queue, for finitely many models.                *)
\* The models a processor may push an increment of before it waits for room, or
\* the processor that Reconfigure starts in its place.
Owed(p) ==
  CASE processor[p].pc \in {"pop", "schema", "stopped"} -> Model
    [] processor[p].pc \in {"get", "push"} -> processor[p].todo
    [] OTHER -> {}

Pending == {x \in Processors \X Model : x[2] \in Owed(x[1])}

Limit == MergerQueueMaxSize + Cardinality(Processors) * Cardinality(Model)

\* What is in the queue and what may still come without a check fit together.
QueueReserved == Len(merger_queue) + Cardinality(Pending) < Limit

-----------------------------------------------------------------------------
LEMMA Finite ==
  ASSUME IsFiniteSet(Model)
  PROVE  /\ \A S \in SUBSET (Processors \X Model) :
              /\ IsFiniteSet(S) /\ Cardinality(S) \in Nat
              /\ Cardinality(S) <= Cardinality(Processors) * Cardinality(Model)
              /\ \A T \in SUBSET S : Cardinality(T) <= Cardinality(S)
              /\ \A x \in S : Cardinality(S \ {x}) = Cardinality(S) - 1
         /\ Cardinality(Processors) * Cardinality(Model) \in Nat
         /\ MergerQueueMaxSize \in Nat \ {0}
<1>1. /\ IsFiniteSet(Processors \X Model)
      /\ Cardinality(Processors \X Model) = Cardinality(Processors) * Cardinality(Model)
  BY FS_Product, ProcessorAssumption
<1>2. Cardinality(Processors \X Model) \in Nat
  BY <1>1, FS_CardinalityType
<1>3. \A S \in SUBSET (Processors \X Model) :
        IsFiniteSet(S) /\ Cardinality(S) <= Cardinality(Processors \X Model)
  BY <1>1, FS_Subset
<1>4. \A S \in SUBSET (Processors \X Model) :
        /\ Cardinality(S) \in Nat
        /\ \A T \in SUBSET S : Cardinality(T) <= Cardinality(S)
        /\ \A x \in S : Cardinality(S \ {x}) = Cardinality(S) - 1
  BY <1>3, FS_CardinalityType, FS_Subset, FS_RemoveElement
<1>5. QED
  BY <1>1, <1>2, <1>3, <1>4, ProcessorAssumption

LEMMA QueueLength == InstanceInv => Len(merger_queue) \in Nat
BY LenProperties DEF InstanceInv, MergerOK, MergerTypeOK

\* A step that pushes nothing and lets no processor owe more.
LEMMA NoPush ==
  ASSUME IsFiniteSet(Model), QueueReserved, InstanceInv, InstanceInv',
         Len(merger_queue') <= Len(merger_queue), Pending' \subseteq Pending
  PROVE  QueueReserved'
<1>1. Pending \in SUBSET (Processors \X Model) /\ Pending' \in SUBSET Pending
  BY DEF Pending
<1>2. /\ Cardinality(Pending') <= Cardinality(Pending)
      /\ Cardinality(Pending) \in Nat /\ Cardinality(Pending') \in Nat
      /\ Limit \in Nat
  <2>1. Pending' \in SUBSET (Processors \X Model)
    BY <1>1
  <2>2. QED
    BY <1>1, <2>1, Finite DEF Limit
<1>3. Len(merger_queue) \in Nat /\ Len(merger_queue') \in Nat
  <2>1. Len(merger_queue) \in Nat
    BY QueueLength
  <2>2. Len(merger_queue') \in Nat
    BY LenProperties DEF InstanceInv, MergerOK, MergerTypeOK
  <2>3. QED
    BY <2>1, <2>2
<1>4. Limit' = Limit
  BY DEF Limit
<1>5. QED
  BY <1>2, <1>3, <1>4 DEF QueueReserved

LEMMA InitReserved == IsFiniteSet(Model) /\ Init => QueueReserved
<1> SUFFICES ASSUME IsFiniteSet(Model), Init PROVE QueueReserved
  OBVIOUS
<1>1. Len(merger_queue) = 0
  BY DEF Init, MergerInit
<1>2. Pending \in SUBSET (Processors \X Model)
  BY DEF Pending
<1>3. QED
  BY <1>1, <1>2, Finite DEF QueueReserved, Limit

\* What a step of processor p makes of what processors owe.
LEMMA OneOwes ==
  ASSUME NEW p \in Processors, \A q \in Processors \ {p} : processor'[q] = processor[q]
  PROVE  \A x \in Processors \X Model : x[1] # p => (x \in Pending' <=> x \in Pending)
BY DEF Pending, Owed

LEMMA ProcessorReserved ==
  ASSUME IsFiniteSet(Model), QueueReserved, InstanceInv, InstanceInv',
         NEW p \in Processors, ProcessorStep(p)
  PROVE  QueueReserved'
<1> DEFINE old == processor[p]
           new == processor'[p]
<1>0. /\ processor \in [Processors -> ProcessorState] /\ old.todo \in SUBSET Model
      /\ old.pc \in {"get", "push"} => old.todo # {}
  BY DEF InstanceInv, ProcessorOK, ProcessorTypeOK, ProcessorHolds, ProcessorState
<1>1. ASSUME Owed(p)' \subseteq Owed(p), merger_queue' = merger_queue,
             \A q \in Processors \ {p} : processor'[q] = processor[q]
      PROVE  QueueReserved'
  <2>1. Pending' \subseteq Pending
    BY <1>1, OneOwes DEF Pending
  <2>2. Len(merger_queue') <= Len(merger_queue)
    BY <1>1, QueueLength
  <2>3. QED
    BY <2>1, <2>2, NoPush
<1>2. CASE ProcessorStop(p)
  <2>1. /\ old.pc = "pop" /\ new.pc = "stopped" /\ merger_queue' = merger_queue
        /\ \A q \in Processors \ {p} : processor'[q] = processor[q]
    BY <1>0, <1>2 DEF ProcessorStop, ProcessorState
  <2>2. QED
    BY <1>1, <2>1 DEF Owed
<1>3. CASE ProcessorPop(p)
  <2>1. /\ old.pc = "pop" /\ new.pc = "schema" /\ merger_queue' = merger_queue
        /\ \A q \in Processors \ {p} : processor'[q] = processor[q]
    BY <1>0, <1>3, SMTT(30) DEF ProcessorPop, ProcessorState
  <2>2. QED
    BY <1>1, <2>1 DEF Owed
<1>4. ASSUME NEW names \in SUBSET Model, Continue(p, names)
      PROVE  /\ new.pc \in {"full", "get"} /\ new.todo = names
             /\ new.pc = "full" => names = {}
             /\ \A q \in Processors \ {p} : processor'[q] = processor[q]
  BY <1>0, <1>4, Zenon DEF Continue, ProcessorState
<1>5. CASE ProcessorSchema(p)
  <2>1. EnabledModels \in SUBSET Model /\ Continue(p, EnabledModels)
    BY <1>5 DEF ProcessorSchema, EnabledModels
  <2>2. old.pc = "schema" /\ merger_queue' = merger_queue
    BY <1>5 DEF ProcessorSchema
  <2>3. QED
    BY <1>1, <1>4, <2>1, <2>2 DEF Owed
<1>6. CASE ProcessorGet(p)
  <2>1. /\ old.pc = "get" /\ merger_queue' = merger_queue
        /\ new.pc \in {"aborted", "push"} /\ new.todo = old.todo
        /\ \A q \in Processors \ {p} : processor'[q] = processor[q]
    BY <1>0, <1>6 DEF ProcessorGet, ProcessorState
  <2>2. QED
    BY <1>1, <2>1 DEF Owed
<1>7. CASE ProcessorPush(p)
  <2> DEFINE m == Min(old.todo)
             x == <<p, m>>
  <2>1. old.pc = "push" /\ m \in old.todo /\ m \in Model
    BY <1>0, <1>7, MinOfModels DEF ProcessorPush
  <2>2. Continue(p, old.todo \ {m}) /\ old.todo \ {m} \in SUBSET Model
    BY <1>0, <1>7 DEF ProcessorPush
  <2>3. Owed(p) = old.todo /\ Owed(p)' \subseteq old.todo \ {m}
    BY <1>4, <2>1, <2>2 DEF Owed
  <2>4. /\ Pending \in SUBSET (Processors \X Model) /\ x \in Pending
        /\ Pending' \subseteq Pending \ {x}
    <3>1. x \in Pending
      BY <2>1, <2>3 DEF Pending
    <3>2. \A y \in Processors \X Model : y[1] # p => (y \in Pending' <=> y \in Pending)
      BY <1>4, <2>2, OneOwes
    <3>3. \A y \in Pending' : y[1] = p => y \in Pending \ {x}
      BY <2>3 DEF Pending
    <3>4. \A y \in Pending' : y \in Processors \X Model
      BY DEF Pending
    <3>5. \A y \in Pending' : y # x
      BY <2>3 DEF Pending
    <3>6. QED
      BY <3>1, <3>2, <3>3, <3>4, <3>5 DEF Pending
  <2>5. Pending' \in SUBSET (Processors \X Model)
    BY <2>4
  <2>6. /\ Cardinality(Pending') <= Cardinality(Pending) - 1
        /\ Cardinality(Pending) \in Nat /\ Cardinality(Pending') \in Nat /\ Limit \in Nat
    <3>1. Pending \ {x} \in SUBSET (Processors \X Model) /\ Pending' \in SUBSET (Pending \ {x})
      BY <2>4
    <3>2. Cardinality(Pending') <= Cardinality(Pending \ {x})
      BY <3>1, Finite
    <3>3. Cardinality(Pending \ {x}) = Cardinality(Pending) - 1
      BY <2>4, Finite
    <3>4. QED
      BY <2>4, <2>5, <3>2, <3>3, Finite DEF Limit
  <2>7. /\ Len(merger_queue') = Len(merger_queue) + 1
        /\ Len(merger_queue) \in Nat
    <3> DEFINE inc == [batch |-> old.part.batch, model |-> m, incarnation |-> old.incarnation]
    <3>1. merger_queue' = Append(merger_queue, inc)
      BY <1>7 DEF ProcessorPush
    <3>2. inc \in ModelIncrement
      BY <2>1, <1>0
      DEF InstanceInv, ProcessorOK, ProcessorTypeOK, ProcessorHolds, ProcessorState,
          ModelIncrement, ProcessorInput
    <3>3. QED
      BY <3>1, <3>2, PushBack, QueueLength DEF InstanceInv, MergerOK, MergerTypeOK
  <2>8. Limit' = Limit
    BY DEF Limit
  <2>9. QED
    BY <2>6, <2>7, <2>8 DEF QueueReserved
<1>8. CASE ProcessorFull(p)
  <2>1. Len(merger_queue) < MergerQueueMaxSize /\ merger_queue' = merger_queue
    BY <1>8 DEF ProcessorFull
  <2>2. Pending' \in SUBSET (Processors \X Model)
    BY DEF Pending
  <2>3. /\ Cardinality(Pending') \in Nat
        /\ Cardinality(Pending') <= Cardinality(Processors) * Cardinality(Model)
        /\ Cardinality(Processors) * Cardinality(Model) \in Nat
        /\ MergerQueueMaxSize \in Nat
    BY <2>2, Finite
  <2>4. Len(merger_queue) \in Nat
    BY QueueLength
  <2>5. QED
    BY <2>1, <2>3, <2>4 DEF QueueReserved, Limit
<1>9. QED
  BY <1>2, <1>3, <1>5, <1>6, <1>7, <1>8 DEF ProcessorStep, ProcessorThread

\* No other thread pushes; only Reconfigure moves a processor, a stopped one.
LEMMA OthersReserved ==
  ASSUME IsFiniteSet(Model), QueueReserved, InstanceInv, InstanceInv',
         ApiCall \/ ApiThread \/ LoaderStep \/ MergerStep \/ UNCHANGED vars
  PROVE  QueueReserved'
<1>1. \A p \in Processors : processor'[p] = processor[p] \/ Owed(p)' = Owed(p)
  <2>1. ASSUME NEW p \in Processors, AddProcessor(p)
        PROVE  \A q \in Processors : processor'[q] = processor[q] \/ Owed(q)' = Owed(q)
    <3>1. /\ processor \in [Processors -> ProcessorState]
          /\ processor[p].pc = "stopped" /\ processor'[p].pc = "pop"
      BY <2>1 DEF AddProcessor, Stopped, NewProcessor, InstanceInv, ProcessorOK, ProcessorTypeOK
    <3>2. \A q \in Processors \ {p} : processor'[q] = processor[q]
      BY <2>1, <3>1 DEF AddProcessor
    <3>3. Owed(p)' = Owed(p)
      BY <3>1 DEF Owed
    <3>4. QED
      BY <3>2, <3>3
  <2>2. CASE ~ \E p \in Processors : AddProcessor(p)
    <3>1. processor' = processor
      BY <2>2
      DEF ApiCall, CreateModel, DisposeModel, AddBatchCall, InvokeIteration, WaitIdle, Destroy,
         ApiThread, CreateModelSchema, DisposeModelMerger, DisposeModelBatches,
         InvokeGeneration, InvokeAdd, WaitTimeout, WaitPush, WaitPull, WaitPulled, WaitReturn,
         Reconfigure, RemoveProcessor, StopProcessor, ReconfigureReturn,
         DestroyProcessor, DestroyMerger, DestroyLoader, Destroyed,
         LoaderStep, MergerStep, vars, processorVars
    <3>2. QED
      BY <3>1
  <2>3. QED
    BY <2>1, <2>2
<1>2. Len(merger_queue') <= Len(merger_queue)
  <2>0. Len(merger_queue) \in Nat /\ merger_queue \in Seq(ModelIncrement)
    BY QueueLength DEF InstanceInv, MergerOK, MergerTypeOK
  <2>1. CASE MergerStep
    <3>1. CASE MergerPop
      BY <2>0, <3>1, PopFront DEF MergerPop
    <3>2. CASE ~ MergerPop
      <4>1. merger_queue' = merger_queue
        BY <2>1, <3>2, SMTT(30)
        DEF MergerStep, MergerThread, MergerStop, MergerTop, MergerTaskStep, MergerNoTask,
            MergerMerge, MergerCallbackDone, MergerCallbackCache, MergerPull,
            MergerPullReturn, mergerQueues, mergerVars
      <4>2. QED
        BY <2>0, <4>1
    <3>3. QED
      BY <3>1, <3>2
  <2>2. CASE ~ MergerStep
    <3>1. merger_queue' = merger_queue
      BY <2>2
      DEF ApiCall, CreateModel, DisposeModel, AddBatchCall, InvokeIteration, WaitIdle, Destroy,
         ApiThread, CreateModelSchema, DisposeModelMerger, DisposeModelBatches,
         InvokeGeneration, InvokeAdd, WaitTimeout, WaitPush, WaitPull, WaitPulled, WaitReturn,
         Reconfigure, RemoveProcessor, AddProcessor, ReconfigureReturn,
         DestroyProcessor, DestroyMerger, DestroyLoader, Destroyed,
         LoaderStep, vars, mergerVars, mergerInternals
    <3>2. QED
      BY <2>0, <3>1
  <2>3. QED
    BY <2>1, <2>2
<1>3. Pending' \subseteq Pending
  BY <1>1 DEF Pending, Owed
<1>4. QED
  BY <1>2, <1>3, NoPush

LEMMA StepReserved ==
  IsFiniteSet(Model) /\ InstanceInv /\ QueueReserved /\ [Next]_vars =>
    InstanceInv' /\ QueueReserved'
<1> SUFFICES ASSUME IsFiniteSet(Model), InstanceInv, QueueReserved, [Next]_vars
             PROVE  InstanceInv' /\ QueueReserved'
  OBVIOUS
<1>1. InstanceInv'
  BY StepInstance
<1>2. QED
  BY <1>1, ProcessorReserved, OthersReserved DEF Next

\* processor.cc:545: processors push all their increments and only then wait for
\* room; the queue outgrows merger_queue_max_size by less than one increment for
\* each processor and model, for any number of them.
THEOREM MergerQueueIsBounded == IsFiniteSet(Model) /\ Spec => []MergerQueueBounded
<1> SUFFICES ASSUME IsFiniteSet(Model) PROVE Spec => []MergerQueueBounded
  OBVIOUS
<1>1. Init => InstanceInv /\ QueueReserved
  BY InitInstance, InitReserved
<1>2. (InstanceInv /\ QueueReserved) /\ [Next]_vars => (InstanceInv /\ QueueReserved)'
  BY StepReserved
<1>3. InstanceInv /\ QueueReserved => MergerQueueBounded
  <2> SUFFICES ASSUME InstanceInv, QueueReserved PROVE MergerQueueBounded
    OBVIOUS
  <2>1. Pending \in SUBSET (Processors \X Model)
    BY DEF Pending
  <2>2. QED
    BY <2>1, Finite, QueueLength DEF QueueReserved, Limit, MergerQueueBounded
<1>4. QED
  BY <1>1, <1>2, <1>3, PTL DEF Spec
============================================================================
