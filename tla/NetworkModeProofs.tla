-------------------------- MODULE NetworkModeProofs --------------------------
(***************************************************************************)
(* Master and nodes keep their types, and between two calls the nodes work *)
(* with the master's models or new ones, whatever nodes stop, come back, or *)
(* are connected or disconnected while no task is out.  No task is counted *)
(* twice; none is lost, and WaitIdle publishes all of them, while no node  *)
(* comes back empty; then master and nodes keep the contract of            *)
(* BatchTracking.                                                          *)
(***************************************************************************)
EXTENDS NetworkModeProps, WellFoundedInduction, FiniteSetTheorems, SequenceTheorems, TLAPS

-----------------------------------------------------------------------------
(* The inductive invariant.                                                *)
\* Node n has m only as the master has it.
InSync(n, m) == node[n].topic_model[m] # Nil => node[n].topic_model[m] = topic_model[m]

\* Or it has a new one, created once more after the node had lost it.
Near(n, m) == InSync(n, m) \/ node[n].topic_model[m] = NewModel

\* The call waits for a task of this type on node n.
Waits(n, type) ==
  /\ Forcing /\ api.called /\ ~sync
  /\ api.nodes # {} /\ n = NextNode
  /\ type = (IF api.pc = "wait.push" THEN "kForcePushTopicModelIncrement"
             ELSE "kForcePullTopicModel")

\* A node without an instance has no models; the force that a call waits for is
\* the last of its tasks, and the one that its merger works on.
NodeInv(n) ==
  /\ node[n].todo # {} => node[n].batch # Nil
  /\ ~node[n].instance => \A m \in Model : node[n].topic_model[m] = Nil
  /\ node[n].merger = "push" => \A m \in node[n].models : node[n].topic_model_inc[m] # Nil
  /\ node[n].merger = "pull" => \A m \in Model \ node[n].models : InSync(n, m)
  /\ node[n].merger \in {"push", "pull"} =>
       /\ node[n].tasks # <<>>
       /\ node[n].tasks[1].type = (IF node[n].merger = "push" THEN "kForcePushTopicModelIncrement"
                                   ELSE "kForcePullTopicModel")
  /\ \A i \in 1..Len(node[n].tasks) :
       node[n].tasks[i].type # "kDisposeModel" =>
         i = Len(node[n].tasks) /\ Waits(n, node[n].tasks[i].type)

\* The same for the master's merger, whose models are those of the schema.
MasterInv ==
  /\ merger.pc = "merge" => merger.increment \in Increment
  /\ \A i \in 1..Len(internal_task_queue) :
       internal_task_queue[i].type # "kDisposeModel" =>
         /\ i = Len(internal_task_queue) /\ ~sync
         /\ api.pc = (IF internal_task_queue[i].type = "kForcePushTopicModelIncrement"
                      THEN "wait.forced" ELSE "wait.pulled")
  /\ \A m \in Model : schema[m] = "absent" => topic_model[m] = Nil

\* What a call in progress holds.
CallInv ==
  /\ api.pc \in {"create", "dispose"} => api.model \in Model
  /\ api.pc = "add" => api.batches # {} /\ disk # {}
  /\ api.called => Forcing /\ api.nodes # {}

\* The nodes that a call has yet to reach may be behind the master.
SyncInv ==
  /\ api.pc # "wait.pulled" =>
       \A n \in clients, m \in Model :
         Near(n, m) \/ (api.pc \in {"dispose", "refresh", "wait.nodes"} /\ n \in api.nodes)
  /\ api.pc = "dispose" => \A n \in clients, m \in Model : Near(n, m) \/ m = api.model
  /\ api.pc \in {"refresh", "wait.nodes"} /\ api.called /\ sync =>
       \A m \in Model : InSync(NextNode, m)

NetworkInv ==
  TypeOK /\ MasterInv /\ CallInv /\ SyncInv /\ \A n \in Nodes : NodeInv(n)

-----------------------------------------------------------------------------
(* Types.                                                                  *)
LEMMA MinIsIn ==
  ASSUME NEW S \in SUBSET Nat, S # {}
  PROVE  Min(S) \in S
<1> DEFINE R == {ss \in Nat \X Nat : ss[1] < ss[2]}
<1>1. IsWellFoundedOn(R, Nat)
  BY NatLessThanWellFounded, Zenon DEF OpToRel
<1>2. \A x, y \in Nat : x < y => <<x, y>> \in R
  OBVIOUS
<1> HIDE DEF R
<1>3. PICK x \in S : \A y \in S : ~ (<<y, x>> \in R)
  BY <1>1, WFMin
<1>4. \A y \in S : x <= y
  <2>1. \A y \in S : x \in Nat /\ y \in Nat /\ ~ (y < x)
    BY <1>2, <1>3
  <2>2. QED
    BY <2>1
<1>5. QED
  BY <1>4, Zenon DEF Min

LEMMA PopOne ==
  ASSUME NEW S, NEW s \in Seq(S), s # <<>>
  PROVE  Head(s) \in S /\ Tail(s) \in Seq(S) /\ Len(Tail(s)) = Len(s) - 1
OBVIOUS

LEMMA PushOne ==
  ASSUME NEW S, NEW s \in Seq(S), NEW e \in S
  PROVE  Append(s, e) \in Seq(S) /\ Len(Append(s, e)) = Len(s) + 1
OBVIOUS

LEMMA TaskTypeOK ==
  \A type \in TaskTypes, m \in Model \cup {Nil} : Task(type, m) \in Tasks
BY DEF Task, Tasks

\* Only node n moves, to the state s.
NodeMoves(n, s) == node' = [node EXCEPT ![n] = s]

LEMMA MovesOK ==
  ASSUME NetworkNodeTypeOK, NEW n \in Nodes, NEW s \in NodeState, NodeMoves(n, s)
  PROVE  /\ node' \in [Nodes -> NodeState]
         /\ node'[n] = s /\ \A k \in Nodes : k # n => node'[k] = node[k]
BY DEF NodeMoves, NetworkNodeTypeOK

LEMMA EmptyOK == NoInstance \in NodeState
BY DEF NoInstance, NodeState

LEMMA AccumulatedOK ==
  ASSUME NEW inc \in Counts \cup {Nil}, NEW n_wt \in Counts
  PROVE  Accumulated(inc, n_wt) \in Counts
BY DEF Accumulated, Plus, Counts

LEMMA NodeThreadTypes ==
  ASSUME NetworkNodeTypeOK, NEW n \in Nodes, NodeInv(n), NodeThread(n)
  PROVE  node' \in [Nodes -> NodeState] /\ \A k \in Nodes : k # n => node'[k] = node[k]
<1>0. node \in [Nodes -> NodeState] /\ node[n] \in NodeState
  BY DEF NetworkNodeTypeOK
<1>b. node[n].todo # {} => node[n].batch \in Batch
  BY <1>0 DEF NodeInv, NodeState
<1>1. CASE LoaderRequest(n)
  <2>1. ProcessorQueueMaxSize - Len(node[n].processor_queue) \in Nat
    BY <1>0, <1>1, NetworkNodeAssumption DEF LoaderRequest, NodeState
  <2> DEFINE s == [node[n] EXCEPT !.loader = "request",
                     !.want = ProcessorQueueMaxSize - Len(node[n].processor_queue)]
  <2>2. s \in NodeState
    BY <1>0, <2>1 DEF NodeState
  <2>3. NodeMoves(n, s)
    BY <1>0, <1>1 DEF LoaderRequest, NodeMoves
  <2>4. QED
    BY <2>2, <2>3, MovesOK
<1>2. CASE LoaderPush(n)
  <2>0. /\ node[n].batches \in Seq(Batch) /\ node[n].batches # <<>>
        /\ node[n].processor_queue \in Seq(Batch)
    BY <1>0, <1>2 DEF LoaderPush, NodeState
  <2>1. /\ Tail(node[n].batches) \in Seq(Batch)
        /\ Append(node[n].processor_queue, Head(node[n].batches)) \in Seq(Batch)
    BY <2>0
  <2> DEFINE s == [node[n] EXCEPT !.processor_queue = Append(@, Head(node[n].batches)),
                                  !.batches = Tail(@)]
  <2>2. s \in NodeState
    BY <1>0, <2>1 DEF NodeState
  <2>3. NodeMoves(n, s)
    BY <1>0, <1>2 DEF LoaderPush, NodeMoves
  <2>4. QED
    BY <2>2, <2>3, MovesOK
<1>3. CASE LoaderFatal(n)
  <2> DEFINE s == [node[n] EXCEPT !.up = FALSE]
  <2>2. s \in NodeState
    BY <1>0 DEF NodeState
  <2>3. NodeMoves(n, s)
    BY <1>0, <1>3 DEF LoaderFatal, NodeMoves
  <2>4. QED
    BY <2>2, <2>3, MovesOK
<1>4. CASE LoaderAgain(n)
  <2> DEFINE s == [node[n] EXCEPT !.loader = "poll", !.want = 0]
  <2>2. s \in NodeState
    BY <1>0 DEF NodeState
  <2>3. NodeMoves(n, s)
    BY <1>0, <1>4 DEF LoaderAgain, NodeMoves
  <2>4. QED
    BY <2>2, <2>3, MovesOK
<1>5. CASE ProcessorPop(n)
  <2>1. /\ Head(node[n].processor_queue) \in Batch
        /\ Tail(node[n].processor_queue) \in Seq(Batch)
    BY <1>0, <1>5 DEF ProcessorPop, NodeState
  <2> DEFINE s == [node[n] EXCEPT !.processor_queue = Tail(@), !.batch = Head(node[n].processor_queue),
                     !.todo = {m \in Model : node[n].topic_model[m] # Nil}]
  <2>2. s \in NodeState
    BY <1>0, <2>1 DEF NodeState
  <2>3. NodeMoves(n, s)
    BY <1>0, <1>5 DEF ProcessorPop, NodeMoves
  <2>4. QED
    BY <2>2, <2>3, MovesOK
<1>6. CASE ProcessorPush(n)
  <2> DEFINE m == Min(node[n].todo)
             inc == [batch |-> node[n].batch, model |-> m]
             queue == Append(node[n].merger_queue, inc)
             s == [node[n] EXCEPT !.todo = @ \ {m}, !.merger_queue = queue]
  <2>1. m \in Model
    <3>1. node[n].todo # {} /\ node[n].todo \in SUBSET Model
      BY <1>0, <1>6 DEF ProcessorPush, NodeState
    <3>2. QED
      BY <3>1, MinIsIn, ModelAssumption
  <2>2. node[n].batch \in Batch
    BY <1>0, <1>6, <1>b DEF ProcessorPush
  <2>3. inc \in [batch : Batch, model : Model]
    BY <2>1, <2>2
  <2>4. s \in NodeState
    <3> HIDE DEF inc, m
    <3>1. node[n].merger_queue \in Seq([batch : Batch, model : Model])
      BY <1>0 DEF NodeState
    <3>2. queue \in Seq([batch : Batch, model : Model])
      BY <2>3, <3>1
    <3> HIDE DEF queue
    <3>3. QED
      BY <1>0, <3>2 DEF NodeState
  <2>5. NodeMoves(n, s)
    BY <1>0, <1>6 DEF ProcessorPush, NodeMoves
  <2>6. QED
    BY <2>4, <2>5, MovesOK
<1>7. CASE ProcessorDone(n)
  <2> DEFINE s == [node[n] EXCEPT !.batch = Nil]
  <2>2. s \in NodeState
    BY <1>0 DEF NodeState
  <2>3. NodeMoves(n, s)
    BY <1>0, <1>7 DEF ProcessorDone, NodeMoves
  <2>4. QED
    BY <2>2, <2>3, MovesOK
<1>8. CASE NodeTask(n)
  <2> DEFINE task == Head(node[n].tasks)
  <2>1. node[n].tasks \in Seq(Tasks) /\ node[n].tasks # <<>> /\ Tail(node[n].tasks) \in Seq(Tasks)
    BY <1>0, <1>8 DEF NodeTask, NodeState
  <2>2. CASE node' = [node EXCEPT ![n].tasks = Tail(@), ![n].topic_model_inc[task.model] = Nil]
    <3> DEFINE incs == [node[n].topic_model_inc EXCEPT ![task.model] = Nil]
               s == [node[n] EXCEPT !.tasks = Tail(@), !.topic_model_inc = incs]
    <3>1. incs \in [Model -> Counts \cup {Nil}]
      BY <1>0 DEF NodeState
    <3>2. s \in NodeState
      <4> HIDE DEF incs
      <4>1. QED
        BY <1>0, <2>1, <3>1 DEF NodeState
    <3>3. NodeMoves(n, s)
      BY <1>0, <2>2 DEF NodeMoves
    <3>4. QED
      BY <3>2, <3>3, MovesOK
  <2>3. ASSUME NEW S \in SUBSET Model, NEW pc \in {"push", "pull"},
               node' = [node EXCEPT ![n].merger = pc, ![n].models = S]
        PROVE  node' \in [Nodes -> NodeState] /\ \A k \in Nodes : k # n => node'[k] = node[k]
    <3> DEFINE s == [node[n] EXCEPT !.merger = pc, !.models = S]
    <3>1. s \in NodeState
      BY <1>0 DEF NodeState
    <3>2. NodeMoves(n, s)
      BY <1>0, <2>3 DEF NodeMoves
    <3>3. QED
      BY <3>1, <3>2, MovesOK
  <2>4. QED
    BY <1>8, <2>2, <2>3 DEF NodeTask
<1>9. CASE NodeMerge(n)
  <2> DEFINE inc == Head(node[n].merger_queue)
             one == [NoCounts EXCEPT ![inc.batch] = 1]
             old == node[n].topic_model_inc[inc.model]
             new == IF node[n].topic_model[inc.model] = Nil THEN old ELSE Accumulated(old, one)
             incs == [node[n].topic_model_inc EXCEPT ![inc.model] = new]
             s == [node[n] EXCEPT !.merger_queue = Tail(@), !.merger = "report",
                     !.reported = inc.batch, !.topic_model_inc = incs]
  <2>0. /\ node[n].merger_queue \in Seq([batch : Batch, model : Model])
        /\ node[n].merger_queue # <<>>
    BY <1>0, <1>9 DEF NodeMerge, NodeState
  <2>1. /\ inc \in [batch : Batch, model : Model]
        /\ Tail(node[n].merger_queue) \in Seq([batch : Batch, model : Model])
    BY <2>0, PopOne
  <2>2. one \in Counts
    BY <2>1 DEF Counts, NoCounts
  <2>3. old \in Counts \cup {Nil}
    BY <1>0, <2>1 DEF NodeState
  <2>4. new \in Counts \cup {Nil}
    <3> HIDE DEF one, old
    <3>1. QED
      BY <2>2, <2>3, AccumulatedOK
  <2>5. incs \in [Model -> Counts \cup {Nil}]
    <3> HIDE DEF new
    <3>1. QED
      BY <1>0, <2>1, <2>4 DEF NodeState
  <2>6. s \in NodeState
    <3> HIDE DEF incs
    <3>1. QED
      BY <1>0, <2>1, <2>5 DEF NodeState
  <2>7. NodeMoves(n, s)
    BY <1>0, <1>9 DEF NodeMerge, NodeMoves
  <2>8. QED
    BY <2>6, <2>7, MovesOK
<1>10. CASE NodeSignal(n)
  <2>1. Tail(node[n].tasks) \in Seq(Tasks)
    BY <1>0, <1>10 DEF NodeSignal, NodeInv, NodeState
  <2> DEFINE s == [node[n] EXCEPT !.merger = "run", !.tasks = Tail(@)]
  <2>2. s \in NodeState
    BY <1>0, <2>1 DEF NodeState
  <2>3. NodeMoves(n, s)
    BY <1>0, <1>10 DEF NodeSignal, NodeMoves
  <2>4. QED
    BY <2>2, <2>3, MovesOK
<1>11. QED
  BY <1>1, <1>2, <1>3, <1>4, <1>5, <1>6, <1>7, <1>8, <1>9, <1>10
  DEF NodeThread, LoaderThread, ProcessorThread, NodeMergerThread

LEMMA NextTaskOK ==
  ASSUME BatchManagerTypeOK, NEW i \in 1..Len(tasks), NextTask(i)
  PROVE  BatchManagerTypeOK' /\ tasks[i] \in Batch
<1>1. tasks[i] \in Batch
  BY DEF BatchManagerTypeOK
<1>2. tasks' \in Seq(Batch)
  <2>1. RemoveAt(tasks, i) = SubSeq(tasks, 1, i - 1) \o SubSeq(tasks, i + 1, Len(tasks))
    BY DEF RemoveAt
  <2>2. tasks \in Seq(Batch)
    BY DEF BatchManagerTypeOK
  <2>3. SubSeq(tasks, 1, i - 1) \in Seq(Batch) /\ SubSeq(tasks, i + 1, Len(tasks)) \in Seq(Batch)
    BY <2>2
  <2>4. QED
    BY <2>1, <2>3 DEF NextTask
<1>3. in_progress' \in [Model -> SUBSET Batch]
  BY <1>1 DEF BatchManagerTypeOK, NextTask
<1>4. QED
  BY <1>1, <1>2, <1>3 DEF BatchManagerTypeOK

LEMMA ServiceTypes ==
  ASSUME NetworkNodeTypeOK, BatchManagerTypeOK, NEW n \in Nodes, NodeInv(n), Service(n)
  PROVE  /\ BatchManagerTypeOK' /\ merger_queue' \in Seq(Increment)
         /\ node' \in [Nodes -> NodeState] /\ \A k \in Nodes : k # n => node'[k] = node[k]
<1>0. node \in [Nodes -> NodeState] /\ node[n] \in NodeState /\ merger_queue \in Seq(Increment)
  BY DEF NetworkNodeTypeOK
<1>1. CASE RequestBatches(n)
  <2>1. PICK i \in 1..Len(tasks) :
          NextTask(i) /\ node' = [node EXCEPT ![n].batches = Append(@, tasks[i])]
    BY <1>1 DEF RequestBatches
  <2>2. BatchManagerTypeOK' /\ tasks[i] \in Batch
    BY <2>1, NextTaskOK
  <2> DEFINE s == [node[n] EXCEPT !.batches = Append(@, tasks[i])]
  <2>3. s \in NodeState
    <3>1. node[n].batches \in Seq(Batch)
      BY <1>0 DEF NodeState
    <3>2. Append(node[n].batches, tasks[i]) \in Seq(Batch)
      BY <2>2, <3>1, PushOne
    <3>3. QED
      BY <1>0, <3>2 DEF NodeState
  <2>4. NodeMoves(n, s)
    BY <1>0, <2>1 DEF NodeMoves
  <2>5. QED
    BY <1>0, <1>1, <2>2, <2>3, <2>4, MovesOK DEF RequestBatches, mergerVars
<1>2. CASE RequestBatchesReply(n)
  <2> DEFINE s == [node[n] EXCEPT !.loader = "answered"]
  <2>1. s \in NodeState
    BY <1>0 DEF NodeState
  <2>2. NodeMoves(n, s)
    BY <1>0, <1>2 DEF RequestBatchesReply, NodeMoves
  <2>3. QED
    BY <1>0, <1>2, <2>1, <2>2, MovesOK
    DEF RequestBatchesReply, mergerVars, batchManagerVars, BatchManagerTypeOK
<1>3. CASE ReportBatches(n)
  <2> DEFINE s == [node[n] EXCEPT !.merger = "run", !.reported = Nil]
  <2>1. s \in NodeState
    BY <1>0 DEF NodeState
  <2>2. NodeMoves(n, s)
    BY <1>0, <1>3 DEF ReportBatches, NodeMoves
  <2>3. BatchManagerTypeOK'
    BY <1>3 DEF ReportBatches, DoneForAll, BatchManagerTypeOK
  <2>4. QED
    BY <1>0, <1>3, <2>1, <2>2, <2>3, MovesOK DEF ReportBatches, mergerVars
<1>4. CASE UpdateModel(n)
  <2> DEFINE m == Min(node[n].models)
             left == IF node[n].up THEN node[n].models \ {m} ELSE {}
             incs == [node[n].topic_model_inc EXCEPT ![m] = Nil]
             s == [node[n] EXCEPT !.models = left, !.topic_model_inc = incs]
             inc == [model |-> m, n_wt |-> node[n].topic_model_inc[m]]
  <2>1. m \in Model /\ m \in node[n].models
    <3>1. node[n].models # {} /\ node[n].models \in SUBSET Model
      BY <1>0, <1>4 DEF UpdateModel, NodeState
    <3>2. QED
      BY <3>1, MinIsIn, ModelAssumption
  <2>2. inc \in Increment
    <3>1. node[n].topic_model_inc[m] \in Counts
      <4>1. node[n].topic_model_inc \in [Model -> Counts \cup {Nil}]
        BY <1>0 DEF NodeState
      <4>2. node[n].topic_model_inc[m] # Nil
        BY <1>4, <2>1 DEF NodeInv, UpdateModel
      <4>3. QED
        BY <2>1, <4>1, <4>2
    <3>2. QED
      BY <2>1, <3>1 DEF Increment
  <2>3. merger_queue' \in Seq(Increment)
    <3>1. merger_queue' = Append(merger_queue, inc)
      BY <1>4 DEF UpdateModel
    <3>2. QED
      BY <1>0, <2>2, <3>1, PushOne
  <2>4. left \in SUBSET Model /\ incs \in [Model -> Counts \cup {Nil}]
    BY <1>0 DEF NodeState
  <2>5. s \in NodeState
    <3> HIDE DEF left, incs
    <3>1. QED
      BY <1>0, <2>4 DEF NodeState
  <2>6. NodeMoves(n, s)
    BY <1>0, <1>4 DEF UpdateModel, NodeMoves
  <2>7. QED
    BY <1>4, <2>3, <2>5, <2>6, MovesOK DEF UpdateModel, batchManagerVars, BatchManagerTypeOK
<1>5. CASE RetrieveModel(n)
  <2> DEFINE m == Min(node[n].models)
             models == [node[n].topic_model EXCEPT ![m] = topic_model[m]]
             incs == [node[n].topic_model_inc EXCEPT ![m] = Nil]
             s == [node[n] EXCEPT !.models = @ \ {m}, !.topic_model = models,
                                  !.topic_model_inc = incs]
  <2>1. m \in Model
    <3>1. node[n].models # {} /\ node[n].models \in SUBSET Model
      BY <1>0, <1>5 DEF RetrieveModel, NodeState
    <3>2. QED
      BY <3>1, MinIsIn, ModelAssumption
  <2>2. /\ models \in [Model -> TopicModel \cup {Nil}]
        /\ incs \in [Model -> Counts \cup {Nil}]
    BY <1>0, <2>1 DEF NodeState, NetworkNodeTypeOK
  <2>3. s \in NodeState
    <3> HIDE DEF models, incs
    <3>1. QED
      BY <1>0, <2>2 DEF NodeState
  <2>4. NodeMoves(n, s)
    BY <1>0, <1>5 DEF RetrieveModel, NodeMoves
  <2>5. QED
    BY <1>0, <1>5, <2>3, <2>4, MovesOK
    DEF RetrieveModel, batchManagerVars, mergerVars, BatchManagerTypeOK
<1>6. QED
  BY <1>1, <1>2, <1>3, <1>4, <1>5 DEF Service

MergerTypeOK ==
  /\ topic_model \in [Model -> TopicModel \cup {Nil}]
  /\ topic_model_inc \in [Model -> Counts \cup {Nil}]
  /\ merger_queue \in Seq(Increment)
  /\ internal_task_queue \in Seq(Tasks)
  /\ merger \in [pc : {"idle", "run", "merge"}, increment : Increment \cup {Nil}]
  /\ sync \in BOOLEAN

LEMMA MergerTypes ==
  ASSUME MergerTypeOK, MasterInv, MergerThread
  PROVE  MergerTypeOK' /\ (merger'.pc = "merge" => merger'.increment \in Increment)
<1> USE DEF MergerTypeOK
<1>1. CASE MergerWake
  BY <1>1 DEF MergerWake
<1>2. CASE MergerTask
  <2>1. Tail(internal_task_queue) \in Seq(Tasks)
    BY <1>2, PopOne DEF MergerTask
  <2>2. UNCHANGED <<merger_queue, merger>> /\ sync' \in BOOLEAN
    BY <1>2 DEF MergerTask
  <2>3. topic_model' \in [Model -> TopicModel \cup {Nil}]
    <3>1. \A m \in Pulled : [n_wt |-> topic_model_inc[m], edition |-> 0] \in TopicModel
      <4>1. ASSUME NEW m \in Pulled
            PROVE  m \in Model /\ topic_model_inc[m] \in Counts
        <5>1. m \in Model /\ m <= m /\ topic_model[m] # Nil
          BY ModelAssumption DEF Pulled
        <5>2. topic_model_inc[m] # Nil
          BY <5>1 DEF Pulled
        <5>3. QED
          BY <5>1, <5>2
      <4>2. QED
        BY <4>1 DEF TopicModel
    <3>2. \/ UNCHANGED topic_model
          \/ topic_model' = [m \in Model |-> IF m \in Pulled
                               THEN [n_wt |-> topic_model_inc[m], edition |-> 0]
                               ELSE topic_model[m]]
      BY <1>2 DEF MergerTask
    <3>3. QED
      BY <3>1, <3>2
  <2>4. topic_model_inc' \in [Model -> Counts \cup {Nil}]
    BY <1>2 DEF MergerTask
  <2>5. QED
    BY <1>2, <2>1, <2>2, <2>3, <2>4 DEF MergerTask, MasterInv
<1>3. CASE MergerPop
  <2>1. Head(merger_queue) \in Increment /\ Tail(merger_queue) \in Seq(Increment)
    BY <1>3, PopOne DEF MergerPop
  <2>2. QED
    BY <1>3, <2>1 DEF MergerPop
<1>4. CASE MergerMerge
  <2> DEFINE m == merger.increment.model
  <2>1. m \in Model /\ merger.increment.n_wt \in Counts
    BY <1>4 DEF MergerMerge, MasterInv, Increment
  <2>2. Accumulated(topic_model_inc[m], merger.increment.n_wt) \in Counts
    BY <2>1, AccumulatedOK
  <2>3. QED
    BY <1>4, <2>1, <2>2 DEF MergerMerge
<1>5. CASE MergerIdle
  BY <1>5 DEF MergerIdle
<1>6. QED
  BY <1>1, <1>2, <1>3, <1>4, <1>5 DEF MergerThread

-----------------------------------------------------------------------------
(* What a step of the API finds and leaves.                                *)
Calm(n) ==
  /\ node[n].merger \notin {"push", "pull"}
  /\ \A i \in 1..Len(node[n].tasks) : node[n].tasks[i].type = "kDisposeModel"

MasterCalm ==
  \A i \in 1..Len(internal_task_queue) : internal_task_queue[i].type = "kDisposeModel"

AllNear == \A n \in clients, m \in Model : Near(n, m)

LEMMA NextNodeOK ==
  ASSUME TypeOK, api.nodes # {}
  PROVE  NextNode \in api.nodes /\ NextNode \in Nodes
<1>1. api.nodes \in SUBSET Nodes
  BY DEF TypeOK, Api
<1>2. QED
  BY <1>1, MinIsIn, NetworkNodeAssumption DEF NextNode

LEMMA NodeIsCalm ==
  ASSUME TypeOK, NEW n \in Nodes, NodeInv(n), \A type \in TaskTypes : ~Waits(n, type)
  PROVE  Calm(n)
<1>0. node[n].tasks \in Seq(Tasks) /\ node[n].merger \in {"run", "report", "push", "pull"}
  BY DEF TypeOK, NetworkNodeTypeOK, NodeState
<1>1. ASSUME NEW i \in 1..Len(node[n].tasks)
      PROVE  node[n].tasks[i].type = "kDisposeModel"
  <2>1. node[n].tasks[i] \in Tasks
    BY <1>0
  <2>2. node[n].tasks[i].type \in TaskTypes
    BY <2>1 DEF Tasks
  <2>3. QED
    BY <2>2 DEF NodeInv
<1>2. node[n].merger \notin {"push", "pull"}
  <2>1. SUFFICES ASSUME node[n].merger \in {"push", "pull"}
                 PROVE  FALSE
    OBVIOUS
  <2>2. /\ node[n].tasks # <<>>
        /\ node[n].tasks[1].type \in {"kForcePushTopicModelIncrement", "kForcePullTopicModel"}
    BY <2>1 DEF NodeInv
  <2>3. 1 \in 1..Len(node[n].tasks)
    BY <1>0, <2>2
  <2>4. QED
    BY <1>1, <2>2, <2>3
<1>3. QED
  BY <1>1, <1>2 DEF Calm

LEMMA ApiIsCalm ==
  ASSUME NetworkInv, ApiCall \/ ApiThread
  PROVE  /\ \A n \in Nodes : Calm(n)
         /\ MasterCalm
         /\ api.called => sync /\ Forcing
<1>1. /\ api.called => sync /\ Forcing
      /\ api.pc \in {"wait.forced", "wait.pulled"} => sync
  <2>0. CallInv
    BY DEF NetworkInv
  <2>1. CASE ApiCall
    <3>1. api.pc = "ready"
      BY <2>1 DEF ApiCall, Reconfigure, CreateModel, RecreateModel, DisposeModel, OverwriteTopicModel, AddBatch,
                  InvokePhiRegularizers, InvokeIteration, WaitIdle, Call
    <3>2. QED
      BY <2>0, <3>1 DEF CallInv, Forcing
  <2>2. CASE NodeForce \/ NodeForceNoInstance
    BY <2>2 DEF NodeForce, NodeForceNoInstance, Forcing
  <2>3. CASE NodeForced
    BY <2>3 DEF NodeForced
  <2>4. CASE NodesDone
    BY <2>0, <2>4 DEF NodesDone, CallInv
  <2>5. CASE CreateModelNode \/ DisposeModelNode
    BY <2>0, <2>5 DEF CreateModelNode, DisposeModelNode, CallInv, Forcing
  <2>6. CASE ConnectClient \/ DisconnectClient \/ ConfigureClient
    BY <2>0, <2>6 DEF ConnectClient, DisconnectClient, ConfigureClient, CallInv, Forcing
  <2>7. CASE InvokeAdd \/ WaitTimeout \/ WaitProcessed \/ WaitIsIdle \/ WaitQueueNotEmpty \/ WaitPush
    BY <2>0, <2>7 DEF InvokeAdd, WaitTimeout, WaitProcessed, WaitIsIdle, WaitQueueNotEmpty,
                      WaitPush, At, CallInv, Forcing
  <2>8. CASE WaitPull \/ WaitPulled \/ WaitReturn
    BY <2>0, <2>8 DEF WaitPull, WaitPulled, WaitReturn, At, CallInv, Forcing
  <2>9. QED
    BY <2>1, <2>2, <2>3, <2>4, <2>5, <2>6, <2>7, <2>8 DEF ApiThread
<1>2. \A n \in Nodes : Calm(n)
  BY <1>1, NodeIsCalm DEF NetworkInv, Waits
<1>3. MasterCalm
  <2>1. ASSUME NEW i \in 1..Len(internal_task_queue),
               internal_task_queue[i].type # "kDisposeModel"
        PROVE  FALSE
    BY <1>1, <2>1 DEF NetworkInv, MasterInv
  <2>2. QED
    BY <2>1 DEF MasterCalm
<1>4. QED
  BY <1>1, <1>2, <1>3

\* A calm node that does not move keeps its invariant.
LEMMA NodeKeepsCalm ==
  ASSUME NEW n \in Nodes, NodeInv(n), Calm(n), node'[n] = node[n]
  PROVE  NodeInv(n)'
BY Zenon DEF NodeInv, Calm

LEMMA MasterKeepsCalm ==
  ASSUME MasterInv, MasterCalm, UNCHANGED <<schema, merger, internal_task_queue, topic_model>>
  PROVE  MasterInv'
BY Zenon DEF MasterInv, MasterCalm

LEMMA StillInSync ==
  ASSUME AllNear, UNCHANGED <<topic_model, node, clients>>, ~api'.called
  PROVE  SyncInv'
BY Zenon DEF AllNear, SyncInv, Near, InSync

\* A step of the API that only changes what the call itself holds.
LEMMA ApiOnly ==
  ASSUME NetworkInv, \A n \in Nodes : Calm(n), MasterCalm,
         UNCHANGED <<schema, mergerVars, node, sync, clients>>,
         BatchManagerTypeOK', disk' \in SUBSET Batch, api' \in Api, calls' \in Nat,
         quiet' \in BOOLEAN, due' \in [Model -> Counts],
         CallInv', SyncInv'
  PROVE  NetworkInv'
<1>1. TypeOK'
  <2>1. SchemaTypeOK' /\ NetworkNodeTypeOK' /\ clients' \subseteq Nodes
    BY DEF NetworkInv, TypeOK, SchemaTypeOK, NetworkNodeTypeOK, mergerVars
  <2>2. QED
    BY <2>1 DEF TypeOK
<1>2. MasterInv'
  BY MasterKeepsCalm DEF NetworkInv, mergerVars
<1>3. \A n \in Nodes : NodeInv(n)'
  BY NodeKeepsCalm DEF NetworkInv
<1>4. QED
  BY <1>1, <1>2, <1>3 DEF NetworkInv

\* A step that only moves the call on, from a state where all nodes are in sync.
LEMMA ApiGoesOn ==
  ASSUME NetworkInv, \A n \in Nodes : Calm(n), MasterCalm, AllNear,
         UNCHANGED <<schema, mergerVars, node, sync, clients>>,
         BatchManagerTypeOK', disk' \in SUBSET Batch, api' \in Api, calls' \in Nat,
         quiet' \in BOOLEAN, due' \in [Model -> Counts],
         ~api'.called, api'.pc \notin {"create", "dispose"},
         api'.pc = "add" => api'.batches # {} /\ disk' # {}
  PROVE  NetworkInv'
<1>1. CallInv'
  BY DEF CallInv
<1>2. SyncInv'
  BY StillInSync DEF mergerVars
<1>3. QED
  BY <1>1, <1>2, ApiOnly

LEMMA ApiIsTyped ==
  ASSUME NetworkInv
  PROVE  /\ api \in Api /\ calls \in Nat /\ quiet \in BOOLEAN /\ due \in [Model -> Counts]
         /\ disk \in SUBSET Batch /\ clients \in SUBSET Nodes /\ BatchManagerTypeOK
         /\ UNCHANGED batchManagerVars => BatchManagerTypeOK'
         /\ SchemaTypeOK /\ NetworkNodeTypeOK /\ TypeOK
BY DEF NetworkInv, TypeOK, BatchManagerTypeOK, batchManagerVars

LEMMA CallsCounted ==
  ASSUME NetworkInv, NEW name, Call(name)
  PROVE  /\ calls' \in Nat /\ api.pc = "ready" /\ ~api.called
         /\ AllNear
<1>1. api.pc = "ready" /\ calls' \in Nat
  BY ApiIsTyped DEF Call
<1>2. QED
  BY <1>1 DEF NetworkInv, CallInv, SyncInv, AllNear, Forcing

LEMMA ReadyOK == Ready \in Api
BY DEF Ready, Api

\* The calls that only start, and the steps of WaitIdle on the master.
LEMMA ApiMoves ==
  ASSUME NetworkInv,
         \/ \E b \in Batch : AddBatch(b)
         \/ \E n \in IterationCounts : InvokeIteration(n)
         \/ \E endpoints \in NodeSets : Reconfigure(endpoints)
         \/ WaitIdle \/ InvokeAdd \/ WaitTimeout \/ WaitProcessed \/ WaitIsIdle
         \/ WaitQueueNotEmpty \/ WaitPulled \/ NodesDone \/ WaitReturn,
         \A n \in Nodes : Calm(n), MasterCalm
  PROVE  NetworkInv'
<1>0. /\ api \in Api /\ calls \in Nat /\ quiet \in BOOLEAN /\ due \in [Model -> Counts]
      /\ disk \in SUBSET Batch /\ clients \in SUBSET Nodes /\ BatchManagerTypeOK
      /\ UNCHANGED batchManagerVars => BatchManagerTypeOK'
  BY ApiIsTyped
<1>a. CallInv /\ SyncInv
  BY DEF NetworkInv
<1>1. ASSUME NEW b \in Batch, AddBatch(b)
      PROVE  NetworkInv'
  <2>1. calls' \in Nat /\ api.pc = "ready" /\ ~api.called /\ AllNear
    BY <1>1, CallsCounted DEF AddBatch
  <2>2. /\ disk' \in SUBSET Batch /\ api' = api
        /\ UNCHANGED <<schema, batchManagerVars, mergerVars, node, sync, clients, due, quiet>>
    BY <1>0, <1>1 DEF AddBatch
  <2>3. QED
    BY <1>0, <2>1, <2>2, ApiGoesOn
<1>2. ASSUME NEW n \in IterationCounts, InvokeIteration(n)
      PROVE  NetworkInv'
  <2>1. calls' \in Nat /\ api.pc = "ready" /\ ~api.called /\ AllNear
    BY <1>2, CallsCounted DEF InvokeIteration
  <2>2. n \in Nat
    BY NetworkAssumption
  <2>3. api' \in Api /\ ~api'.called /\ api'.pc = "add" /\ api'.batches = disk /\ disk # {}
    BY <1>0, <1>2, <2>1, <2>2 DEF InvokeIteration, Api
  <2>4. quiet' \in BOOLEAN
        /\ UNCHANGED <<schema, batchManagerVars, mergerVars, node, sync, disk, clients, due>>
    BY <1>2 DEF InvokeIteration
  <2>5. QED
    BY <1>0, <2>1, <2>3, <2>4, ApiGoesOn
<1>3. ASSUME NEW endpoints \in NodeSets, Reconfigure(endpoints)
      PROVE  NetworkInv'
  <2>1. calls' \in Nat /\ api.pc = "ready" /\ ~api.called /\ AllNear
    BY <1>3, CallsCounted DEF Reconfigure
  <2>2. endpoints \in SUBSET Nodes
    BY NetworkAssumption
  <2>3. api' \in Api /\ ~api'.called /\ api'.pc = "connect"
    BY <1>0, <1>3, <2>1, <2>2 DEF Reconfigure, Api
  <2>4. UNCHANGED <<schema, batchManagerVars, mergerVars, node, sync, disk, clients, due, quiet>>
    BY <1>3 DEF Reconfigure
  <2>5. QED
    BY <1>0, <2>1, <2>3, <2>4, ApiGoesOn
<1>4. CASE WaitIdle
  <2>1. calls' \in Nat /\ api.pc = "ready" /\ ~api.called /\ AllNear
    BY <1>4, CallsCounted DEF WaitIdle
  <2>3. api' \in Api /\ ~api'.called /\ api'.pc = "wait.poll"
    BY <1>0, <1>4, <2>1 DEF WaitIdle, Goto, Api
  <2>4. UNCHANGED <<schema, batchManagerVars, mergerVars, node, sync, disk, clients, due, quiet>>
    BY <1>4 DEF WaitIdle
  <2>5. QED
    BY <1>0, <2>1, <2>3, <2>4, ApiGoesOn
<1>5. CASE InvokeAdd
  <2> DEFINE b == Min(api.batches)
             rest == api.batches \ {b}
  <2>1. api.pc = "add" /\ UNCHANGED calls /\ api.batches # {} /\ disk # {} /\ ~api.called
    BY <1>a, <1>5 DEF InvokeAdd, At, CallInv, Forcing
  <2>2. b \in Batch
    <3>1. api.batches \in SUBSET Batch
      BY <1>0 DEF Api
    <3>2. QED
      BY <2>1, <3>1, MinIsIn, BatchAssumption
  <2>3. AllNear
    BY <1>a, <2>1 DEF SyncInv, AllNear
  <2>4. BatchManagerTypeOK'
    <3>1. tasks' = Append(tasks, b) /\ UNCHANGED in_progress
      BY <1>5 DEF InvokeAdd, Add
    <3>2. QED
      BY <1>0, <2>2, <3>1, PushOne DEF BatchManagerTypeOK
  <2>5. due' \in [Model -> Counts]
    <3>1. due' = [m \in Model |-> IF m \in EnabledModels
                                  THEN [due[m] EXCEPT ![b] = @ + 1] ELSE due[m]]
      BY <1>5 DEF InvokeAdd
    <3>2. ASSUME NEW m \in Model
          PROVE  [due[m] EXCEPT ![b] = @ + 1] \in Counts /\ due[m] \in Counts
      <4>1. due[m] \in [Batch -> Nat]
        BY <1>0 DEF Counts
      <4> HIDE DEF b
      <4>2. QED
        BY <2>2, <4>1 DEF Counts
    <3> HIDE DEF b
    <3>3. QED
      BY <3>1, <3>2
  <2>6. \/ rest # {} /\ api' = [api EXCEPT !.batches = rest]
        \/ /\ rest = {} /\ api.iterations > 1
           /\ api' = [api EXCEPT !.batches = disk, !.iterations = @ - 1]
        \/ api' = Ready
    BY <1>5 DEF InvokeAdd, Return
  <2>7. /\ api' \in Api /\ ~api'.called /\ api'.pc \in {"add", "ready"}
        /\ api'.pc = "add" => api'.batches # {}
    <3>1. CASE rest # {} /\ api' = [api EXCEPT !.batches = rest]
      <4>1. rest \in SUBSET Batch
        BY <1>0 DEF Api
      <4> HIDE DEF rest
      <4>2. QED
        BY <1>0, <2>1, <3>1, <4>1 DEF Api
    <3>2. CASE api.iterations > 1 /\ api' = [api EXCEPT !.batches = disk, !.iterations = @ - 1]
      <4>1. api.iterations - 1 \in Nat
        BY <1>0, <3>2 DEF Api
      <4>2. QED
        BY <1>0, <2>1, <3>2, <4>1 DEF Api
    <3>3. CASE api' = Ready
      BY <3>3, ReadyOK DEF Ready
    <3>4. QED
      BY <2>6, <3>1, <3>2, <3>3
  <2>8. UNCHANGED <<schema, mergerVars, node, sync, disk, clients, quiet>>
    BY <1>5 DEF InvokeAdd
  <2>9. QED
    BY <1>0, <2>1, <2>3, <2>4, <2>5, <2>7, <2>8, ApiGoesOn

<1>6. CASE WaitTimeout
  <2>1. /\ api.pc \in {"wait.poll", "wait.idle"} /\ UNCHANGED calls
        /\ UNCHANGED <<schema, batchManagerVars, mergerVars, node, sync, disk, clients, due, quiet>>
    BY <1>6 DEF WaitTimeout, At
  <2>2. ~api.called /\ AllNear
    BY <1>a, <2>1 DEF CallInv, SyncInv, AllNear, Forcing
  <2>3. api' \in Api /\ ~api'.called /\ api'.pc = "ready"
    BY <1>0, <1>6, <2>2, ReadyOK DEF WaitTimeout, Return, Ready, Api
  <2>4. QED
    BY <1>0, <2>1, <2>2, <2>3, ApiGoesOn
<1>7. CASE WaitProcessed
  <2>1. /\ api.pc \in {"wait.poll"} /\ UNCHANGED calls
        /\ UNCHANGED <<schema, batchManagerVars, mergerVars, node, sync, disk, clients, due, quiet>>
    BY <1>7 DEF WaitProcessed, At
  <2>2. ~api.called /\ AllNear
    BY <1>a, <2>1 DEF CallInv, SyncInv, AllNear, Forcing
  <2>3. api' \in Api /\ ~api'.called /\ api'.pc = "wait.push"
    BY <1>0, <1>7, <2>2 DEF WaitProcessed, At, Api
  <2>4. QED
    BY <1>0, <2>1, <2>2, <2>3, ApiGoesOn
<1>8. CASE WaitIsIdle
  <2>1. /\ api.pc \in {"wait.idle"} /\ UNCHANGED calls
        /\ UNCHANGED <<schema, batchManagerVars, mergerVars, node, sync, disk, clients, due, quiet>>
    BY <1>8 DEF WaitIsIdle, At
  <2>2. ~api.called /\ AllNear
    BY <1>a, <2>1 DEF CallInv, SyncInv, AllNear, Forcing
  <2>3. api' \in Api /\ ~api'.called /\ api'.pc = "wait.queue"
    BY <1>0, <1>8, <2>2 DEF WaitIsIdle, Goto, Api
  <2>4. QED
    BY <1>0, <2>1, <2>2, <2>3, ApiGoesOn
<1>9. CASE WaitQueueNotEmpty
  <2>1. /\ api.pc \in {"wait.queue"} /\ UNCHANGED calls
        /\ UNCHANGED <<schema, batchManagerVars, mergerVars, node, sync, disk, clients, due, quiet>>
    BY <1>9 DEF WaitQueueNotEmpty, At
  <2>2. ~api.called /\ AllNear
    BY <1>a, <2>1 DEF CallInv, SyncInv, AllNear, Forcing
  <2>3. api' \in Api /\ ~api'.called /\ api'.pc = "wait.idle"
    BY <1>0, <1>9, <2>2 DEF WaitQueueNotEmpty, Goto, Api
  <2>4. QED
    BY <1>0, <2>1, <2>2, <2>3, ApiGoesOn
<1>10. CASE NodesDone
  <2>1. /\ api.nodes = {} /\ UNCHANGED calls
        /\ UNCHANGED <<schema, batchManagerVars, mergerVars, node, sync, disk, clients, due, quiet>>
    BY <1>10 DEF NodesDone, At
  <2>2. api.pc \in {"create", "dispose", "refresh", "configure", "connect", "disconnect",
                    "wait.push", "wait.nodes"}
    BY <1>10 DEF NodesDone
  <2>3. ~api.called /\ AllNear
    BY <1>a, <2>1, <2>2 DEF CallInv, SyncInv, AllNear
  <2>4. api.drop \in SUBSET Nodes
    BY <1>0 DEF Api
  <2>5. api' \in Api /\ ~api'.called /\ api'.pc \notin {"create", "dispose", "add"}
    <3>1. CASE Return
      BY <3>1, ReadyOK DEF Return, Ready
    <3>2. CASE api' = [api EXCEPT !.pc = "disconnect", !.nodes = api.drop]
      BY <1>0, <2>3, <2>4, <3>2 DEF Api
    <3>3. CASE api' = [api EXCEPT !.pc = "configure", !.nodes = clients]
      BY <1>0, <2>3, <3>3 DEF Api
    <3>4. CASE Goto("wait.idle") \/ Goto("wait.done")
      BY <1>0, <2>3, <3>4 DEF Goto, Api
    <3>5. QED
      BY <1>10, <3>1, <3>2, <3>3, <3>4 DEF NodesDone
  <2>6. QED
    BY <1>0, <2>1, <2>3, <2>5, ApiGoesOn
<1>11. CASE WaitReturn
  <2>1. /\ api.pc = "wait.done" /\ UNCHANGED calls /\ api' = Ready
        /\ UNCHANGED <<schema, batchManagerVars, mergerVars, node, sync, disk, clients>>
    BY <1>11 DEF WaitReturn, At, Return
  <2>2. AllNear
    BY <1>a, <2>1 DEF SyncInv, AllNear
  <2>3. due' \in [Model -> Counts] /\ quiet' \in BOOLEAN
    BY <1>0, <1>11 DEF WaitReturn, NoCounts, Counts
  <2>4. api' \in Api /\ ~api'.called /\ api'.pc = "ready"
    BY <2>1, ReadyOK DEF Ready
  <2>5. QED
    BY <1>0, <2>1, <2>2, <2>3, <2>4, ApiGoesOn
<1>12. CASE WaitPulled
  <2>1. /\ api.pc = "wait.pulled" /\ UNCHANGED calls
        /\ api' = [api EXCEPT !.pc = "wait.nodes", !.nodes = clients]
        /\ UNCHANGED <<schema, batchManagerVars, mergerVars, node, sync, disk, clients, due, quiet>>
    BY <1>12 DEF WaitPulled, At
  <2>2. ~api.called
    BY <1>a, <2>1 DEF CallInv, Forcing
  <2>3. api' \in Api /\ ~api'.called /\ api'.pc = "wait.nodes" /\ api'.nodes = clients
    BY <1>0, <2>1, <2>2 DEF Api
  <2>4. CallInv' /\ SyncInv'
    BY <2>1, <2>3 DEF CallInv, SyncInv
  <2>5. QED
    BY <1>0, <2>1, <2>3, <2>4, ApiOnly
<1>13. QED
  BY <1>1, <1>2, <1>3, <1>4, <1>5, <1>6, <1>7, <1>8, <1>9, <1>10, <1>11, <1>12

-----------------------------------------------------------------------------
(* for_each_client with a force: the two cases without a task, and the one *)
(* that gives the node's merger a task and waits for it.                   *)
LEMMA RepliedOK ==
  ASSUME NetworkInv, NodesLeft, Replied
  PROVE  /\ api' \in Api /\ ~api'.called /\ api'.pc = api.pc /\ api'.model = api.model
         /\ api'.batches = api.batches
         /\ api'.nodes = api.nodes \ {NextNode} /\ UNCHANGED calls
<1>1. api \in Api
  BY ApiIsTyped
<1>2. QED
  BY <1>1 DEF Replied, NodesLeft, At, Api

LEMMA NodeForceOthers ==
  ASSUME NetworkInv, NodeForceNoInstance \/ NodeForced, \A n \in Nodes : Calm(n), MasterCalm
  PROVE  NetworkInv'
<1>0. /\ api \in Api /\ calls \in Nat /\ quiet \in BOOLEAN /\ due \in [Model -> Counts]
      /\ disk \in SUBSET Batch /\ clients \in SUBSET Nodes /\ BatchManagerTypeOK
      /\ UNCHANGED batchManagerVars => BatchManagerTypeOK'
  BY ApiIsTyped
<1>1. /\ Forcing /\ NodesLeft /\ Replied /\ api.nodes # {}
      /\ UNCHANGED <<schema, batchManagerVars, mergerVars, node, sync, disk, clients, due, quiet>>
  BY DEF NodeForceNoInstance, NodeForced, NodesLeft
<1>2. /\ api' \in Api /\ ~api'.called /\ api'.pc = api.pc /\ UNCHANGED calls
      /\ api'.nodes = api.nodes \ {NextNode}
  BY <1>1, RepliedOK
<1>3. PICK n \in Nodes : n = NextNode
  BY <1>1, NextNodeOK, ApiIsTyped
<1>4. api.pc \in {"refresh", "wait.nodes"} => \A m \in Model : InSync(n, m)
  <2>1. CASE NodeForceNoInstance
    BY <1>3, <2>1 DEF NodeForceNoInstance, NetworkInv, NodeInv, InSync
  <2>2. CASE NodeForced
    BY <1>3, <2>2 DEF NodeForced, NetworkInv, SyncInv
  <2>3. QED
    BY <2>1, <2>2
<1>5. SyncInv'
  <2>0. UNCHANGED <<topic_model, node>>
    BY <1>1 DEF mergerVars
  <2>1. ASSUME NEW k \in clients, NEW m \in Model
        PROVE  Near(k, m) \/ (api'.pc \in {"refresh", "wait.nodes"} /\ k \in api'.nodes)
    <3>1. api.pc \in {"refresh", "wait.push", "wait.nodes"}
      BY <1>1 DEF Forcing
    <3>2. Near(k, m) \/ (api.pc \in {"refresh", "wait.nodes"} /\ k \in api.nodes)
      BY <3>1 DEF NetworkInv, SyncInv
    <3>3. QED
      BY <1>2, <1>3, <1>4, <3>2 DEF Near
  <2>2. clients' = clients /\ \A k \in clients, m \in Model : Near(k, m)' = Near(k, m)
    BY <1>1, <2>0 DEF Near, InSync
  <2>3. api'.pc # "dispose"
    BY <1>1, <1>2 DEF Forcing
  <2>4. QED
    BY <1>2, <2>1, <2>2, <2>3 DEF SyncInv
<1>6. CallInv'
  BY <1>1, <1>2 DEF CallInv, Forcing
<1>7. QED
  BY <1>0, <1>1, <1>2, <1>5, <1>6, ApiOnly

LEMMA NodeForceOK ==
  ASSUME NetworkInv, NodeForce, \A n \in Nodes : Calm(n), MasterCalm
  PROVE  NetworkInv'
<1>0. /\ api \in Api /\ calls \in Nat /\ quiet \in BOOLEAN /\ due \in [Model -> Counts]
      /\ disk \in SUBSET Batch /\ clients \in SUBSET Nodes /\ BatchManagerTypeOK
      /\ UNCHANGED batchManagerVars => BatchManagerTypeOK'
      /\ SchemaTypeOK /\ NetworkNodeTypeOK /\ TypeOK
  BY ApiIsTyped
<1>1. /\ Forcing /\ ~api.called /\ api.nodes # {} /\ UNCHANGED calls /\ sync' = FALSE
      /\ api' = [api EXCEPT !.called = TRUE]
      /\ UNCHANGED <<schema, batchManagerVars, mergerVars, disk, clients, due, quiet>>
  BY DEF NodeForce, NodesLeft, At
<1>2. /\ api' \in Api /\ api'.called /\ api'.pc = api.pc /\ api'.nodes = api.nodes
  BY <1>0, <1>1 DEF Api
<1>3. PICK n \in Nodes : n = NextNode
  BY <1>0, <1>1, NextNodeOK
<1>4. PICK type \in TaskTypes :
        type = (IF api.pc = "wait.push" THEN "kForcePushTopicModelIncrement"
                ELSE "kForcePullTopicModel")
  BY DEF TaskTypes
<1> DEFINE queue == Append(node[n].tasks, Task(type, Nil))
           s == [node[n] EXCEPT !.tasks = queue]
<1>5. node[n] \in NodeState /\ node[n].tasks \in Seq(Tasks) /\ node[n].instance
  BY <1>0, <1>3 DEF NetworkNodeTypeOK, NodeState, NodeForce
<1>6. queue \in Seq(Tasks) /\ Len(queue) = Len(node[n].tasks) + 1
  <2>1. Task(type, Nil) \in Tasks
    BY TaskTypeOK
  <2>2. QED
    BY <1>5, <2>1, PushOne
<1>7. s \in NodeState /\ NodeMoves(n, s)
  <2>1. NodeMoves(n, s)
    BY <1>3, <1>4, <1>5 DEF NodeForce, NodeMoves
  <2> HIDE DEF queue
  <2>2. s \in NodeState
    BY <1>5, <1>6 DEF NodeState
  <2>3. QED
    BY <2>1, <2>2
<1>8. /\ node' \in [Nodes -> NodeState]
      /\ node'[n] = s /\ \A k \in Nodes : k # n => node'[k] = node[k]
  BY <1>0, <1>7, MovesOK
<1>9. TypeOK'
  <2>1. NetworkNodeTypeOK'
    BY <1>0, <1>1, <1>8 DEF NetworkNodeTypeOK, mergerVars
  <2>2. QED
    BY <1>0, <1>1, <1>2, <2>1 DEF TypeOK, SchemaTypeOK
<1>10. MasterInv'
  BY <1>1, MasterKeepsCalm DEF mergerVars, NetworkInv
<1>11. CallInv'
  BY <1>1, <1>2 DEF CallInv, Forcing, NetworkInv
<1>12. node'[n].topic_model = node[n].topic_model /\ node'[n].merger = node[n].merger
       /\ node'[n].instance /\ node'[n].tasks = queue
       /\ node'[n].todo = node[n].todo /\ node'[n].batch = node[n].batch
  BY <1>5, <1>8 DEF NodeState
<1>13. SyncInv'
  <2>1. ASSUME NEW k \in clients, NEW m \in Model
        PROVE  InSync(k, m)' = InSync(k, m) /\ Near(k, m)' = Near(k, m)
    <3>1. node'[k].topic_model = node[k].topic_model
      BY <1>0, <1>8, <1>12
    <3>2. QED
      BY <1>1, <3>1 DEF Near, InSync, mergerVars
  <2>2. clients' = clients
    BY <1>1
  <2>3. QED
    BY <1>1, <1>2, <2>1, <2>2 DEF SyncInv, NetworkInv
<1>14. NodeInv(n)'
  <2>1. n = NextNode'
    BY <1>2, <1>3 DEF NextNode
  <2>2. Waits(n, type)'
    BY <1>1, <1>2, <1>4, <2>1 DEF Waits, Forcing
  <2>3. ASSUME NEW i \in 1..Len(queue), queue[i].type # "kDisposeModel"
        PROVE  i = Len(queue) /\ queue[i].type = type
    <3>1. CASE i \in 1..Len(node[n].tasks)
      <4>1. queue[i] = node[n].tasks[i]
        BY <1>5, <3>1
      <4>2. QED
        BY <2>3, <3>1, <4>1 DEF Calm
    <3>2. CASE i = Len(node[n].tasks) + 1
      <4>1. queue[i] = Task(type, Nil)
        BY <1>5, <3>2
      <4>2. QED
        BY <1>6, <3>2, <4>1 DEF Task
    <3>3. QED
      BY <1>5, <1>6, <3>1, <3>2
  <2>4. node'[n].merger \notin {"push", "pull"}
    BY <1>12 DEF Calm
  <2> HIDE DEF queue
  <2>5. \A i \in 1..Len(queue) : queue[i].type # "kDisposeModel" =>
          i = Len(queue) /\ Waits(n, type)' /\ queue[i].type = type
    BY <2>2, <2>3
  <2>6. ASSUME NEW i \in 1..Len(node'[n].tasks), node'[n].tasks[i].type # "kDisposeModel"
        PROVE  i = Len(node'[n].tasks) /\ Waits(n, node[n].tasks[i].type)'
    <3>1. i = Len(queue) /\ Waits(n, type)' /\ queue[i].type = type
      BY <1>12, <2>5, <2>6
    <3>2. QED
      BY <1>12, <3>1 DEF Waits
  <2>7. /\ node'[n].todo # {} => node'[n].batch # Nil
        /\ node'[n].instance
    BY <1>12 DEF NodeInv, NetworkInv
  <2>8. QED
    BY <2>4, <2>6, <2>7, Zenon DEF NodeInv
<1>15. ASSUME NEW k \in Nodes
       PROVE  NodeInv(k)'
  <2>1. CASE k = n
    BY <1>14, <2>1
  <2>2. CASE k # n
    BY <1>8, <2>2, NodeKeepsCalm DEF NetworkInv
  <2>3. QED
    BY <2>1, <2>2
<1>16. QED
  BY <1>9, <1>10, <1>11, <1>13, <1>15 DEF NetworkInv

-----------------------------------------------------------------------------
(* The calls that change the master's models, and their steps on a node.   *)

\* The types of a step that leaves the batch manager, or clears an entry of it.
LEMMA TypesOK ==
  ASSUME NetworkInv, SchemaTypeOK', BatchManagerTypeOK', api' \in Api, calls' \in Nat,
         topic_model' \in [Model -> TopicModel \cup {Nil}],
         internal_task_queue' \in Seq(Tasks), node' \in [Nodes -> NodeState], sync' \in BOOLEAN,
         due' \in [Model -> Counts], clients' \in SUBSET Nodes,
         UNCHANGED <<topic_model_inc, merger_queue, merger, disk, quiet>>
  PROVE  TypeOK'
BY DEF NetworkInv, TypeOK, NetworkNodeTypeOK

\* The master's models change, and the nodes are told next.
LEMMA ModelsChange ==
  ASSUME NetworkInv, \A n \in Nodes : Calm(n), MasterCalm,
         UNCHANGED <<node, sync, clients, merger>>, TypeOK',
         api'.nodes = clients, ~api'.called, api'.pc \in {"create", "dispose", "refresh"},
         api'.pc \in {"create", "dispose"} => api'.model \in Model,
         api'.pc \in {"create", "dispose"} =>
           \A n \in clients, m \in Model : Near(n, m)' \/ (api'.pc = "dispose" /\ m = api'.model),
         \A m \in Model : schema'[m] = "absent" => topic_model'[m] = Nil,
         \A i \in 1..Len(internal_task_queue') : internal_task_queue'[i].type = "kDisposeModel"
  PROVE  NetworkInv'
<1>1. MasterInv'
  BY DEF MasterInv, NetworkInv
<1>2. CallInv'
  BY DEF CallInv
<1>3. SyncInv'
  BY DEF SyncInv
<1>4. \A n \in Nodes : NodeInv(n)'
  BY NodeKeepsCalm DEF NetworkInv
<1>5. QED
  BY <1>1, <1>2, <1>3, <1>4 DEF NetworkInv

LEMMA ModelCallsOK ==
  ASSUME NetworkInv,
         \/ \E m \in Model : \/ CreateModel(m) \/ RecreateModel(m)
                            \/ DisposeModel(m) \/ OverwriteTopicModel(m)
         \/ InvokePhiRegularizers,
         \A n \in Nodes : Calm(n), MasterCalm
  PROVE  NetworkInv'
<1>0. /\ api \in Api /\ calls \in Nat /\ quiet \in BOOLEAN /\ due \in [Model -> Counts]
      /\ disk \in SUBSET Batch /\ clients \in SUBSET Nodes /\ BatchManagerTypeOK
      /\ UNCHANGED batchManagerVars => BatchManagerTypeOK'
      /\ SchemaTypeOK /\ NetworkNodeTypeOK /\ TypeOK
  BY ApiIsTyped
<1>a. /\ topic_model \in [Model -> TopicModel \cup {Nil}]
      /\ internal_task_queue \in Seq(Tasks) /\ node \in [Nodes -> NodeState] /\ sync \in BOOLEAN
      /\ schema \in [Model -> ModelStatus]
      /\ \A m \in Model : schema[m] = "absent" => topic_model[m] = Nil
  BY <1>0 DEF NetworkNodeTypeOK, SchemaTypeOK, NetworkInv, MasterInv
<1>b. NewModel \in TopicModel /\ NoCounts \in Counts
  BY DEF NewModel, TopicModel, NoCounts, Counts
<1>1. ASSUME NEW m \in Model, CreateModel(m)
      PROVE  NetworkInv'
  <2>1. calls' \in Nat /\ api.pc = "ready" /\ ~api.called /\ AllNear
    BY <1>1, CallsCounted DEF CreateModel
  <2>2. /\ api' \in Api /\ ~api'.called /\ api'.pc = "create" /\ api'.nodes = clients
        /\ api'.model = m
    BY <1>0, <1>1, <2>1 DEF CreateModel, Api
  <2>3. /\ schema[m] = "absent" /\ schema' = [schema EXCEPT ![m] = "enabled"]
        /\ topic_model' = [topic_model EXCEPT ![m] = NewModel]
        /\ UNCHANGED <<batchManagerVars, topic_model_inc, merger_queue, internal_task_queue,
                       merger, node, sync, disk, clients, due, quiet>>
    BY <1>1 DEF CreateModel, set_model_config
  <2>4. TypeOK'
    <3>1. SchemaTypeOK' /\ topic_model' \in [Model -> TopicModel \cup {Nil}]
      BY <1>a, <1>b, <2>3 DEF SchemaTypeOK, ModelStatus
    <3>2. QED
      BY <1>0, <1>a, <2>1, <2>2, <2>3, <3>1, TypesOK
  <2>5. ASSUME NEW n \in clients, NEW k \in Model
        PROVE  Near(n, k)'
    <3>1. Near(n, k) /\ Near(n, m)
      BY <2>1 DEF AllNear
    <3>2. topic_model[m] = Nil /\ (k # m => topic_model'[k] = topic_model[k])
      BY <1>a, <2>3
    <3>3. QED
      BY <1>a, <2>3, <3>1, <3>2 DEF Near, InSync
  <2>6. \A k \in Model : schema'[k] = "absent" => topic_model'[k] = Nil
    BY <1>a, <2>3
  <2>7. \A i \in 1..Len(internal_task_queue') : internal_task_queue'[i].type = "kDisposeModel"
    BY <2>3 DEF MasterCalm
  <2>9. QED
    BY <2>2, <2>3, <2>4, <2>5, <2>6, <2>7, ModelsChange
<1>r. ASSUME NEW m \in Model, RecreateModel(m)
      PROVE  NetworkInv'
  <2>1. calls' \in Nat /\ api.pc = "ready" /\ ~api.called /\ AllNear
    BY <1>r, CallsCounted DEF RecreateModel
  <2>2. api' \in Api /\ ~api'.called /\ api'.pc = "create" /\ api'.model = m
    BY <1>0, <1>r, <2>1 DEF RecreateModel, Api
  <2>3. UNCHANGED <<schema, batchManagerVars, mergerVars, node, sync, disk, clients, due, quiet>>
    BY <1>r DEF RecreateModel
  <2>4. SyncInv' /\ CallInv'
    BY <2>1, <2>2, <2>3, StillInSync DEF CallInv, mergerVars
  <2>5. QED
    BY <1>0, <2>1, <2>2, <2>3, <2>4, ApiOnly
<1>2. ASSUME NEW m \in Model, DisposeModel(m)
      PROVE  NetworkInv'
  <2>1. calls' \in Nat /\ api.pc = "ready" /\ ~api.called /\ AllNear
    BY <1>2, CallsCounted DEF DisposeModel
  <2>2. /\ api' \in Api /\ ~api'.called /\ api'.pc = "dispose" /\ api'.nodes = clients
        /\ api'.model = m
    BY <1>0, <1>2, <2>1 DEF DisposeModel, Api
  <2>3. /\ schema' = [schema EXCEPT ![m] = "absent"]
        /\ topic_model' = [topic_model EXCEPT ![m] = Nil]
        /\ internal_task_queue' = Append(internal_task_queue, Task("kDisposeModel", m))
        /\ ForgetModel(m) /\ due' = [due EXCEPT ![m] = NoCounts]
        /\ UNCHANGED <<topic_model_inc, merger_queue, merger, node, sync, disk, clients, quiet>>
    BY <1>2 DEF DisposeModel, clear_model_config
  <2>4. internal_task_queue' \in Seq(Tasks)
        /\ \A i \in 1..Len(internal_task_queue') : internal_task_queue'[i].type = "kDisposeModel"
    <3>1. Task("kDisposeModel", m) \in Tasks /\ Task("kDisposeModel", m).type = "kDisposeModel"
      BY DEF Task, Tasks, TaskTypes
    <3> DEFINE task == Task("kDisposeModel", m)
    <3> HIDE DEF task
    <3>2. task \in Tasks /\ task.type = "kDisposeModel"
      BY <3>1 DEF task
    <3>3. internal_task_queue' = Append(internal_task_queue, task)
      BY <2>3 DEF task
    <3>4. internal_task_queue' \in Seq(Tasks)
      BY <1>a, <3>2, <3>3, PushOne
    <3>5. ASSUME NEW i \in 1..Len(internal_task_queue')
          PROVE  internal_task_queue'[i] = task \/
                   (i \in 1..Len(internal_task_queue) /\
                    internal_task_queue'[i] = internal_task_queue[i])
      BY <1>a, <3>3
    <3>6. QED
      BY <3>2, <3>4, <3>5 DEF MasterCalm
  <2>5. TypeOK'
    <3>1. SchemaTypeOK' /\ topic_model' \in [Model -> TopicModel \cup {Nil}]
      BY <1>a, <2>3 DEF SchemaTypeOK, ModelStatus
    <3>2. due' \in [Model -> Counts] /\ BatchManagerTypeOK'
      BY <1>0, <1>b, <2>3 DEF ForgetModel, BatchManagerTypeOK
    <3>3. QED
      BY <1>0, <1>a, <2>1, <2>2, <2>3, <2>4, <3>1, <3>2, TypesOK
  <2>6. ASSUME NEW n \in clients, NEW k \in Model, k # m
        PROVE  Near(n, k)'
    BY <1>a, <2>1, <2>3, <2>6 DEF Near, InSync, AllNear
  <2>7. \A k \in Model : schema'[k] = "absent" => topic_model'[k] = Nil
    BY <1>a, <2>3
  <2>8. QED
    BY <2>2, <2>3, <2>4, <2>5, <2>6, <2>7, ModelsChange
<1>3. ASSUME api'.pc = "refresh", api' = [api EXCEPT !.pc = "refresh", !.nodes = clients],
             calls' \in Nat, ~api.called,
             topic_model' \in [Model -> TopicModel \cup {Nil}],
             \A m \in Model : topic_model[m] = Nil => topic_model'[m] = Nil,
             UNCHANGED <<schema, batchManagerVars, topic_model_inc, merger_queue,
                         internal_task_queue, merger, node, sync, disk, clients, due, quiet>>
      PROVE  NetworkInv'
  <2>1. api' \in Api /\ ~api'.called /\ api'.nodes = clients
    BY <1>0, <1>3 DEF Api
  <2>2. SchemaTypeOK' /\ BatchManagerTypeOK'
    BY <1>0, <1>3 DEF SchemaTypeOK
  <2>3. TypeOK'
    BY <1>0, <1>a, <1>3, <2>1, <2>2, TypesOK
  <2>4. \A m \in Model : schema'[m] = "absent" => topic_model'[m] = Nil
    BY <1>a, <1>3
  <2>5. \A i \in 1..Len(internal_task_queue') : internal_task_queue'[i].type = "kDisposeModel"
    BY <1>3 DEF MasterCalm
  <2>6. QED
    BY <1>3, <2>1, <2>3, <2>4, <2>5, ModelsChange
<1>4. ASSUME NEW m \in Model, OverwriteTopicModel(m)
      PROVE  NetworkInv'
  <2>1. calls' \in Nat /\ ~api.called
    BY <1>4, CallsCounted DEF OverwriteTopicModel
  <2>2. /\ topic_model[m] # Nil
        /\ topic_model' = [topic_model EXCEPT ![m] = [n_wt |-> NoCounts, edition |-> calls']]
        /\ api' = [api EXCEPT !.pc = "refresh", !.nodes = clients]
        /\ UNCHANGED <<schema, batchManagerVars, topic_model_inc, merger_queue,
                       internal_task_queue, merger, node, sync, disk, clients, due, quiet>>
    BY <1>4 DEF OverwriteTopicModel
  <2>3. [n_wt |-> NoCounts, edition |-> calls'] \in TopicModel
    BY <1>b, <2>1 DEF TopicModel
  <2>4. topic_model' \in [Model -> TopicModel \cup {Nil}]
        /\ \A k \in Model : topic_model[k] = Nil => topic_model'[k] = Nil
    BY <1>a, <2>2, <2>3
  <2>5. api'.pc = "refresh"
    BY <1>0, <2>2 DEF Api
  <2>6. QED
    BY <1>3, <2>1, <2>2, <2>4, <2>5
<1>5. ASSUME InvokePhiRegularizers
      PROVE  NetworkInv'
  <2>1. calls' \in Nat /\ ~api.called
    BY <1>5, CallsCounted DEF InvokePhiRegularizers
  <2>2. /\ topic_model' = [m \in Model |->
             IF m \in GetModelNames /\ topic_model[m] # Nil
             THEN [topic_model[m] EXCEPT !.edition = calls'] ELSE topic_model[m]]
        /\ api' = [api EXCEPT !.pc = "refresh", !.nodes = clients]
        /\ UNCHANGED <<schema, batchManagerVars, topic_model_inc, merger_queue,
                       internal_task_queue, merger, node, sync, disk, clients, due, quiet>>
    BY <1>5 DEF InvokePhiRegularizers
  <2>3. \A m \in Model : topic_model[m] # Nil => [topic_model[m] EXCEPT !.edition = calls'] \in TopicModel
    BY <1>a, <2>1 DEF TopicModel
  <2>4. topic_model' \in [Model -> TopicModel \cup {Nil}]
        /\ \A k \in Model : topic_model[k] = Nil => topic_model'[k] = Nil
    BY <1>a, <2>2, <2>3
  <2>5. api'.pc = "refresh"
    BY <1>0, <2>2 DEF Api
  <2>6. QED
    BY <1>3, <2>1, <2>2, <2>4, <2>5
<1>6. QED
  BY <1>1, <1>2, <1>r, <1>4, <1>5

LEMMA NodeChanges ==
  ASSUME NetworkInv, \A n \in Nodes : Calm(n), MasterCalm, TypeOK',
         UNCHANGED <<schema, mergerVars>>,
         NEW n \in Nodes, \A k \in Nodes : k # n => node'[k] = node[k],
         NodeInv(n)', CallInv', SyncInv'
  PROVE  NetworkInv'
<1>1. MasterInv'
  BY MasterKeepsCalm DEF NetworkInv, mergerVars
<1>2. ASSUME NEW k \in Nodes
      PROVE  NodeInv(k)'
  <2>1. CASE k = n
    BY <2>1
  <2>2. CASE k # n
    BY <2>2, NodeKeepsCalm DEF NetworkInv
  <2>3. QED
    BY <2>1, <2>2
<1>3. QED
  BY <1>1, <1>2 DEF NetworkInv

\* A node that loses its instance, or gets one, is calm and has only models it
\* had before.
LEMMA EmptyNodeOK ==
  ASSUME NEW n \in Nodes, node'[n] = NoInstance
  PROVE  NodeInv(n)' /\ \A m \in Model : Near(n, m)'
BY DEF NodeInv, NoInstance, Near, InSync

LEMMA ModelStepsOK ==
  ASSUME NetworkInv,
         CreateModelNode \/ DisposeModelNode \/ ConnectClient \/ DisconnectClient \/ ConfigureClient,
         \A n \in Nodes : Calm(n), MasterCalm
  PROVE  NetworkInv'
<1>0. /\ api \in Api /\ calls \in Nat /\ quiet \in BOOLEAN /\ due \in [Model -> Counts]
      /\ disk \in SUBSET Batch /\ clients \in SUBSET Nodes /\ BatchManagerTypeOK
      /\ UNCHANGED batchManagerVars => BatchManagerTypeOK'
      /\ SchemaTypeOK /\ NetworkNodeTypeOK /\ TypeOK
  BY ApiIsTyped
<1>a. /\ topic_model \in [Model -> TopicModel \cup {Nil}]
      /\ internal_task_queue \in Seq(Tasks) /\ node \in [Nodes -> NodeState] /\ sync \in BOOLEAN
  BY <1>0 DEF NetworkNodeTypeOK
<1>b. CallInv /\ SyncInv
  BY DEF NetworkInv
<1>1. /\ NodesLeft /\ api.nodes # {}
      /\ UNCHANGED <<schema, batchManagerVars, mergerVars, sync, disk, due, quiet>>
      /\ api.pc \in {"create", "dispose", "connect", "disconnect", "configure"}
  BY DEF CreateModelNode, DisposeModelNode, ConnectClient, DisconnectClient, ConfigureClient,
         NodesLeft
<1>2. PICK n \in Nodes : n = NextNode
  BY <1>0, <1>1, NextNodeOK
<1>3. node[n] \in NodeState
  BY <1>a
<1>4. UNCHANGED calls /\ ~api.called
  BY <1>1, <1>b DEF NodesLeft, At, CallInv, Forcing
<1>5. Replied => /\ api' \in Api /\ ~api'.called /\ api'.pc = api.pc /\ api'.model = api.model
                 /\ api'.batches = api.batches /\ api'.nodes = api.nodes \ {n}
  BY <1>1, <1>2, RepliedOK
<1>t. ASSUME node' \in [Nodes -> NodeState], api' \in Api, clients' \in SUBSET Nodes
      PROVE  TypeOK'
  <2>1. SchemaTypeOK' /\ BatchManagerTypeOK'
    BY <1>0, <1>1 DEF SchemaTypeOK
  <2>2. QED
    BY <1>0, <1>1, <1>4, <1>a, <1>t, <2>1, TypesOK DEF mergerVars
<1>6. CASE CreateModelNode
  <2>0. api.pc = "create" /\ UNCHANGED clients /\ AllNear /\ api.model \in Model
    BY <1>6, <1>b DEF CreateModelNode, SyncInv, AllNear, CallInv
  <2>1. PICK m \in Model : m = api.model
    BY <2>0
  <2>2. CASE Return /\ UNCHANGED node
    <3>1. api' = Ready
      BY <2>2 DEF Return
    <3>2. api' \in Api /\ ~api'.called /\ api'.pc = "ready"
      BY <3>1, ReadyOK DEF Ready
    <3>3. QED
      BY <1>0, <1>1, <1>4, <2>0, <2>2, <3>2, ApiGoesOn
  <2>3. CASE /\ node[n].instance /\ Replied
             /\ node' = [node EXCEPT ![n].topic_model[m] = IF @ = Nil THEN NewModel ELSE @]
    <3> DEFINE models == [node[n].topic_model EXCEPT ![m] = IF @ = Nil THEN NewModel ELSE @]
               s == [node[n] EXCEPT !.topic_model = models]
    <3>1. models \in [Model -> TopicModel \cup {Nil}]
      BY <1>3 DEF NodeState, NewModel, TopicModel, NoCounts, Counts
    <3>2. NodeMoves(n, s)
      BY <2>3 DEF NodeMoves
    <3> HIDE DEF models
    <3>3. s \in NodeState
      BY <1>3, <3>1 DEF NodeState
    <3>4. /\ node' \in [Nodes -> NodeState]
          /\ node'[n] = s /\ \A k \in Nodes : k # n => node'[k] = node[k]
      BY <1>0, <3>2, <3>3, MovesOK
    <3>5. TypeOK'
      BY <1>0, <1>5, <1>t, <2>0, <2>3, <3>4
    <3>6. /\ node'[n].topic_model = models /\ node'[n].instance /\ node'[n].tasks = node[n].tasks
          /\ node'[n].merger = node[n].merger /\ node'[n].todo = node[n].todo
          /\ node'[n].batch = node[n].batch
      BY <1>3, <2>3, <3>4 DEF NodeState
    <3>7. NodeInv(n)'
      BY <3>6 DEF Calm, NodeInv, NetworkInv
    <3>8. ASSUME NEW k \in clients, NEW j \in Model
          PROVE  Near(k, j)'
      <4>1. Near(k, j) /\ topic_model'[j] = topic_model[j] /\ k \in Nodes
        BY <1>0, <1>1, <2>0 DEF AllNear, mergerVars
      <4>2. CASE k = n
        <5>1. node'[k].topic_model[j] = (IF j = m /\ node[k].topic_model[j] = Nil
                                           THEN NewModel ELSE node[k].topic_model[j])
          BY <1>3, <3>6, <4>2 DEF models, NodeState
        <5>2. QED
          BY <4>1, <5>1 DEF Near, InSync
      <4>3. CASE k # n
        BY <3>4, <4>1, <4>3 DEF Near, InSync
      <4>4. QED
        BY <4>2, <4>3
    <3>9. SyncInv'
      BY <1>5, <2>0, <2>3, <3>8 DEF SyncInv
    <3>10. CallInv'
      BY <1>1, <1>5, <1>b, <2>0, <2>3 DEF CallInv, mergerVars
    <3>11. QED
      BY <1>1, <3>4, <3>5, <3>7, <3>9, <3>10, NodeChanges
  <2>4. QED
    BY <1>2, <1>6, <2>1, <2>2, <2>3 DEF CreateModelNode
<1>7. CASE DisposeModelNode
  <2>0. api.pc = "dispose" /\ UNCHANGED clients /\ api.model \in Model /\ Replied
    BY <1>7, <1>b DEF DisposeModelNode, CallInv
  <2>1. PICK m \in Model : m = api.model
    BY <2>0
  <2> DEFINE models == [node[n].topic_model EXCEPT ![m] = Nil]
             queue == IF node[n].instance
                      THEN Append(node[n].tasks, Task("kDisposeModel", m)) ELSE node[n].tasks
             s == [node[n] EXCEPT !.topic_model = models, !.tasks = queue]
  <2>2. models \in [Model -> TopicModel \cup {Nil}]
    BY <1>3 DEF NodeState
  <2>3. queue \in Seq(Tasks) /\ \A i \in 1..Len(queue) : queue[i].type = "kDisposeModel"
    <3> DEFINE task == Task("kDisposeModel", m)
    <3>1. task \in Tasks /\ task.type = "kDisposeModel"
      BY DEF Task, Tasks, TaskTypes
    <3>2. node[n].tasks \in Seq(Tasks)
          /\ \A i \in 1..Len(node[n].tasks) : node[n].tasks[i].type = "kDisposeModel"
      BY <1>3 DEF NodeState, Calm
    <3> HIDE DEF task
    <3>3. Append(node[n].tasks, task) \in Seq(Tasks)
      BY <3>1, <3>2, PushOne
    <3>4. \A i \in 1..Len(Append(node[n].tasks, task)) :
            \/ Append(node[n].tasks, task)[i] = task
            \/ i \in 1..Len(node[n].tasks) /\ Append(node[n].tasks, task)[i] = node[n].tasks[i]
      BY <3>2
    <3>5. QED
      BY <3>1, <3>2, <3>3, <3>4 DEF task
  <2>4. NodeMoves(n, s)
    BY <1>2, <1>7, <2>1 DEF NodeMoves, DisposeModelNode
  <2> HIDE DEF models, queue
  <2>5. s \in NodeState
    BY <1>3, <2>2, <2>3 DEF NodeState
  <2>6. /\ node' \in [Nodes -> NodeState]
        /\ node'[n] = s /\ \A k \in Nodes : k # n => node'[k] = node[k]
    BY <1>0, <2>4, <2>5, MovesOK
  <2>7. TypeOK'
    BY <1>0, <1>5, <1>t, <2>0, <2>6
  <2>8. /\ node'[n].topic_model = models /\ node'[n].tasks = queue
        /\ node'[n].instance = node[n].instance
        /\ node'[n].merger = node[n].merger /\ node'[n].todo = node[n].todo
        /\ node'[n].batch = node[n].batch
    BY <1>3, <2>6 DEF NodeState
  <2>9. \A j \in Model : models[j] = (IF j = m THEN Nil ELSE node[n].topic_model[j])
    BY <1>3 DEF models, NodeState
  <2>10. NodeInv(n)'
    BY <2>3, <2>8, <2>9 DEF Calm, NodeInv, NetworkInv
  <2>11. ASSUME NEW k \in clients, NEW j \in Model
         PROVE  Near(k, j)' \/ (k \in api'.nodes /\ j = m)
    <3>1. topic_model'[j] = topic_model[j] /\ k \in Nodes /\ (Near(k, j) \/ (k \in api.nodes /\ j = m))
      BY <1>0, <1>1, <1>b, <2>0, <2>1 DEF SyncInv, mergerVars
    <3>2. CASE k = n
      BY <2>8, <2>9, <3>1, <3>2 DEF Near, InSync
    <3>3. CASE k # n
      BY <1>5, <2>0, <2>6, <3>1, <3>3 DEF Near, InSync
    <3>4. QED
      BY <3>2, <3>3
  <2>12. SyncInv'
    BY <1>5, <2>0, <2>1, <2>11 DEF SyncInv
  <2>13. CallInv'
    BY <1>5, <1>b, <2>0 DEF CallInv
  <2>14. QED
    BY <1>1, <2>6, <2>7, <2>10, <2>12, <2>13, NodeChanges
<1>8. ASSUME api.pc \in {"connect", "disconnect", "configure"}, Replied,
             NEW s \in NodeState, NodeMoves(n, s), clients' \in SUBSET Nodes, NodeInv(n)',
             \A k \in clients' : k \in clients \/ k = n,
             n \in clients' => \A m \in Model : Near(n, m)'
      PROVE  NetworkInv'
  <2>1. /\ node' \in [Nodes -> NodeState]
        /\ node'[n] = s /\ \A k \in Nodes : k # n => node'[k] = node[k]
    BY <1>0, <1>8, MovesOK
  <2>2. TypeOK'
    BY <1>5, <1>8, <1>t, <2>1
  <2>3. AllNear /\ topic_model' = topic_model
    BY <1>1, <1>8, <1>b DEF AllNear, SyncInv, mergerVars
  <2>4. ASSUME NEW k \in clients', NEW m \in Model
        PROVE  Near(k, m)'
    <3>1. CASE k = n
      BY <1>8, <3>1
    <3>2. CASE k # n
      BY <1>0, <1>8, <2>1, <2>3, <3>2 DEF AllNear, Near, InSync
    <3>3. QED
      BY <3>1, <3>2
  <2>5. SyncInv' /\ CallInv'
    BY <1>5, <1>8, <2>4 DEF SyncInv, CallInv
  <2>6. QED
    BY <1>1, <1>8, <2>1, <2>2, <2>5, NodeChanges
<1>9. CASE ConnectClient \/ DisconnectClient
  <2>1. /\ api.pc \in {"connect", "disconnect"} /\ Replied /\ NodeMoves(n, NoInstance)
        /\ clients' \in SUBSET Nodes /\ \A k \in clients' : k \in clients \/ k = n
    BY <1>0, <1>2, <1>9 DEF ConnectClient, DisconnectClient, NodeMoves
  <2>2. node'[n] = NoInstance
    BY <1>a, <2>1 DEF NodeMoves
  <2>3. NodeInv(n)' /\ \A m \in Model : Near(n, m)'
    BY <2>2, EmptyNodeOK
  <2>4. QED
    BY <1>8, <2>1, <2>3, EmptyOK
<1>10. CASE ConfigureClient
  <2> DEFINE s == [node[n] EXCEPT !.instance = TRUE]
  <2>1. api.pc = "configure" /\ Replied /\ NodeMoves(n, s) /\ UNCHANGED clients
    BY <1>2, <1>10 DEF ConfigureClient, NodeMoves
  <2>2. s \in NodeState
    BY <1>3 DEF NodeState
  <2>3. node'[n] = s
    BY <1>0, <2>1, <2>2, MovesOK
  <2>4. /\ node'[n].topic_model = node[n].topic_model /\ node'[n].tasks = node[n].tasks
        /\ node'[n].merger = node[n].merger /\ node'[n].todo = node[n].todo
        /\ node'[n].batch = node[n].batch /\ node'[n].instance
    BY <1>3, <2>3 DEF NodeState
  <2>5. NodeInv(n)'
    BY <2>4 DEF Calm, NodeInv, NetworkInv
  <2>6. n \in clients' => \A m \in Model : Near(n, m)'
    BY <1>1, <1>b, <2>1, <2>4 DEF SyncInv, Near, InSync, mergerVars
  <2>7. QED
    BY <1>0, <1>8, <2>1, <2>2, <2>5, <2>6
<1>11. QED
  BY <1>6, <1>7, <1>9, <1>10

LEMMA MasterForceOK ==
  ASSUME NetworkInv, WaitPush \/ WaitPull, \A n \in Nodes : Calm(n), MasterCalm
  PROVE  NetworkInv'
<1>0. /\ api \in Api /\ calls \in Nat /\ quiet \in BOOLEAN /\ due \in [Model -> Counts]
      /\ disk \in SUBSET Batch /\ clients \in SUBSET Nodes /\ BatchManagerTypeOK
      /\ UNCHANGED batchManagerVars => BatchManagerTypeOK'
      /\ SchemaTypeOK /\ NetworkNodeTypeOK /\ TypeOK /\ CallInv /\ SyncInv
  BY ApiIsTyped DEF NetworkInv
<1>a. /\ topic_model \in [Model -> TopicModel \cup {Nil}]
      /\ internal_task_queue \in Seq(Tasks) /\ node \in [Nodes -> NodeState] /\ sync \in BOOLEAN
  BY <1>0 DEF NetworkNodeTypeOK
<1>1. PICK type \in {"kForcePushTopicModelIncrement", "kForcePullTopicModel"} :
        /\ ForceTask(type)
        /\ Goto(IF type = "kForcePushTopicModelIncrement" THEN "wait.forced" ELSE "wait.pulled")
        /\ api.pc \in {"wait.queue", "wait.forced"}
  BY DEF WaitPush, WaitPull, At
<1>2. UNCHANGED <<schema, batchManagerVars, topic_model, topic_model_inc, merger_queue, merger,
                  node, disk, clients, due, quiet, calls>>
  BY DEF WaitPush, WaitPull, At
<1>3. /\ api' \in Api /\ ~api'.called
      /\ api'.pc = (IF type = "kForcePushTopicModelIncrement" THEN "wait.forced" ELSE "wait.pulled")
  BY <1>0, <1>1 DEF Goto, Api, CallInv, Forcing
<1>4. AllNear
  BY <1>0, <1>1 DEF AllNear, SyncInv
<1> DEFINE task == Task(type, Nil)
<1>5. task \in Tasks /\ task.type = type
  BY <1>1 DEF Task, Tasks, TaskTypes
<1>6. internal_task_queue' = Append(internal_task_queue, task) /\ sync' = FALSE
  BY <1>1 DEF ForceTask
<1> HIDE DEF task
<1>7. /\ internal_task_queue' \in Seq(Tasks)
      /\ Len(internal_task_queue') = Len(internal_task_queue) + 1
  BY <1>a, <1>5, <1>6, PushOne
<1>8. TypeOK'
  <2>1. SchemaTypeOK' /\ BatchManagerTypeOK'
    BY <1>0, <1>2 DEF SchemaTypeOK
  <2>2. QED
    BY <1>0, <1>a, <1>2, <1>3, <1>6, <1>7, <2>1, TypesOK
<1>9. ASSUME NEW i \in 1..Len(internal_task_queue'), internal_task_queue'[i].type # "kDisposeModel"
      PROVE  i = Len(internal_task_queue') /\ internal_task_queue'[i].type = type
  <2>1. CASE i \in 1..Len(internal_task_queue)
    <3>1. internal_task_queue'[i] = internal_task_queue[i]
      BY <1>a, <1>6, <2>1
    <3>2. QED
      BY <1>9, <2>1, <3>1 DEF MasterCalm
  <2>2. CASE i = Len(internal_task_queue) + 1
    BY <1>a, <1>5, <1>6, <1>7, <2>2
  <2>3. QED
    BY <1>a, <1>7, <2>1, <2>2
<1>10. MasterInv'
  <2>1. /\ merger'.pc = "merge" => merger'.increment \in Increment
        /\ \A m \in Model : schema'[m] = "absent" => topic_model'[m] = Nil
    BY <1>2 DEF NetworkInv, MasterInv
  <2>2. QED
    BY <1>1, <1>3, <1>6, <1>9, <2>1 DEF MasterInv
<1>11. SyncInv'
  BY <1>2, <1>3, <1>4, StillInSync
<1>12. CallInv'
  BY <1>3 DEF CallInv
<1>13. \A n \in Nodes : NodeInv(n)'
  BY <1>2, NodeKeepsCalm DEF NetworkInv
<1>14. QED
  BY <1>8, <1>10, <1>11, <1>12, <1>13 DEF NetworkInv

LEMMA ApiStepOK ==
  ASSUME NetworkInv, ApiCall \/ ApiThread
  PROVE  NetworkInv'
<1>1. (\A n \in Nodes : Calm(n)) /\ MasterCalm
  BY ApiIsCalm
<1>2. QED
  BY <1>1, ApiMoves, NodeForceOthers, NodeForceOK, ModelCallsOK, ModelStepsOK, MasterForceOK
  DEF ApiCall, ApiThread

-----------------------------------------------------------------------------
(* The threads: the other nodes, and the master, keep what they had.       *)
LEMMA NodeKept ==
  ASSUME NEW n \in Nodes, NodeInv(n), node'[n] = node[n], UNCHANGED <<api, sync, topic_model>>
  PROVE  NodeInv(n)'
<1>1. ASSUME NEW i \in 1..Len(node'[n].tasks), node'[n].tasks[i].type # "kDisposeModel"
      PROVE  i = Len(node'[n].tasks) /\ Waits(n, node[n].tasks[i].type)'
  BY <1>1 DEF NodeInv, Waits, Forcing, NextNode
<1>2. node'[n].merger = "pull" => \A m \in Model \ node'[n].models : InSync(n, m)'
  BY DEF NodeInv, InSync
<1>3. /\ node'[n].todo # {} => node'[n].batch # Nil
      /\ ~node'[n].instance => \A m \in Model : node'[n].topic_model[m] = Nil
      /\ node'[n].merger = "push" => \A m \in node'[n].models : node'[n].topic_model_inc[m] # Nil
      /\ node'[n].merger \in {"push", "pull"} =>
           /\ node'[n].tasks # <<>>
           /\ node'[n].tasks[1].type =
                (IF node'[n].merger = "push" THEN "kForcePushTopicModelIncrement"
                 ELSE "kForcePullTopicModel")
  BY DEF NodeInv
<1>4. QED
  BY <1>1, <1>2, <1>3, Zenon DEF NodeInv

LEMMA OthersKept ==
  ASSUME NetworkInv, NEW n \in Nodes, \A k \in Nodes : k # n => node'[k] = node[k],
         UNCHANGED <<api, sync, topic_model, clients>>, NodeInv(n)',
         \A m \in Model : \/ node'[n].topic_model[m] = node[n].topic_model[m]
                          \/ node'[n].topic_model[m] = topic_model[m]
                          \/ node'[n].topic_model[m] = Nil
  PROVE  SyncInv' /\ \A k \in Nodes : NodeInv(k)'
<1>1. ASSUME NEW k \in Nodes
      PROVE  NodeInv(k)'
  <2>1. CASE k = n
    BY <2>1
  <2>2. CASE k # n
    <3>1. NodeInv(k) /\ node'[k] = node[k]
      BY <2>2 DEF NetworkInv
    <3>2. QED
      BY <3>1, NodeKept
  <2>3. QED
    BY <2>1, <2>2
<1>2. ASSUME NEW k \in Nodes, NEW m \in Model
      PROVE  (InSync(k, m) => InSync(k, m)') /\ (Near(k, m) => Near(k, m)')
  <2>1. CASE k = n
    BY <2>1 DEF Near, InSync
  <2>2. CASE k # n
    <3>1. node'[k] = node[k]
      BY <2>2
    <3>2. QED
      BY <3>1 DEF Near, InSync
  <2>3. QED
    BY <2>1, <2>2
<1>3. clients \subseteq Nodes /\ TypeOK
  BY DEF NetworkInv, TypeOK
<1>4. SyncInv'
  <2>1. ASSUME api.pc # "wait.pulled", NEW k \in clients, NEW m \in Model
        PROVE  Near(k, m)' \/ (api.pc \in {"dispose", "refresh", "wait.nodes"} /\ k \in api.nodes)
    BY <1>2, <1>3, <2>1 DEF NetworkInv, SyncInv
  <2>2. ASSUME api.pc = "dispose", NEW k \in clients, NEW m \in Model
        PROVE  Near(k, m)' \/ m = api.model
    BY <1>2, <1>3, <2>2 DEF NetworkInv, SyncInv
  <2>3. ASSUME api.pc \in {"refresh", "wait.nodes"}, api.called, sync, NEW m \in Model
        PROVE  InSync(NextNode, m)'
    <3>1. InSync(NextNode, m) /\ api.nodes # {}
      BY <2>3 DEF NetworkInv, SyncInv, CallInv
    <3>2. PICK k \in Nodes : k = NextNode
      BY <1>3, <3>1, NextNodeOK
    <3>3. k = NextNode' /\ InSync(k, m)'
      BY <1>2, <3>1, <3>2 DEF NextNode
    <3>4. QED
      BY <3>3 DEF InSync
  <2>4. QED
    BY <2>1, <2>2, <2>3 DEF SyncInv
<1>5. QED
  BY <1>1, <1>4

LEMMA TailOfOne ==
  ASSUME NEW S, NEW s \in Seq(S), Len(s) = 1
  PROVE  Tail(s) = <<>>
<1>1. Tail(s) \in Seq(S) /\ Len(Tail(s)) = 0
  OBVIOUS
<1>2. \A t \in Seq(S) : Len(t) = 0 => t = <<>>
  OBVIOUS
<1>3. QED
  BY <1>1, <1>2, Zenon

\* The force that the merger of node n works on is the call's, and its only task.
LEMMA ForceIsCalled ==
  ASSUME NetworkInv, NEW n \in Nodes, node[n].merger \in {"push", "pull"}
  PROVE  /\ Len(node[n].tasks) = 1 /\ node[n].tasks # <<>> /\ Tail(node[n].tasks) = <<>>
         /\ Forcing /\ api.called /\ ~sync /\ api.nodes # {} /\ n = NextNode
         /\ node[n].merger = (IF api.pc = "wait.push" THEN "push" ELSE "pull")
<1>0. node[n].tasks \in Seq(Tasks) /\ NodeInv(n)
  BY DEF NetworkInv, TypeOK, NetworkNodeTypeOK, NodeState
<1>1. /\ node[n].tasks # <<>>
      /\ node[n].tasks[1].type = (IF node[n].merger = "push" THEN "kForcePushTopicModelIncrement"
                                  ELSE "kForcePullTopicModel")
  BY <1>0 DEF NodeInv
<1>2. 1 \in 1..Len(node[n].tasks) /\ node[n].tasks[1].type # "kDisposeModel"
  BY <1>0, <1>1
<1>3. 1 = Len(node[n].tasks) /\ Waits(n, node[n].tasks[1].type)
  BY <1>0, <1>2 DEF NodeInv
<1>4. Tail(node[n].tasks) = <<>>
  BY <1>0, <1>3, TailOfOne
<1>5. QED
  BY <1>1, <1>3, <1>4 DEF Waits

\* A step of a node's threads but NodeSignal, and of the services.
LEMMA WorkOK ==
  ASSUME NetworkInv, NEW n \in Nodes, UNCHANGED <<api, sync, topic_model, clients>>,
         LoaderThread(n) \/ ProcessorThread(n) \/ NodeMergerThread(n) \/ Service(n),
         node' \in [Nodes -> NodeState], \A k \in Nodes : k # n => node'[k] = node[k]
  PROVE  SyncInv' /\ \A k \in Nodes : NodeInv(k)'
<1>0. node \in [Nodes -> NodeState] /\ node[n] \in NodeState /\ TypeOK /\ NodeInv(n)
  BY DEF NetworkInv, TypeOK, NetworkNodeTypeOK
<1>1. ASSUME node'[n].topic_model = node[n].topic_model, node'[n].instance = node[n].instance,
             node'[n].todo # {} => node'[n].batch # Nil,
             node'[n].tasks = node[n].tasks,
             \/ node'[n].merger \notin {"push", "pull"}
             \/ /\ node'[n].merger = node[n].merger /\ node'[n].models = node[n].models
                /\ node'[n].topic_model_inc = node[n].topic_model_inc
      PROVE  SyncInv' /\ \A k \in Nodes : NodeInv(k)'
  <2>1. NodeInv(n)'
    BY <1>0, <1>1 DEF NodeInv, Waits, Forcing, NextNode, InSync
  <2>2. QED
    BY <1>1, <2>1, OthersKept
<1>2. CASE LoaderThread(n) \/ RequestBatches(n) \/ RequestBatchesReply(n)
  <2>1. /\ node'[n].topic_model = node[n].topic_model /\ node'[n].instance = node[n].instance
        /\ node'[n].todo = node[n].todo /\ node'[n].batch = node[n].batch
        /\ node'[n].tasks = node[n].tasks
        /\ node'[n].merger = node[n].merger /\ node'[n].models = node[n].models
        /\ node'[n].topic_model_inc = node[n].topic_model_inc
    <3>1. CASE LoaderRequest(n)
      BY <1>0, <3>1 DEF LoaderRequest, NodeState
    <3>2. CASE LoaderPush(n)
      BY <1>0, <3>2 DEF LoaderPush, NodeState
    <3>3. CASE LoaderFatal(n) \/ LoaderAgain(n)
      BY <1>0, <3>3 DEF LoaderFatal, LoaderAgain, NodeState
    <3>4. CASE RequestBatches(n)
      BY <1>0, <3>4 DEF RequestBatches, NodeState
    <3>5. CASE RequestBatchesReply(n)
      BY <1>0, <3>5 DEF RequestBatchesReply, NodeState
    <3>6. QED
      BY <1>2, <3>1, <3>2, <3>3, <3>4, <3>5 DEF LoaderThread
  <2>2. QED
    BY <1>0, <1>1, <2>1 DEF NodeInv
<1>3. CASE ProcessorThread(n)
  <2>1. /\ node'[n].topic_model = node[n].topic_model /\ node'[n].instance = node[n].instance
        /\ node'[n].tasks = node[n].tasks
        /\ node'[n].merger = node[n].merger /\ node'[n].models = node[n].models
        /\ node'[n].topic_model_inc = node[n].topic_model_inc
    BY <1>0, <1>3 DEF ProcessorThread, ProcessorPop, ProcessorPush, ProcessorDone, NodeState
  <2>2. node'[n].todo # {} => node'[n].batch # Nil
    <3>1. CASE ProcessorPop(n)
      <4>1. Head(node[n].processor_queue) \in Batch
        BY <1>0, <3>1, PopOne DEF ProcessorPop, NodeState
      <4>2. node'[n].batch = Head(node[n].processor_queue)
        BY <1>0, <3>1 DEF ProcessorPop, NodeState
      <4>3. QED
        BY <4>1, <4>2, BatchAssumption, NilAssumption
    <3>2. CASE ProcessorPush(n)
      BY <1>0, <3>2 DEF ProcessorPush, NodeState, NodeInv
    <3>3. CASE ProcessorDone(n)
      BY <1>0, <3>3 DEF ProcessorDone, NodeState
    <3>4. QED
      BY <1>3, <3>1, <3>2, <3>3 DEF ProcessorThread
  <2>3. QED
    BY <1>1, <2>1, <2>2
<1>4. CASE NodeMerge(n) \/ ReportBatches(n)
  <2>1. /\ node'[n].topic_model = node[n].topic_model /\ node'[n].instance = node[n].instance
        /\ node'[n].todo = node[n].todo /\ node'[n].batch = node[n].batch
        /\ node'[n].tasks = node[n].tasks /\ node'[n].merger \in {"run", "report"}
    BY <1>0, <1>4 DEF NodeMerge, ReportBatches, NodeState
  <2>2. QED
    BY <1>0, <1>1, <2>1 DEF NodeInv
<1>5. CASE NodeTask(n)
  <2> DEFINE task == Head(node[n].tasks)
  <2>1. node[n].tasks \in Seq(Tasks) /\ node[n].tasks # <<>> /\ node[n].merger = "run"
    BY <1>0, <1>5 DEF NodeTask, NodeState
  <2>2. task = node[n].tasks[1] /\ 1 \in 1..Len(node[n].tasks) /\ Len(node[n].tasks) \in Nat
    BY <2>1
  <2>3. CASE node' = [node EXCEPT ![n].tasks = Tail(@), ![n].topic_model_inc[task.model] = Nil]
    <3>1. /\ node'[n].topic_model = node[n].topic_model /\ node'[n].instance = node[n].instance
          /\ node'[n].todo = node[n].todo /\ node'[n].batch = node[n].batch
          /\ node'[n].tasks = Tail(node[n].tasks) /\ node'[n].merger = "run"
      BY <1>0, <2>1, <2>3 DEF NodeState
    <3> DEFINE rest == Tail(node[n].tasks)
    <3>2. /\ Len(rest) = Len(node[n].tasks) - 1
          /\ \A i \in 1..Len(rest) : rest[i] = node[n].tasks[i + 1]
      BY <2>1
    <3>3. ASSUME NEW i \in 1..Len(rest), rest[i].type # "kDisposeModel"
          PROVE  i = Len(rest) /\ Waits(n, rest[i].type)
      <4>1. i + 1 \in 1..Len(node[n].tasks) /\ rest[i] = node[n].tasks[i + 1]
        BY <2>2, <3>2
      <4> HIDE DEF rest
      <4>2. i + 1 = Len(node[n].tasks) /\ Waits(n, rest[i].type)
        BY <1>0, <3>3, <4>1 DEF NodeInv
      <4>3. QED
        BY <2>2, <3>2, <4>2
    <3> HIDE DEF rest
    <3>4. NodeInv(n)'
      <4>1. ASSUME NEW i \in 1..Len(node'[n].tasks), node'[n].tasks[i].type # "kDisposeModel"
            PROVE  i = Len(node'[n].tasks) /\ Waits(n, node[n].tasks[i].type)'
        <5>1. i = Len(rest) /\ Waits(n, rest[i].type) /\ node'[n].tasks = rest
          BY <3>1, <3>3, <4>1 DEF rest
        <5>2. QED
          BY <5>1 DEF Waits, Forcing, NextNode
      <4>2. /\ node'[n].todo # {} => node'[n].batch # Nil
            /\ node'[n].merger \notin {"push", "pull"}
            /\ ~node'[n].instance => \A m \in Model : node'[n].topic_model[m] = Nil
        BY <1>0, <3>1 DEF NodeInv
      <4>3. QED
        BY <4>1, <4>2, Zenon DEF NodeInv
    <3>5. QED
      BY <3>1, <3>4, OthersKept
  <2>4. ASSUME NEW pc \in {"push", "pull"}, NEW S \in SUBSET Model,
               node' = [node EXCEPT ![n].merger = pc, ![n].models = S],
               task.type = (IF pc = "push" THEN "kForcePushTopicModelIncrement"
                            ELSE "kForcePullTopicModel"),
               pc = "push" => S = {m \in Model : node[n].topic_model_inc[m] # Nil},
               pc = "pull" => S = {m \in Model : node[n].topic_model[m] # Nil}
        PROVE  SyncInv' /\ \A k \in Nodes : NodeInv(k)'
    <3>1. /\ node'[n].topic_model = node[n].topic_model /\ node'[n].instance = node[n].instance
          /\ node'[n].todo = node[n].todo /\ node'[n].batch = node[n].batch
          /\ node'[n].tasks = node[n].tasks /\ node'[n].merger = pc /\ node'[n].models = S
          /\ node'[n].topic_model_inc = node[n].topic_model_inc
      BY <1>0, <2>4 DEF NodeState
    <3>2. NodeInv(n)'
      <4>1. node'[n].merger = "push" => \A m \in node'[n].models : node'[n].topic_model_inc[m] # Nil
        BY <2>4, <3>1
      <4>2. node'[n].merger = "pull" => \A m \in Model \ node'[n].models : InSync(n, m)'
        BY <2>4, <3>1 DEF InSync
      <4>3. node'[n].merger \in {"push", "pull"} =>
              /\ node'[n].tasks # <<>>
              /\ node'[n].tasks[1].type =
                   (IF node'[n].merger = "push" THEN "kForcePushTopicModelIncrement"
                    ELSE "kForcePullTopicModel")
        BY <2>1, <2>2, <2>4, <3>1
      <4>4. ASSUME NEW i \in 1..Len(node'[n].tasks), node'[n].tasks[i].type # "kDisposeModel"
            PROVE  i = Len(node'[n].tasks) /\ Waits(n, node[n].tasks[i].type)'
        BY <1>0, <3>1, <4>4 DEF NodeInv, Waits, Forcing, NextNode
      <4>5. /\ node'[n].todo # {} => node'[n].batch # Nil
            /\ ~node'[n].instance => \A m \in Model : node'[n].topic_model[m] = Nil
        BY <1>0, <3>1 DEF NodeInv
      <4>6. QED
        BY <4>1, <4>2, <4>3, <4>4, <4>5, Zenon DEF NodeInv
    <3>3. QED
      BY <3>1, <3>2, OthersKept
  <2>5. ASSUME task.type = "kForcePushTopicModelIncrement",
               node' = [node EXCEPT ![n].merger = "push",
                          ![n].models = {m \in Model : node[n].topic_model_inc[m] # Nil}]
        PROVE  SyncInv' /\ \A k \in Nodes : NodeInv(k)'
    <3> DEFINE S == {m \in Model : node[n].topic_model_inc[m] # Nil}
    <3>1. S \in SUBSET Model
      OBVIOUS
    <3>2. QED
      BY <2>4, <2>5, <3>1
  <2>6. ASSUME task.type = "kForcePullTopicModel",
               node' = [node EXCEPT ![n].merger = "pull",
                          ![n].models = {m \in Model : node[n].topic_model[m] # Nil}]
        PROVE  SyncInv' /\ \A k \in Nodes : NodeInv(k)'
    <3> DEFINE S == {m \in Model : node[n].topic_model[m] # Nil}
    <3>1. S \in SUBSET Model
      OBVIOUS
    <3>2. QED
      BY <2>4, <2>6, <3>1
  <2>7. QED
    BY <1>5, <2>3, <2>5, <2>6, Zenon DEF NodeTask
<1>6. CASE UpdateModel(n)
  <2> DEFINE m == Min(node[n].models)
  <2>0. node[n].models # {} /\ node[n].models \in SUBSET Model /\ node[n].merger = "push"
    BY <1>0, <1>6 DEF UpdateModel, NodeState
  <2>1. m \in node[n].models /\ m \in Model
    BY <2>0, MinIsIn, ModelAssumption
  <2>2. node' = [node EXCEPT ![n].models = IF node[n].up THEN @ \ {m} ELSE {},
                             ![n].topic_model_inc[m] = Nil]
    BY <1>6 DEF UpdateModel
  <2> HIDE DEF m
  <2>3. /\ node'[n].topic_model = node[n].topic_model /\ node'[n].instance = node[n].instance
        /\ node'[n].todo = node[n].todo /\ node'[n].batch = node[n].batch
        /\ node'[n].tasks = node[n].tasks /\ node'[n].merger = "push"
        /\ \A k \in node'[n].models : k \in node[n].models /\ k # m
        /\ \A k \in Model : k # m => node'[n].topic_model_inc[k] = node[n].topic_model_inc[k]
    BY <1>0, <2>0, <2>1, <2>2 DEF NodeState
  <2>4. \A k \in node'[n].models : node'[n].topic_model_inc[k] # Nil
    BY <1>0, <2>0, <2>3 DEF NodeInv
  <2>5. ASSUME NEW i \in 1..Len(node'[n].tasks), node'[n].tasks[i].type # "kDisposeModel"
        PROVE  i = Len(node'[n].tasks) /\ Waits(n, node[n].tasks[i].type)'
    BY <1>0, <2>3, <2>5 DEF NodeInv, Waits, Forcing, NextNode
  <2>6. NodeInv(n)'
    <3>1. /\ node'[n].todo # {} => node'[n].batch # Nil
          /\ ~node'[n].instance => \A k \in Model : node'[n].topic_model[k] = Nil
          /\ node'[n].tasks # <<>>
          /\ node'[n].tasks[1].type = "kForcePushTopicModelIncrement"
      BY <1>0, <2>0, <2>3 DEF NodeInv
    <3>2. QED
      BY <2>3, <2>4, <2>5, <3>1 DEF NodeInv
  <2>7. QED
    BY <2>3, <2>6, OthersKept
<1>7. CASE RetrieveModel(n)
  <2> DEFINE m == Min(node[n].models)
  <2>0. /\ node[n].models # {} /\ node[n].models \in SUBSET Model /\ node[n].merger = "pull"
        /\ node[n].instance
    BY <1>0, <1>7 DEF RetrieveModel, NodeState, Running
  <2>1. m \in node[n].models /\ m \in Model
    BY <2>0, MinIsIn, ModelAssumption
  <2>2. node' = [node EXCEPT ![n].models = @ \ {m}, ![n].topic_model[m] = topic_model[m],
                             ![n].topic_model_inc[m] = Nil]
    BY <1>7 DEF RetrieveModel
  <2> HIDE DEF m
  <2>3. /\ node'[n].instance = node[n].instance
        /\ node'[n].todo = node[n].todo /\ node'[n].batch = node[n].batch
        /\ node'[n].tasks = node[n].tasks /\ node'[n].merger = "pull"
        /\ node'[n].models = node[n].models \ {m}
        /\ node'[n].topic_model = [node[n].topic_model EXCEPT ![m] = topic_model[m]]
    BY <1>0, <2>0, <2>2 DEF NodeState
  <2>4. /\ node'[n].topic_model[m] = topic_model[m]
        /\ \A k \in Model : k # m => node'[n].topic_model[k] = node[n].topic_model[k]
    BY <1>0, <2>1, <2>3 DEF NodeState
  <2>5. ASSUME NEW k \in Model, k \notin node'[n].models
        PROVE  InSync(n, k)'
    <3>1. CASE k = m
      BY <2>4, <3>1 DEF InSync
    <3>2. CASE k # m
      <4>1. InSync(n, k)
        BY <1>0, <2>0, <2>3, <2>5, <3>2 DEF NodeInv
      <4>2. QED
        BY <2>4, <3>2, <4>1 DEF InSync
    <3>3. QED
      BY <3>1, <3>2
  <2>6. ASSUME NEW i \in 1..Len(node'[n].tasks), node'[n].tasks[i].type # "kDisposeModel"
        PROVE  i = Len(node'[n].tasks) /\ Waits(n, node[n].tasks[i].type)'
    BY <1>0, <2>3, <2>6 DEF NodeInv, Waits, Forcing, NextNode
  <2>7. NodeInv(n)'
    <3>1. /\ node'[n].todo # {} => node'[n].batch # Nil
          /\ node'[n].instance
          /\ node'[n].tasks # <<>>
          /\ node'[n].tasks[1].type = "kForcePullTopicModel"
      BY <1>0, <2>0, <2>3 DEF NodeInv
    <3>2. QED
      BY <2>3, <2>5, <2>6, <3>1 DEF NodeInv
  <2>8. QED
    BY <2>1, <2>4, <2>7, OthersKept
<1>8. QED
  BY <1>2, <1>3, <1>4, <1>5, <1>6, <1>7 DEF NodeMergerThread, Service

LEMMA MasterUnmoved ==
  ASSUME MasterInv, UNCHANGED <<schema, merger, internal_task_queue, topic_model, sync, api>>
  PROVE  MasterInv'
BY Zenon DEF MasterInv

LEMMA CallUnmoved ==
  ASSUME CallInv, UNCHANGED <<api, topic_model, disk>>
  PROVE  CallInv'
BY Zenon DEF CallInv, Forcing

LEMMA ServiceStepOK ==
  ASSUME NetworkInv, NEW n \in Nodes, ServiceStep(n)
  PROVE  NetworkInv'
<1>0. TypeOK /\ NodeInv(n) /\ NetworkNodeTypeOK /\ BatchManagerTypeOK
  BY DEF NetworkInv, TypeOK
<1>1. /\ BatchManagerTypeOK' /\ merger_queue' \in Seq(Increment)
      /\ node' \in [Nodes -> NodeState] /\ \A k \in Nodes : k # n => node'[k] = node[k]
  BY <1>0, ServiceTypes DEF ServiceStep
<1>2. UNCHANGED <<schema, sync, apiVars, topic_model, topic_model_inc, internal_task_queue, merger>>
  BY Zenon DEF ServiceStep, Service, RequestBatches, RequestBatchesReply, ReportBatches, UpdateModel,
         RetrieveModel, mergerVars
<1>3. TypeOK'
  BY <1>0, <1>1, <1>2 DEF TypeOK, SchemaTypeOK, NetworkNodeTypeOK, apiVars
<1>4. SyncInv' /\ \A k \in Nodes : NodeInv(k)'
  BY <1>1, <1>2, WorkOK DEF ServiceStep, apiVars
<1>5. MasterInv' /\ CallInv'
  BY <1>2, MasterUnmoved, CallUnmoved DEF NetworkInv, apiVars
<1>6. QED
  BY <1>3, <1>4, <1>5 DEF NetworkInv

\* Every other node is calm while node n works on the force.
LEMMA NodeStepOK ==
  ASSUME NetworkInv, NEW n \in Nodes, NodeStep(n)
  PROVE  NetworkInv'
<1>0. TypeOK /\ NodeInv(n) /\ NetworkNodeTypeOK /\ node[n] \in NodeState /\ MasterInv /\ CallInv
      /\ SyncInv
  BY DEF NetworkInv, TypeOK, NetworkNodeTypeOK
<1>1. node' \in [Nodes -> NodeState] /\ \A k \in Nodes : k # n => node'[k] = node[k]
  BY <1>0, NodeThreadTypes DEF NodeStep
<1>2. UNCHANGED <<schema, batchManagerVars, mergerVars, apiVars>>
  BY DEF NodeStep
<1>3. sync' \in BOOLEAN
  BY <1>0 DEF NodeStep, NodeThread, NodeSignal, NetworkNodeTypeOK
<1>4. TypeOK'
  BY <1>0, <1>1, <1>2, <1>3 DEF TypeOK, SchemaTypeOK, BatchManagerTypeOK, NetworkNodeTypeOK, apiVars,
                               mergerVars, batchManagerVars
<1>5. CASE UNCHANGED sync /\ (LoaderThread(n) \/ ProcessorThread(n) \/ NodeMergerThread(n))
  <2>1. SyncInv' /\ \A k \in Nodes : NodeInv(k)'
    BY <1>1, <1>2, <1>5, WorkOK DEF apiVars, mergerVars
  <2>2. MasterInv' /\ CallInv'
    BY <1>0, <1>2, <1>5, MasterUnmoved, CallUnmoved DEF apiVars, mergerVars
  <2>3. QED
    BY <1>4, <2>1, <2>2 DEF NetworkInv
<1>6. CASE NodeSignal(n)
  <2>1. /\ Len(node[n].tasks) = 1 /\ node[n].tasks # <<>> /\ Tail(node[n].tasks) = <<>>
        /\ Forcing /\ api.called /\ ~sync /\ api.nodes # {} /\ n = NextNode
        /\ node[n].merger = (IF api.pc = "wait.push" THEN "push" ELSE "pull")
    BY <1>6, ForceIsCalled DEF NodeSignal
  <2>2. /\ node'[n].topic_model = node[n].topic_model /\ node'[n].instance = node[n].instance
        /\ node'[n].todo = node[n].todo /\ node'[n].batch = node[n].batch
        /\ node'[n].tasks = <<>> /\ node'[n].merger = "run" /\ node[n].models = {}
    BY <1>0, <1>6, <2>1 DEF NodeSignal, NodeState, NetworkNodeTypeOK
  <2>3. NodeInv(n)'
    BY <1>0, <2>2 DEF NodeInv
  <2>4. ASSUME NEW k \in Nodes, k # n
        PROVE  NodeInv(k)'
    <3>1. NodeInv(k) /\ \A type \in TaskTypes : ~Waits(k, type)
      BY <2>1, <2>4 DEF NetworkInv, Waits
    <3>2. QED
      BY <1>0, <1>1, <2>4, <3>1, NodeIsCalm, NodeKeepsCalm
  <2>5. MasterCalm
    <3>1. api.pc \notin {"wait.forced", "wait.pulled"}
      BY <2>1 DEF Forcing
    <3>2. QED
      BY <1>0, <3>1 DEF MasterInv, MasterCalm
  <2>6. MasterInv' /\ CallInv'
    BY <1>0, <1>2, <2>5, MasterKeepsCalm, CallUnmoved DEF apiVars, mergerVars
  <2>7. \A k \in Nodes, m \in Model :
          (InSync(k, m) => InSync(k, m)') /\ (Near(k, m) => Near(k, m)')
    <3>1. \A k \in Nodes : node'[k].topic_model = node[k].topic_model
      BY <1>1, <2>2
    <3>2. QED
      BY <1>2, <3>1 DEF Near, InSync, mergerVars
  <2>8. api.pc \in {"refresh", "wait.nodes"} => \A m \in Model : InSync(n, m)'
    BY <1>0, <2>1, <2>2, <2>7 DEF NodeInv
  <2>9. SyncInv'
    <3>1. clients' = clients /\ api' = api /\ clients \subseteq Nodes
      BY <1>0, <1>2 DEF apiVars, TypeOK
    <3>2. n = NextNode'
      BY <2>1, <3>1 DEF NextNode
    <3>3. \A m \in Model : InSync(n, m)' => InSync(NextNode, m)'
      BY <3>2 DEF InSync
    <3>4. QED
      BY <1>0, <2>1, <2>7, <2>8, <3>1, <3>3 DEF SyncInv, Forcing
  <2>10. QED
    BY <1>4, <2>3, <2>4, <2>6, <2>9 DEF NetworkInv
<1>7. QED
  BY <1>5, <1>6 DEF NodeStep, NodeThread

\* A process that ends keeps its state; one that starts has none.
LEMMA StopOK ==
  ASSUME NetworkInv, NEW n \in Nodes, Stop(n) \/ Restart(n)
  PROVE  NetworkInv'
<1>0. TypeOK /\ NodeInv(n) /\ NetworkNodeTypeOK /\ node[n] \in NodeState
  BY DEF NetworkInv, TypeOK, NetworkNodeTypeOK
<1>1. UNCHANGED <<schema, batchManagerVars, mergerVars, sync, apiVars>>
  BY DEF Stop, Restart
<1>2. PICK s \in NodeState :
        /\ NodeMoves(n, s)
        /\ s = NoInstance \/ s = [node[n] EXCEPT !.up = FALSE]
  <2>1. CASE Stop(n)
    <3>1. [node[n] EXCEPT !.up = FALSE] \in NodeState
      BY <1>0 DEF NodeState
    <3>2. QED
      BY <2>1, <3>1 DEF Stop, NodeMoves
  <2>2. CASE Restart(n)
    BY <2>2, EmptyOK DEF Restart, NodeMoves
  <2>3. QED
    BY <2>1, <2>2
<1>3. /\ node' \in [Nodes -> NodeState]
      /\ node'[n] = s /\ \A k \in Nodes : k # n => node'[k] = node[k]
  BY <1>0, <1>2, MovesOK
<1>4. TypeOK'
  BY <1>0, <1>1, <1>3 DEF TypeOK, SchemaTypeOK, BatchManagerTypeOK, NetworkNodeTypeOK, apiVars,
                          mergerVars, batchManagerVars
<1>5. SyncInv' /\ \A k \in Nodes : NodeInv(k)'
  <2>1. CASE s = NoInstance
    <3>1. NodeInv(n)'
      BY <1>3, <2>1, EmptyNodeOK
    <3>2. \A m \in Model : node'[n].topic_model[m] = Nil
      BY <1>3, <2>1 DEF NoInstance
    <3>3. QED
      BY <1>1, <1>3, <3>1, <3>2, OthersKept DEF apiVars, mergerVars
  <2>2. CASE s = [node[n] EXCEPT !.up = FALSE]
    <3>1. /\ node'[n].topic_model = node[n].topic_model /\ node'[n].instance = node[n].instance
          /\ node'[n].todo = node[n].todo /\ node'[n].batch = node[n].batch
          /\ node'[n].tasks = node[n].tasks
          /\ node'[n].merger = node[n].merger /\ node'[n].models = node[n].models
          /\ node'[n].topic_model_inc = node[n].topic_model_inc
      BY <1>0, <1>3, <2>2 DEF NodeState
    <3>2. UNCHANGED <<api, sync, topic_model>>
      BY <1>1 DEF apiVars, mergerVars
    <3>3. NodeInv(n)'
      <4>1. ASSUME NEW i \in 1..Len(node'[n].tasks), node'[n].tasks[i].type # "kDisposeModel"
            PROVE  i = Len(node'[n].tasks) /\ Waits(n, node[n].tasks[i].type)'
        BY <1>0, <3>1, <3>2, <4>1 DEF NodeInv, Waits, Forcing, NextNode
      <4>2. node'[n].merger = "pull" => \A m \in Model \ node'[n].models : InSync(n, m)'
        BY <1>0, <3>1, <3>2 DEF NodeInv, InSync
      <4>3. QED
        BY <1>0, <3>1, <4>1, <4>2 DEF NodeInv
    <3>4. QED
      BY <1>1, <1>3, <3>1, <3>3, OthersKept DEF apiVars, mergerVars
  <2>3. QED
    BY <1>2, <2>1, <2>2
<1>6. MasterInv' /\ CallInv'
  BY <1>1, MasterUnmoved, CallUnmoved DEF NetworkInv, apiVars, mergerVars
<1>7. QED
  BY <1>4, <1>5, <1>6 DEF NetworkInv

LEMMA MergerStepOK ==
  ASSUME NetworkInv, MergerStep
  PROVE  NetworkInv'
<1>0. TypeOK /\ NetworkNodeTypeOK /\ MasterInv /\ CallInv /\ SyncInv
      /\ internal_task_queue \in Seq(Tasks) /\ clients \subseteq Nodes
  BY DEF NetworkInv, TypeOK, NetworkNodeTypeOK
<1>1. UNCHANGED <<schema, batchManagerVars, node, apiVars>> /\ MergerThread
  BY DEF MergerStep
<1>2. MergerTypeOK' /\ (merger'.pc = "merge" => merger'.increment \in Increment)
  BY <1>0, <1>1, MergerTypes DEF MergerTypeOK, NetworkNodeTypeOK
<1>3. TypeOK'
  BY <1>0, <1>1, <1>2 DEF TypeOK, SchemaTypeOK, BatchManagerTypeOK, NetworkNodeTypeOK, apiVars,
                          batchManagerVars, MergerTypeOK
<1>4. CASE UNCHANGED <<topic_model, internal_task_queue, sync>>
  <2>1. MasterInv'
    BY <1>0, <1>1, <1>2, <1>4 DEF MasterInv, apiVars
  <2>2. CallInv'
    BY <1>0, <1>1, <1>4, CallUnmoved DEF apiVars
  <2>3. ASSUME NEW k \in Nodes
        PROVE  NodeInv(k)'
    BY <1>1, <1>4, NodeKept DEF apiVars, NetworkInv
  <2>4. SyncInv'
    BY <1>0, <1>1, <1>4, Zenon DEF SyncInv, Near, InSync, NextNode, apiVars
  <2>5. QED
    BY <1>3, <2>1, <2>2, <2>3, <2>4 DEF NetworkInv
<1>5. CASE MergerTask
  <2> DEFINE task == Head(internal_task_queue)
             rest == Tail(internal_task_queue)
  <2>1. /\ internal_task_queue # <<>> /\ internal_task_queue' = rest /\ UNCHANGED merger
        /\ task = internal_task_queue[1] /\ 1 \in 1..Len(internal_task_queue)
    BY <1>0, <1>5 DEF MergerTask
  <2>2. /\ Len(rest) = Len(internal_task_queue) - 1
        /\ \A i \in 1..Len(rest) : rest[i] = internal_task_queue[i + 1]
                                   /\ i + 1 \in 1..Len(internal_task_queue)
    BY <1>0, <2>1
  <2>3. \/ task.type = "kDisposeModel" /\ UNCHANGED <<topic_model, sync>>
        \/ /\ task.type # "kDisposeModel" /\ sync' = TRUE
           /\ \/ UNCHANGED topic_model
              \/ /\ task.type = "kForcePullTopicModel"
                 /\ topic_model' = [m \in Model |-> IF m \in Pulled
                                      THEN [n_wt |-> topic_model_inc[m], edition |-> 0]
                                      ELSE topic_model[m]]
    BY <1>5 DEF MergerTask
  <2> HIDE DEF task, rest
  <2>4. CASE task.type = "kDisposeModel" /\ UNCHANGED <<topic_model, sync>>
    <3>1. MasterInv'
      <4>1. ASSUME NEW i \in 1..Len(internal_task_queue'),
                   internal_task_queue'[i].type # "kDisposeModel"
            PROVE  /\ i = Len(internal_task_queue') /\ ~sync'
                   /\ api'.pc = (IF internal_task_queue'[i].type = "kForcePushTopicModelIncrement"
                                 THEN "wait.forced" ELSE "wait.pulled")
        <5>1. /\ i + 1 \in 1..Len(internal_task_queue)
              /\ internal_task_queue'[i] = internal_task_queue[i + 1]
              /\ Len(internal_task_queue') = Len(internal_task_queue) - 1
          BY <2>1, <2>2, <4>1
        <5>2. /\ i + 1 = Len(internal_task_queue) /\ ~sync
              /\ api.pc = (IF internal_task_queue[i + 1].type = "kForcePushTopicModelIncrement"
                           THEN "wait.forced" ELSE "wait.pulled")
          BY <1>0, <4>1, <5>1 DEF MasterInv
        <5>3. QED
          BY <1>0, <1>1, <2>4, <5>1, <5>2 DEF apiVars
      <4>2. \A m \in Model : schema'[m] = "absent" => topic_model'[m] = Nil
        BY <1>0, <1>1, <2>4 DEF MasterInv
      <4>3. QED
        BY <1>2, <4>1, <4>2 DEF MasterInv
    <3>2. CallInv'
      BY <1>0, <1>1, <2>4, CallUnmoved DEF apiVars
    <3>3. ASSUME NEW k \in Nodes
          PROVE  NodeInv(k)'
      BY <1>1, <2>4, NodeKept DEF apiVars, NetworkInv
    <3>4. SyncInv'
      BY <1>0, <1>1, <2>4, Zenon DEF SyncInv, Near, InSync, NextNode, apiVars
    <3>5. QED
      BY <1>3, <3>1, <3>2, <3>3, <3>4 DEF NetworkInv
  <2>5. CASE task.type # "kDisposeModel" /\ sync' = TRUE
    <3>1. /\ Len(internal_task_queue) = 1
          /\ api.pc = (IF task.type = "kForcePushTopicModelIncrement"
                       THEN "wait.forced" ELSE "wait.pulled")
      BY <1>0, <2>1, <2>5 DEF MasterInv
    <3>2. \A m \in Model : topic_model[m] = Nil => topic_model'[m] = Nil
      BY <2>3, <2>5 DEF Pulled
    <3>3. UNCHANGED topic_model \/ api.pc = "wait.pulled"
      BY <2>3, <2>5, <3>1
    <3>4. MasterInv'
      <4>1. Len(internal_task_queue') = 0
        BY <2>1, <2>2, <3>1
      <4>2. \A m \in Model : schema'[m] = "absent" => topic_model'[m] = Nil
        BY <1>0, <1>1, <3>2 DEF MasterInv
      <4>3. QED
        BY <1>2, <4>1, <4>2 DEF MasterInv
    <3>5. CallInv' /\ ~api.called /\ ~Forcing
      <4>1. api' = api /\ disk' = disk
        BY <1>1 DEF apiVars
      <4>2. QED
        BY <1>0, <3>1, <4>1 DEF CallInv, Forcing
    <3>6. ASSUME NEW k \in Nodes
          PROVE  NodeInv(k)'
      <4>1. NodeInv(k) /\ Calm(k)
        BY <1>0, <3>5, NodeIsCalm DEF NetworkInv, Waits
      <4>2. QED
        BY <1>1, <4>1, NodeKeepsCalm
    <3>7. SyncInv'
      <4>0. UNCHANGED <<api, clients, node>>
        BY <1>1 DEF apiVars
      <4>1. CASE api.pc = "wait.pulled"
        BY <4>0, <4>1 DEF SyncInv
      <4>2. CASE api.pc = "wait.forced"
        <5>1. AllNear /\ UNCHANGED topic_model
          BY <1>0, <3>3, <4>2 DEF SyncInv, AllNear
        <5>2. QED
          BY <3>5, <4>0, <5>1, StillInSync
      <4>3. QED
        BY <3>1, <4>1, <4>2
    <3>8. QED
      BY <1>3, <3>4, <3>5, <3>6, <3>7 DEF NetworkInv
  <2>6. QED
    BY <2>3, <2>4, <2>5
<1>6. QED
  BY <1>1, <1>4, <1>5 DEF MergerThread, MergerWake, MergerPop, MergerMerge, MergerIdle

LEMMA NetworkInvStep ==
  ASSUME NetworkInv, [Next]_vars
  PROVE  NetworkInv'
<1>1. CASE UNCHANGED vars
  <2>1. /\ UNCHANGED <<api, sync, topic_model, clients, node, schema, merger, internal_task_queue>>
        /\ UNCHANGED <<disk, tasks, in_progress, topic_model_inc, merger_queue, calls, due, quiet>>
    BY <1>1, Zenon DEF vars, apiVars, mergerVars, batchManagerVars
  <2>2. TypeOK'
    BY <2>1 DEF NetworkInv, TypeOK, SchemaTypeOK, BatchManagerTypeOK, NetworkNodeTypeOK
  <2>3. MasterInv' /\ CallInv' /\ \A n \in Nodes : NodeInv(n)'
    BY <2>1, MasterUnmoved, CallUnmoved, NodeKept DEF NetworkInv
  <2>4. SyncInv'
    <3>1. SyncInv
      BY DEF NetworkInv
    <3>2. QED
      BY <2>1, <3>1, Zenon DEF SyncInv, Near, InSync, NextNode
  <2>5. QED
    BY <2>2, <2>3, <2>4 DEF NetworkInv
<1>2. CASE Next
  BY <1>2, ApiStepOK, MergerStepOK, ServiceStepOK, NodeStepOK, StopOK DEF Next
<1>3. QED
  BY <1>1, <1>2

LEMMA NetworkInvInit ==
  ASSUME Init
  PROVE  NetworkInv
<1> DEFINE existing == [m \in Model |-> IF m \in InitialModels THEN NewModel ELSE Nil]
<1>0. NewModel \in TopicModel /\ NoCounts \in Counts
  BY DEF NewModel, TopicModel, NoCounts, Counts
<1>1. existing \in [Model -> TopicModel \cup {Nil}]
  BY <1>0
<1>2. /\ topic_model = existing /\ topic_model_inc = [m \in Model |-> Nil]
      /\ merger_queue = <<>> /\ internal_task_queue = <<>>
      /\ merger = [pc |-> "idle", increment |-> Nil]
      /\ node = [n \in Nodes |-> [NoInstance EXCEPT
                   !.instance = n \in InitialNodes,
                   !.topic_model = IF n \in InitialNodes THEN existing ELSE @]]
      /\ sync = FALSE
  BY DEF Init, NetworkNodeInit
<1>3. ASSUME NEW n \in Nodes
      PROVE  /\ node[n] \in NodeState /\ NodeInv(n)
             /\ \A m \in Model : Near(n, m)
  <2> DEFINE connected == n \in InitialNodes
             models == IF connected THEN existing ELSE [m \in Model |-> Nil]
  <2>1. /\ node[n] = [NoInstance EXCEPT !.instance = connected, !.topic_model = models]
        /\ connected => models = existing
        /\ ~connected => models = [m \in Model |-> Nil]
        /\ models \in [Model -> TopicModel \cup {Nil}] /\ connected \in BOOLEAN
    <3>1. /\ node[n] = [NoInstance EXCEPT !.instance = n \in InitialNodes,
                          !.topic_model = IF n \in InitialNodes THEN existing ELSE @]
          /\ NoInstance.topic_model = [m \in Model |-> Nil]
      BY <1>2 DEF NoInstance
    <3>2. [m \in Model |-> Nil] \in [Model -> TopicModel \cup {Nil}]
      OBVIOUS
    <3> HIDE DEF existing
    <3>3. QED
      BY <1>1, <3>1, <3>2
  <2> HIDE DEF existing, connected, models
  <2>2. node[n] \in NodeState
    BY <2>1, EmptyOK DEF NodeState
  <2>3. /\ node[n].topic_model = models /\ node[n].instance = connected
        /\ node[n].todo = {} /\ node[n].merger = "run" /\ node[n].tasks = <<>>
    BY <2>1 DEF NoInstance
  <2>4. NodeInv(n)
    <3>1. ~node[n].instance => \A m \in Model : node[n].topic_model[m] = Nil
      BY <2>1, <2>3
    <3>2. Len(node[n].tasks) = 0
      BY <2>3
    <3>3. QED
      BY <2>3, <3>1, <3>2 DEF NodeInv
  <2>5. \A m \in Model : Near(n, m)
    <3>1. topic_model = existing
      BY <1>2
    <3>2. \A m \in Model : ~connected => models[m] = Nil
      BY <2>1
    <3>3. QED
      BY <2>1, <2>3, <3>1, <3>2 DEF Near, InSync
  <2>6. QED
    BY <2>2, <2>4, <2>5
<1>4. TypeOK
  <2>1. SchemaTypeOK /\ BatchManagerTypeOK
    BY DEF Init, SchemaTypeOK, ModelStatus, BatchManagerInit, BatchManagerTypeOK
  <2>2. NetworkNodeTypeOK
    <3>1. node \in [Nodes -> NodeState]
      <4> DEFINE first(n) == [NoInstance EXCEPT
                   !.instance = n \in InitialNodes,
                   !.topic_model = IF n \in InitialNodes THEN existing ELSE @]
      <4>1. node = [n \in Nodes |-> first(n)]
        BY <1>2
      <4>2. \A n \in Nodes : first(n) = node[n]
        BY <4>1
      <4> HIDE DEF first
      <4>3. \A n \in Nodes : first(n) \in NodeState
        BY <1>3, <4>2
      <4>4. QED
        BY <4>1, <4>3
    <3>2. topic_model \in [Model -> TopicModel \cup {Nil}]
      <4>1. topic_model = existing
        BY <1>2, Zenon
      <4> HIDE DEF existing
      <4>2. QED
        BY <1>1, <4>1
    <3>3. topic_model_inc \in [Model -> Counts \cup {Nil}]
      <4>1. topic_model_inc = [m \in Model |-> Nil]
        BY <1>2, Zenon
      <4>2. QED
        BY <4>1
    <3>4. merger_queue \in Seq(Increment) /\ internal_task_queue \in Seq(Tasks)
      <4>1. merger_queue = <<>> /\ internal_task_queue = <<>>
        BY <1>2, Zenon
      <4>2. QED
        BY <4>1
    <3>5. merger \in [pc : {"idle", "run", "merge"}, increment : Increment \cup {Nil}]
      <4>1. merger = [pc |-> "idle", increment |-> Nil]
        BY <1>2, Zenon
      <4>2. QED
        BY <4>1
    <3>6. sync \in BOOLEAN
      BY <1>2
    <3>7. QED
      BY <3>1, <3>2, <3>3, <3>4, <3>5, <3>6 DEF NetworkNodeTypeOK
  <2>3. /\ disk \subseteq Batch /\ clients \subseteq Nodes /\ api \in Api /\ calls \in Nat
        /\ quiet \in BOOLEAN /\ due \in [Model -> Counts]
    BY <1>0, ReadyOK, NetworkAssumption DEF Init
  <2>4. QED
    BY <2>1, <2>2, <2>3 DEF TypeOK
<1>5. MasterInv
  <2>1. merger.pc = "idle" /\ Len(internal_task_queue) = 0
    BY <1>2
  <2>2. \A m \in Model : schema[m] = "absent" => topic_model[m] = Nil
    BY <1>2 DEF Init
  <2>3. QED
    BY <2>1, <2>2 DEF MasterInv
<1>6. CallInv /\ api.pc = "ready"
  BY DEF Init, Ready, CallInv
<1>7. SyncInv
  BY <1>3, <1>6, NetworkAssumption DEF SyncInv, Init
<1>8. QED
  BY <1>3, <1>4, <1>5, <1>6, <1>7 DEF NetworkInv

\* The inductive invariant of network mode.
THEOREM NetworkInvariant == Spec => []NetworkInv
<1>1. Init => NetworkInv
  BY NetworkInvInit
<1>2. NetworkInv /\ [Next]_vars => NetworkInv'
  BY NetworkInvStep
<1>3. QED
  BY <1>1, <1>2, PTL DEF Spec

\* Types.
THEOREM NetworkTypeCorrect == Spec => []TypeOK
<1>1. NetworkInv => TypeOK
  BY DEF NetworkInv
<1>2. QED
  BY <1>1, NetworkInvariant, PTL

-----------------------------------------------------------------------------
(* Behind a pull by all nodes no model is a new one.                       *)
PulledInv ==
  api.pc \in {"refresh", "wait.nodes", "wait.done"} =>
    \A n \in clients, m \in Model : InSync(n, m) \/ (n \in api.nodes /\ api.pc # "wait.done")

\* A node keeps its models, pulls the master's, or loses them.
LEMMA NodeModelsKept ==
  ASSUME NetworkInv, NEW n \in Nodes, NEW k \in Nodes, NEW m \in Model,
         ServiceStep(n) \/ NodeStep(n) \/ Stop(n) \/ Restart(n)
  PROVE  \/ node'[k].topic_model[m] = node[k].topic_model[m]
         \/ node'[k].topic_model[m] = topic_model[m]
         \/ node'[k].topic_model[m] = Nil
<1>0. node \in [Nodes -> NodeState] /\ node[n] \in NodeState /\ node[k] \in NodeState
  BY DEF NetworkInv, TypeOK, NetworkNodeTypeOK
<1>1. CASE RetrieveModel(n)
  <2> DEFINE j == Min(node[n].models)
  <2>1. node' = [node EXCEPT ![n].models = @ \ {j}, ![n].topic_model[j] = topic_model[j],
                             ![n].topic_model_inc[j] = Nil]
    BY <1>1 DEF RetrieveModel
  <2> HIDE DEF j
  <2>2. k # n => node'[k].topic_model = node[k].topic_model
    BY <1>0, <2>1
  <2>3. node'[n].topic_model = [node[n].topic_model EXCEPT ![j] = topic_model[j]]
    BY <1>0, <2>1 DEF NodeState
  <2>4. node'[n].topic_model[m] = IF m = j THEN topic_model[j] ELSE node[n].topic_model[m]
    BY <1>0, <2>3 DEF NodeState
  <2>5. QED
    BY <2>2, <2>4
<1>2. CASE Restart(n)
  BY <1>0, <1>2 DEF Restart, NoInstance
<1>3. ASSUME node'[n].topic_model = node[n].topic_model,
             \A l \in Nodes : l # n => node'[l] = node[l]
      PROVE  node'[k].topic_model[m] = node[k].topic_model[m]
  <2>1. CASE k = n
    BY <1>3, <2>1
  <2>2. CASE k # n
    BY <1>3, <2>2
  <2>3. QED
    BY <2>1, <2>2
<1>4. CASE Service(n) \/ NodeThread(n)
  <2>1. \A l \in Nodes : l # n => node'[l] = node[l]
    BY <1>4, ServiceTypes, NodeThreadTypes DEF NetworkInv, TypeOK
  <2>2. CASE RequestBatches(n) \/ RequestBatchesReply(n) \/ ReportBatches(n)
    BY <1>0, <1>3, <2>1, <2>2 DEF RequestBatches, RequestBatchesReply, ReportBatches, NodeState
  <2>3. CASE UpdateModel(n) \/ NodeSignal(n)
    BY <1>0, <1>3, <2>1, <2>3 DEF UpdateModel, NodeSignal, NodeState
  <2>4. CASE LoaderThread(n)
    BY <1>0, <1>3, <2>1, <2>4
    DEF LoaderThread, LoaderRequest, LoaderPush, LoaderFatal, LoaderAgain, NodeState
  <2>5. CASE ProcessorThread(n)
    BY <1>0, <1>3, <2>1, <2>5
    DEF ProcessorThread, ProcessorPop, ProcessorPush, ProcessorDone, NodeState
  <2>6. CASE NodeTask(n)
    BY <1>0, <1>3, <2>1, <2>6 DEF NodeTask, NodeState
  <2>7. CASE NodeMerge(n)
    BY <1>0, <1>3, <2>1, <2>7 DEF NodeMerge, NodeState
  <2>8. QED
    BY <1>1, <1>4, <2>2, <2>3, <2>4, <2>5, <2>6, <2>7
    DEF Service, NodeThread, NodeMergerThread
<1>5. CASE Stop(n)
  BY <1>0, <1>3, <1>5 DEF Stop, NodeState
<1>6. QED
  BY <1>2, <1>4, <1>5 DEF ServiceStep, NodeStep

\* The master's merger changes the models only in the pull that WaitIdle waits for.
LEMMA MergerKeepsModels ==
  ASSUME NetworkInv, MergerStep, api.pc # "wait.pulled"
  PROVE  UNCHANGED topic_model
<1>0. MasterInv /\ internal_task_queue \in Seq(Tasks)
  BY DEF NetworkInv, TypeOK, NetworkNodeTypeOK
<1>1. CASE MergerTask
  <2>1. internal_task_queue # <<>>
    BY <1>1 DEF MergerTask
  <2>2. Head(internal_task_queue) = internal_task_queue[1] /\ 1 \in 1..Len(internal_task_queue)
    BY <1>0, <2>1
  <2>3. Head(internal_task_queue).type # "kForcePullTopicModel"
    BY <1>0, <2>2 DEF MasterInv
  <2>4. QED
    BY <1>1, <2>3 DEF MergerTask
<1>2. QED
  BY <1>1 DEF MergerStep, MergerThread, MergerWake, MergerPop, MergerMerge, MergerIdle

LEMMA PulledStep ==
  ASSUME NetworkInv, PulledInv, [Next]_vars
  PROVE  PulledInv'
<1>0. TypeOK /\ CallInv /\ SyncInv /\ api \in Api /\ clients \subseteq Nodes
  BY DEF NetworkInv, TypeOK
<1>p. /\ Ready.pc = "ready" /\ \A S : [api EXCEPT !.nodes = S, !.called = FALSE].pc = api.pc
      /\ \A pc : [api EXCEPT !.pc = pc].pc = pc
      /\ \A pc, S : /\ [api EXCEPT !.pc = pc, !.nodes = S].pc = pc
                    /\ [api EXCEPT !.pc = pc, !.nodes = S].nodes = S
      /\ \A S, k : /\ [api EXCEPT !.batches = S].pc = api.pc
                   /\ [api EXCEPT !.batches = S, !.iterations = k].pc = api.pc
  BY <1>0 DEF Ready, Api
<1>1. ASSUME UNCHANGED <<api, clients>>,
             api.pc \in {"refresh", "wait.nodes", "wait.done"} =>
               /\ UNCHANGED topic_model
               /\ \A k \in Nodes, m \in Model :
                    \/ node'[k].topic_model[m] = node[k].topic_model[m]
                    \/ node'[k].topic_model[m] = topic_model[m]
                    \/ node'[k].topic_model[m] = Nil
      PROVE  PulledInv'
  <2>1. ASSUME NEW k \in clients, NEW m \in Model,
               api.pc \in {"refresh", "wait.nodes", "wait.done"}
        PROVE  InSync(k, m)' \/ (k \in api'.nodes /\ api'.pc # "wait.done")
    <3>1. InSync(k, m) \/ (k \in api.nodes /\ api.pc # "wait.done")
      BY <2>1 DEF PulledInv
    <3>2. \/ node'[k].topic_model[m] = node[k].topic_model[m]
          \/ node'[k].topic_model[m] = topic_model[m]
          \/ node'[k].topic_model[m] = Nil
      BY <1>0, <1>1, <2>1
    <3>3. InSync(k, m) => InSync(k, m)'
      BY <1>1, <2>1, <3>2 DEF InSync
    <3>4. QED
      BY <1>1, <3>1, <3>3
  <2>2. QED
    BY <1>1, <2>1 DEF PulledInv
<1>2. CASE UNCHANGED vars
  BY <1>1, <1>2 DEF vars, apiVars, mergerVars
<1>3. CASE \E n \in Nodes : ServiceStep(n) \/ NodeStep(n) \/ Stop(n) \/ Restart(n)
  <2>1. PICK n \in Nodes : ServiceStep(n) \/ NodeStep(n) \/ Stop(n) \/ Restart(n)
    BY <1>3
  <2>2. UNCHANGED <<api, clients, topic_model>>
    BY <2>1 DEF ServiceStep, Service, RequestBatches, RequestBatchesReply, ReportBatches, UpdateModel,
                RetrieveModel, NodeStep, Stop, Restart, apiVars, mergerVars
  <2>3. QED
    BY <1>1, <2>1, <2>2, NodeModelsKept
<1>4. CASE MergerStep
  <2>1. UNCHANGED <<api, clients, node>>
    BY <1>4 DEF MergerStep, apiVars
  <2>2. api.pc # "wait.pulled" => UNCHANGED topic_model
    BY <1>4, MergerKeepsModels
  <2>3. QED
    BY <1>1, <2>1, <2>2
<1>5. ASSUME api'.pc \notin {"refresh", "wait.nodes", "wait.done"}
                \/ (api'.pc # "wait.done" /\ api'.nodes = clients')
      PROVE  PulledInv'
  BY <1>5 DEF PulledInv
<1>6. CASE ApiCall
  BY <1>0, <1>5, <1>6
  DEF ApiCall, Reconfigure, CreateModel, RecreateModel, DisposeModel, OverwriteTopicModel, AddBatch,
      InvokePhiRegularizers, InvokeIteration, WaitIdle, Goto, Call, Api
<1>7. CASE NodeForce
  <2>1. ASSUME NEW k \in Nodes
        PROVE  node'[k].topic_model = node[k].topic_model
    BY <1>0, <1>7 DEF NodeForce, TypeOK, NetworkNodeTypeOK, NodeState
  <2>2. /\ api' = [api EXCEPT !.called = TRUE] /\ UNCHANGED <<topic_model, clients>>
    BY <1>7 DEF NodeForce, mergerVars
  <2>3. \A k \in clients, m \in Model : InSync(k, m)' = InSync(k, m)
    BY <1>0, <2>1, <2>2 DEF InSync
  <2>4. api'.pc = api.pc /\ api'.nodes = api.nodes
    BY <1>0, <2>2 DEF Api
  <2>5. QED
    BY <2>2, <2>3, <2>4 DEF PulledInv
<1>8. CASE NodeForceNoInstance \/ NodeForced
  <2>1. /\ Forcing /\ NodesLeft /\ Replied /\ api.nodes # {}
        /\ UNCHANGED <<mergerVars, node, clients>>
    BY <1>8 DEF NodeForceNoInstance, NodeForced, NodesLeft
  <2>2. api'.pc = api.pc /\ api'.nodes = api.nodes \ {NextNode}
    BY <2>1, RepliedOK
  <2>3. PICK n \in Nodes : n = NextNode
    BY <1>0, <2>1, NextNodeOK
  <2>4. api.pc \in {"refresh", "wait.nodes"} => \A m \in Model : InSync(n, m)
    <3>1. CASE NodeForceNoInstance
      BY <2>3, <3>1 DEF NodeForceNoInstance, NetworkInv, NodeInv, InSync
    <3>2. CASE NodeForced
      BY <1>0, <2>3, <3>2 DEF NodeForced, SyncInv
    <3>3. QED
      BY <1>8, <3>1, <3>2
  <2>5. \A k \in clients, m \in Model : InSync(k, m)' = InSync(k, m)
    BY <2>1 DEF InSync, mergerVars
  <2>6. api.pc # "wait.done" /\ UNCHANGED clients
    BY <2>1 DEF Forcing
  <2>7. QED
    BY <2>2, <2>3, <2>4, <2>5, <2>6 DEF PulledInv
<1>9. CASE NodesDone
  <2>1. CASE api.pc = "wait.nodes"
    <3>1. api.nodes = {} /\ api' = [api EXCEPT !.pc = "wait.done"]
          /\ UNCHANGED <<topic_model, node, clients>>
      BY <1>9, <2>1 DEF NodesDone, Goto, mergerVars
    <3>2. \A k \in clients, m \in Model : InSync(k, m)' = InSync(k, m)
      BY <3>1 DEF InSync
    <3>3. QED
      BY <2>1, <3>1, <3>2 DEF PulledInv
  <2>2. CASE api.pc # "wait.nodes"
    <3>1. api'.pc \notin {"refresh", "wait.nodes", "wait.done"}
      <4>1. \/ Return
            \/ api' = [api EXCEPT !.pc = "disconnect", !.nodes = api.drop]
            \/ api' = [api EXCEPT !.pc = "configure", !.nodes = clients]
            \/ Goto("wait.idle")
        BY <1>9, <2>2, Zenon DEF NodesDone
      <4>2. QED
        BY <1>p, <4>1 DEF Goto, Return
    <3>2. QED
      BY <1>5, <3>1
  <2>3. QED
    BY <2>1, <2>2
<1>10. CASE CreateModelNode \/ DisposeModelNode \/ ConnectClient \/ DisconnectClient \/ ConfigureClient
  <2>1. /\ api.pc \notin {"refresh", "wait.nodes", "wait.done"}
        /\ api'.pc = api.pc \/ api'.pc = "ready"
    <3>1. api.pc \in {"create", "dispose", "connect", "disconnect", "configure"}
      BY <1>10, Zenon
      DEF CreateModelNode, DisposeModelNode, ConnectClient, DisconnectClient, ConfigureClient
    <3>2. Replied \/ Return
      BY <1>10, Zenon
      DEF CreateModelNode, DisposeModelNode, ConnectClient, DisconnectClient, ConfigureClient
    <3>3. QED
      BY <1>p, <3>1, <3>2 DEF Replied, Return
  <2>2. QED
    BY <1>5, <2>1
<1>11. CASE \/ InvokeAdd \/ WaitTimeout \/ WaitProcessed \/ WaitIsIdle \/ WaitQueueNotEmpty
            \/ WaitPush \/ WaitPull \/ WaitPulled \/ WaitReturn
  <2>1. \/ api'.pc \notin {"refresh", "wait.nodes", "wait.done"}
        \/ api'.pc # "wait.done" /\ api'.nodes = clients'
    <3>1. CASE InvokeAdd
      <4>1. /\ api.pc = "add"
            /\ \/ \E S : api' = [api EXCEPT !.batches = S]
               \/ api' = [api EXCEPT !.batches = disk, !.iterations = @ - 1]
               \/ Return
        BY <3>1, Zenon DEF InvokeAdd, At
      <4>2. api'.pc = "add" \/ api'.pc = "ready"
        <5>1. (\E S : api' = [api EXCEPT !.batches = S]) => api'.pc = api.pc
          BY <1>p
        <5>2. api' = [api EXCEPT !.batches = disk, !.iterations = @ - 1] => api'.pc = api.pc
          BY <1>p
        <5>3. Return => api'.pc = "ready"
          BY <1>p DEF Return
        <5>4. QED
          BY <4>1, <5>1, <5>2, <5>3
      <4>3. QED
        BY <4>2
    <3>2. CASE WaitTimeout \/ WaitIsIdle \/ WaitQueueNotEmpty \/ WaitPush \/ WaitPull \/ WaitReturn
      <4>1. \/ Return \/ Goto("wait.queue") \/ Goto("wait.idle")
            \/ Goto("wait.forced") \/ Goto("wait.pulled")
        <5>1. WaitTimeout \/ WaitReturn => Return
          BY DEF WaitTimeout, WaitReturn
        <5>2. /\ (WaitIsIdle => Goto("wait.queue")) /\ (WaitQueueNotEmpty => Goto("wait.idle"))
              /\ (WaitPush => Goto("wait.forced")) /\ (WaitPull => Goto("wait.pulled"))
          BY Zenon DEF WaitIsIdle, WaitQueueNotEmpty, WaitPush, WaitPull
        <5>3. QED
          BY <3>2, <5>1, <5>2
      <4>2. QED
        BY <1>p, <4>1 DEF Goto, Return
    <3>3. CASE WaitProcessed \/ WaitPulled
      <4>1. /\ UNCHANGED clients
            /\ \E pc \in {"wait.push", "wait.nodes"} : api' = [api EXCEPT !.pc = pc, !.nodes = clients]
        BY <3>3 DEF WaitProcessed, WaitPulled
      <4>2. QED
        BY <1>p, <4>1
    <3>4. QED
      BY <1>11, <3>1, <3>2, <3>3
  <2>2. QED
    BY <1>5, <2>1
<1>12. QED
  BY <1>2, <1>3, <1>4, <1>6, <1>7, <1>8, <1>9, <1>10, <1>11 DEF Next, ApiThread

\* Whatever nodes stop, come back empty or get their models once more: between two
\* calls each model of a node is the master's or a new one, behind a pull by all the
\* nodes the master's.  Nodes are connected or disconnected, and models disposed, only
\* when no task is out (NetworkAssumption).
THEOREM ModelsAreInSync == Spec => []ModelsInSync
<1>1. Init => PulledInv
  BY DEF Init, Ready, PulledInv
<1>2. NetworkInv /\ PulledInv /\ [Next]_vars => PulledInv'
  BY PulledStep
<1>3. NetworkInv /\ PulledInv => ModelsInSync
  <2>1. ASSUME NetworkInv, PulledInv, NEW n \in clients, NEW m \in Model,
               \/ api.pc \in {"ready", "add", "wait.poll", "wait.push", "wait.idle", "wait.queue",
                              "wait.forced"}
               \/ AllPulled,
               node[n].topic_model[m] # Nil
        PROVE  \/ node[n].topic_model[m] = topic_model[m]
               \/ node[n].topic_model[m] = NewModel /\ ~AllPulled
    <3>1. CASE AllPulled
      BY <2>1, <3>1 DEF AllPulled, PulledInv, InSync
    <3>2. CASE ~AllPulled
      <4>1. Near(n, m)
        BY <2>1, <3>2 DEF NetworkInv, SyncInv
      <4>2. QED
        BY <2>1, <3>2, <4>1 DEF Near, InSync
    <3>3. QED
      BY <3>1, <3>2
  <2>2. QED
    BY <2>1 DEF ModelsInSync
<1>4. QED
  BY <1>1, <1>2, <1>3, NetworkInvariant, PTL DEF Spec

-----------------------------------------------------------------------------
(* Sums.                                                                   *)
\* The area under the graph of f over x, and over all the arguments in S.
Column(f, x) == {x} \X (1..f[x])
Area(f, S) == UNION {Column(f, x) : x \in S}

LEMMA ColumnSize ==
  ASSUME NEW f, NEW x, f[x] \in Nat
  PROVE  IsFiniteSet(Column(f, x)) /\ Cardinality(Column(f, x)) = f[x]
<1> DEFINE k == f[x]
           up == [i \in 1..k |-> <<x, i>>]
<1>1. k \in Nat /\ IsFiniteSet(1..k) /\ Cardinality(1..k) = k
  BY FS_Interval
<1>2. up \in [1..k -> Column(f, x)]
  BY DEF Column
<1>3. \A i, j \in 1..k : up[i] = up[j] => i = j
  OBVIOUS
<1>4. \A y \in Column(f, x) : \E i \in 1..k : up[i] = y
  BY DEF Column
<1> HIDE DEF up, k
<1>5. up \in Bijection(1..k, Column(f, x))
  BY <1>2, <1>3, <1>4 DEF Bijection, Injection, IsInjective, Surjection
<1>6. ExistsBijection(1..k, Column(f, x))
  BY <1>5 DEF ExistsBijection
<1>7. QED
  BY <1>1, <1>6, FS_Bijection DEF k

LEMMA AreaFinite ==
  ASSUME NEW S, IsFiniteSet(S), NEW f, \A x \in S : f[x] \in Nat
  PROVE  IsFiniteSet(Area(f, S)) /\ Cardinality(Area(f, S)) \in Nat
<1> DEFINE C == {Column(f, x) : x \in S}
           column == [x \in S |-> Column(f, x)]
<1>1. column \in Surjection(S, C)
  BY DEF Surjection
<1>2. IsFiniteSet(C)
  BY <1>1, FS_Surjection
<1>3. \A c \in C : IsFiniteSet(c)
  BY ColumnSize
<1> HIDE DEF C
<1>4. IsFiniteSet(UNION C)
  BY <1>2, <1>3, FS_UNION
<1>5. QED
  BY <1>4, FS_CardinalityType DEF Area, C

LEMMA AreaSplit ==
  ASSUME NEW S, IsFiniteSet(S), NEW f, \A x \in S : f[x] \in Nat, NEW x \in S
  PROVE  Cardinality(Area(f, S)) = Cardinality(Area(f, S \ {x})) + f[x]
<1> DEFINE A == Area(f, S \ {x})
           B == Column(f, x)
<1>1. IsFiniteSet(S \ {x})
  BY FS_RemoveElement
<1>2. IsFiniteSet(A) /\ Cardinality(A) \in Nat
  BY <1>1, AreaFinite
<1>3. IsFiniteSet(B) /\ Cardinality(B) = f[x]
  BY ColumnSize
<1>4. Area(f, S) = A \cup B
  BY DEF Area
<1>5. A \cap B = {}
  BY DEF Area, Column
<1> HIDE DEF A, B
<1>6. Cardinality(A \cup B) = Cardinality(A) + Cardinality(B) - Cardinality(A \cap B)
  BY <1>2, <1>3, FS_Union
<1>7. Cardinality(A \cap B) = 0
  BY <1>5, FS_EmptySet
<1>8. Cardinality(A \cup B) = Cardinality(A) + f[x]
  BY <1>2, <1>3, <1>6, <1>7
<1>9. QED
  BY <1>4, <1>8 DEF A

LEMMA TotalIsArea ==
  ASSUME NEW S, NEW f \in [S -> Nat]
  PROVE  Total(f) = Cardinality(Area(f, S))
<1>1. DOMAIN f = S
  OBVIOUS
<1>2. QED
  BY <1>1, Zenon DEF Total, Area, Column

LEMMA TotalType ==
  ASSUME NEW S, IsFiniteSet(S), NEW f \in [S -> Nat]
  PROVE  Total(f) \in Nat
BY TotalIsArea, AreaFinite

\* Two functions that differ in one argument only.
LEMMA TotalAt ==
  ASSUME NEW S, IsFiniteSet(S), NEW f \in [S -> Nat], NEW g \in [S -> Nat], NEW x \in S,
         \A y \in S \ {x} : g[y] = f[y]
  PROVE  Total(g) + f[x] = Total(f) + g[x]
<1>1. Area(g, S \ {x}) = Area(f, S \ {x})
  BY DEF Area, Column
<1>2. Cardinality(Area(f, S)) = Cardinality(Area(f, S \ {x})) + f[x]
  BY AreaSplit
<1>3. Cardinality(Area(g, S)) = Cardinality(Area(g, S \ {x})) + g[x]
  BY AreaSplit
<1>4. Cardinality(Area(f, S \ {x})) \in Nat
  BY FS_RemoveElement, AreaFinite
<1>5. Total(f) = Cardinality(Area(f, S)) /\ Total(g) = Cardinality(Area(g, S))
  BY TotalIsArea
<1>6. f[x] \in Nat /\ g[x] \in Nat
  OBVIOUS
<1>7. QED
  BY <1>1, <1>2, <1>3, <1>4, <1>5, <1>6

\* Each value is a part of the sum.
LEMMA TotalPart ==
  ASSUME NEW S, IsFiniteSet(S), NEW f \in [S -> Nat], NEW x \in S
  PROVE  f[x] <= Total(f)
<1>1. Cardinality(Area(f, S)) = Cardinality(Area(f, S \ {x})) + f[x]
  BY AreaSplit
<1>2. Cardinality(Area(f, S \ {x})) \in Nat
  BY FS_RemoveElement, AreaFinite
<1>3. QED
  BY <1>1, <1>2, TotalIsArea

LEMMA TotalNone ==
  ASSUME NEW S, NEW f, f \in [S -> Nat], \A x \in S : f[x] = 0
  PROVE  Total(f) = 0
<1>1. \A x \in S : Column(f, x) = {}
  BY DEF Column
<1>2. Area(f, S) = {}
  BY <1>1 DEF Area
<1>3. QED
  BY <1>2, TotalIsArea, FS_EmptySet

\* The sum does not depend on the names of the arguments.
Renamed(g, h, S) == [x \in S |-> g[h[x]]]

LEMMA TotalRename ==
  ASSUME NEW S, NEW T, IsFiniteSet(S), NEW g \in [T -> Nat], NEW h \in Bijection(S, T)
  PROVE  Total(Renamed(g, h, S)) = Total(g)
<1> DEFINE f == [x \in S |-> g[h[x]]]
<1>a. h \in [S -> T] /\ \A y \in T : \E x \in S : h[x] = y
  BY DEF Bijection, Surjection
<1>b. \A x, y \in S : h[x] = h[y] => x = y
  BY DEF Bijection, Injection, IsInjective
<1>c. f \in [S -> Nat] /\ \A x \in S : f[x] = g[h[x]]
  BY <1>a
<1> HIDE DEF f
<1> DEFINE A == Area(f, S)
           B == Area(g, T)
           move == [a \in A |-> <<h[a[1]], a[2]>>]
<1>1. \A a : a \in A <=> \E x \in S : \E i \in 1..f[x] : a = <<x, i>>
  BY DEF Area, Column
<1>2. \A a : a \in B <=> \E x \in T : \E i \in 1..g[x] : a = <<x, i>>
  BY DEF Area, Column
<1>3. IsFiniteSet(A)
  BY <1>c, AreaFinite
<1> HIDE DEF A, B
<1>4. move \in [A -> B]
  <2> SUFFICES ASSUME NEW a \in A PROVE <<h[a[1]], a[2]>> \in B
    OBVIOUS
  <2>1. PICK x \in S : \E i \in 1..f[x] : a = <<x, i>>
    BY <1>1
  <2>2. QED
    BY <1>2, <1>a, <1>c, <2>1
<1>5. \A a, c \in A : move[a] = move[c] => a = c
  <2> SUFFICES ASSUME NEW a \in A, NEW c \in A, move[a] = move[c] PROVE a = c
    OBVIOUS
  <2>1. PICK x \in S : \E i \in 1..f[x] : a = <<x, i>>
    BY <1>1
  <2>2. PICK y \in S : \E i \in 1..f[y] : c = <<y, i>>
    BY <1>1
  <2>3. QED
    BY <1>b, <2>1, <2>2
<1>6. \A c \in B : \E a \in A : move[a] = c
  <2> SUFFICES ASSUME NEW c \in B PROVE \E a \in A : move[a] = c
    OBVIOUS
  <2>1. PICK y \in T : \E i \in 1..g[y] : c = <<y, i>>
    BY <1>2
  <2>2. PICK i \in 1..g[y] : c = <<y, i>>
    BY <2>1
  <2>3. PICK x \in S : h[x] = y
    BY <1>a
  <2>4. <<x, i>> \in A
    BY <1>1, <1>c, <2>2, <2>3
  <2>5. move[<<x, i>>] = c
    BY <2>2, <2>3, <2>4
  <2>6. QED
    BY <2>4, <2>5
<1>7. ExistsBijection(A, B)
  <2> HIDE DEF move
  <2>1. move \in Bijection(A, B)
    BY <1>4, <1>5, <1>6 DEF Bijection, Injection, IsInjective, Surjection
  <2>2. QED
    BY <2>1 DEF ExistsBijection
<1>8. Cardinality(A) = Cardinality(B)
  BY <1>3, <1>7, FS_Bijection
<1>9. Total(f) = Total(g)
  BY <1>8, <1>c, TotalIsArea DEF A, B
<1>10. QED
  BY <1>9, Zenon DEF f, Renamed

\* One argument more.
LEMMA TotalOneMore ==
  ASSUME NEW S, IsFiniteSet(S), NEW x, x \notin S, NEW T, T = S \cup {x}, NEW g \in [T -> Nat]
  PROVE  Total(g) = Total([y \in S |-> g[y]]) + g[x]
<1> DEFINE f == [y \in S |-> g[y]]
<1>1. IsFiniteSet(T) /\ T \ {x} = S /\ x \in T
  BY FS_AddElement
<1>2. Cardinality(Area(g, T)) = Cardinality(Area(g, T \ {x})) + g[x]
  BY <1>1, AreaSplit
<1>3. Area(g, S) = Area(f, S)
  BY DEF Area, Column
<1>4. f \in [S -> Nat]
  OBVIOUS
<1> HIDE DEF f
<1>5. Total(f) = Cardinality(Area(f, S)) /\ Total(g) = Cardinality(Area(g, T))
  BY <1>4, TotalIsArea
<1>6. Total(g) = Total(f) + g[x]
  BY <1>1, <1>2, <1>3, <1>5
<1>7. QED
  BY <1>6, Zenon DEF f

\* A cardinality is a sum.
LEMMA TotalOfOnes ==
  ASSUME NEW S, IsFiniteSet(S), NEW f \in [S -> Nat], NEW T \in SUBSET S,
         \A x \in S : f[x] = IF x \in T THEN 1 ELSE 0
  PROVE  Cardinality(T) = Total(f)
<1> DEFINE one == [x \in T |-> <<x, 1>>]
           A == Area(f, S)
<1>1. \A a : a \in A <=> \E x \in S : \E i \in 1..f[x] : a = <<x, i>>
  BY DEF Area, Column
<1> HIDE DEF A
<1>2. \A x \in T : <<x, 1>> \in A
  BY <1>1
<1>3. \A a \in A : \E x \in T : a = <<x, 1>>
  <2> SUFFICES ASSUME NEW a \in A PROVE \E x \in T : a = <<x, 1>>
    OBVIOUS
  <2>1. PICK x \in S : \E i \in 1..f[x] : a = <<x, i>>
    BY <1>1
  <2>2. x \in T
    BY <2>1
  <2>3. QED
    BY <2>1, <2>2
<1>4. one \in Bijection(T, A)
  BY <1>2, <1>3 DEF Bijection, Injection, IsInjective, Surjection
<1>5. IsFiniteSet(T)
  BY FS_Subset
<1>6. Cardinality(T) = Cardinality(A)
  BY <1>4, <1>5, FS_Bijection DEF ExistsBijection
<1>7. QED
  BY <1>6, TotalIsArea DEF A

\* The sum of the weights w of the elements of a sequence.
Sum(s, w) == Total([i \in DOMAIN s |-> w[s[i]]])

LEMMA SumOver ==
  ASSUME NEW E, NEW s \in Seq(E), NEW w \in [E -> Nat]
  PROVE  /\ [i \in DOMAIN s |-> w[s[i]]] \in [1..Len(s) -> Nat]
         /\ IsFiniteSet(1..Len(s)) /\ Len(s) \in Nat
         /\ \A i \in 1..Len(s) : s[i] \in E
         /\ Sum(s, w) \in Nat
<1>1. Len(s) \in Nat /\ DOMAIN s = 1..Len(s) /\ \A i \in 1..Len(s) : s[i] \in E
  OBVIOUS
<1>2. IsFiniteSet(1..Len(s))
  BY <1>1, FS_Interval
<1>3. [i \in DOMAIN s |-> w[s[i]]] \in [1..Len(s) -> Nat]
  BY <1>1
<1>4. Sum(s, w) \in Nat
  BY <1>2, <1>3, TotalType DEF Sum
<1>5. QED
  BY <1>1, <1>2, <1>3, <1>4

LEMMA SumEmpty == ASSUME NEW w PROVE Sum(<<>>, w) = 0
<1> DEFINE f == [i \in DOMAIN <<>> |-> w[<<>>[i]]]
<1>1. f \in [{} -> Nat]
  OBVIOUS
<1>2. \A i \in {} : f[i] = 0
  OBVIOUS
<1> HIDE DEF f
<1>3. Total(f) = 0
  BY <1>1, <1>2, TotalNone
<1>4. QED
  BY <1>3 DEF Sum, f

LEMMA SumAppend ==
  ASSUME NEW E, NEW s \in Seq(E), NEW w \in [E -> Nat], NEW e \in E
  PROVE  Sum(Append(s, e), w) = Sum(s, w) + w[e]
<1> DEFINE S == 1..Len(s)
           x == Len(s) + 1
           t == Append(s, e)
           f == [i \in DOMAIN s |-> w[s[i]]]
           g == [i \in DOMAIN t |-> w[t[i]]]
<1>1. t \in Seq(E) /\ DOMAIN t = 1..x /\ t[x] = e /\ \A i \in S : t[i] = s[i]
  OBVIOUS
<1>2. f \in [S -> Nat] /\ IsFiniteSet(S) /\ Len(s) \in Nat /\ \A i \in S : s[i] \in E
  BY SumOver
<1>3. x \notin S /\ 1..x = S \cup {x}
  BY <1>2
<1>4. g \in [S \cup {x} -> Nat]
  BY <1>1, <1>3
<1>5. \A i \in S : g[i] = f[i]
  <2>1. DOMAIN s = S
    BY <1>2
  <2>2. QED
    BY <1>1, <1>3, <2>1
<1>6. g[x] = w[e]
  BY <1>1, <1>3
<1>7. Sum(s, w) = Total(f) /\ Sum(t, w) = Total(g)
  BY DEF Sum
<1> HIDE DEF S, x, t, f, g
<1>8. f = [i \in S |-> g[i]]
  BY <1>2, <1>5
<1>8a. Total(g) = Total([i \in S |-> g[i]]) + g[x]
  BY <1>2, <1>3, <1>4, TotalOneMore
<1>9. Sum(t, w) = Sum(s, w) + w[e]
  BY <1>6, <1>7, <1>8, <1>8a
<1>10. QED
  BY <1>9, Zenon DEF t

LEMMA RemoveAtElements ==
  ASSUME NEW E, NEW s \in Seq(E), NEW k \in 1..Len(s)
  PROVE  /\ RemoveAt(s, k) \in Seq(E) /\ Len(RemoveAt(s, k)) = Len(s) - 1
         /\ \A i \in 1..(Len(s) - 1) : RemoveAt(s, k)[i] = IF i < k THEN s[i] ELSE s[i + 1]
<1> DEFINE left == SubSeq(s, 1, k - 1)
           right == SubSeq(s, k + 1, Len(s))
<1>1. left \in Seq(E) /\ Len(left) = k - 1 /\ \A i \in 1..(k - 1) : left[i] = s[i]
  OBVIOUS
<1>2. /\ right \in Seq(E) /\ Len(right) = Len(s) - k
      /\ \A i \in 1..(Len(s) - k) : right[i] = s[k + i]
  OBVIOUS
<1> HIDE DEF left, right
<1>3. /\ left \o right \in Seq(E) /\ Len(left \o right) = Len(s) - 1
      /\ \A i \in 1..(Len(s) - 1) :
           (left \o right)[i] = IF i < k THEN left[i] ELSE right[i - k + 1]
  <2>1. /\ left \o right \in Seq(E) /\ Len(left \o right) = Len(left) + Len(right)
        /\ \A i \in 1..(Len(left) + Len(right)) :
             (left \o right)[i] = IF i <= Len(left) THEN left[i] ELSE right[i - Len(left)]
    BY <1>1, <1>2, ConcatProperties
  <2>2. Len(left) = k - 1 /\ Len(left) + Len(right) = Len(s) - 1
    BY <1>1, <1>2
  <2>3. ASSUME NEW i \in 1..(Len(s) - 1)
        PROVE  (left \o right)[i] = IF i < k THEN left[i] ELSE right[i - k + 1]
    <3>1. (left \o right)[i] = IF i <= Len(left) THEN left[i] ELSE right[i - Len(left)]
      BY <2>1, <2>2
    <3>2. (i <= Len(left) <=> i < k) /\ i - Len(left) = i - k + 1
      BY <2>2
    <3>3. QED
      BY <3>1, <3>2
  <2>4. QED
    BY <2>1, <2>2, <2>3
<1>4. \A i \in 1..(Len(s) - 1) :
           (left \o right)[i] = IF i < k THEN s[i] ELSE s[i + 1]
  <2> SUFFICES ASSUME NEW i \in 1..(Len(s) - 1)
               PROVE  (left \o right)[i] = IF i < k THEN s[i] ELSE s[i + 1]
    OBVIOUS
  <2>1. CASE i < k
    BY <1>1, <1>3, <2>1
  <2>2. CASE ~(i < k)
    <3>1. i - k + 1 \in 1..(Len(s) - k) /\ k + (i - k + 1) = i + 1
      BY <2>2
    <3>2. right[i - k + 1] = s[k + (i - k + 1)]
      BY <1>2, <3>1
    <3>3. QED
      BY <1>3, <2>2, <3>1, <3>2
  <2>3. QED
    BY <2>1, <2>2
<1>5. RemoveAt(s, k) = left \o right
  BY Zenon DEF RemoveAt, left, right
<1>6. QED
  BY <1>3, <1>4, <1>5

\* Without its k-th element.
LEMMA SumRemoveAt ==
  ASSUME NEW E, NEW s \in Seq(E), NEW w \in [E -> Nat], NEW k \in 1..Len(s)
  PROVE  Sum(s, w) = Sum(RemoveAt(s, k), w) + w[s[k]]
<1> DEFINE n == Len(s)
           t == RemoveAt(s, k)
           S == 1..(n - 1)
           T == (1..n) \ {k}
           f == [i \in DOMAIN s |-> w[s[i]]]
           g == [i \in DOMAIN t |-> w[t[i]]]
           r == [i \in T |-> f[i]]
           h == [i \in S |-> IF i < k THEN i ELSE i + 1]
<1>1. /\ t \in Seq(E) /\ Len(t) = n - 1
      /\ \A i \in S : t[i] = IF i < k THEN s[i] ELSE s[i + 1]
  BY RemoveAtElements
<1>2. /\ f \in [1..n -> Nat] /\ n \in Nat /\ k \in Nat /\ 1 <= k /\ k <= n
      /\ \A i \in 1..n : s[i] \in E /\ f[i] = w[s[i]]
  BY SumOver
<1>3. g \in [S -> Nat] /\ IsFiniteSet(S) /\ \A i \in S : g[i] = w[t[i]]
  <2>1. g \in [1..Len(t) -> Nat] /\ IsFiniteSet(1..Len(t))
    BY <1>1, SumOver
  <2>2. QED
    BY <1>1, <2>1
<1>4. Sum(s, w) = Total(f) /\ Sum(t, w) = Total(g)
  BY DEF Sum
<1> HIDE DEF t, f, g
<1>5. r \in [T -> Nat] /\ \A i \in T : r[i] = f[i]
  BY <1>2
<1>6. IsFiniteSet(T) /\ k \notin T /\ T \cup {k} = 1..n
  <2>1. IsFiniteSet(1..n)
    BY <1>2, FS_Interval
  <2>2. IsFiniteSet(T)
    BY <2>1, FS_RemoveElement
  <2>3. QED
    BY <1>2, <2>2
<1> HIDE DEF r
<1>7. Total(f) = Total(r) + f[k]
  <2>1. Total(f) = Total([i \in T |-> f[i]]) + f[k]
    <3> DEFINE U == 1..n
    <3>1. U = T \cup {k} /\ f \in [U -> Nat] /\ IsFiniteSet(T) /\ k \notin T
      BY <1>2, <1>6
    <3> HIDE DEF T, U
    <3>2. QED
      BY <3>1, TotalOneMore
  <2>2. r = [i \in T |-> f[i]]
    BY DEF r
  <2>3. QED
    BY <2>1, <2>2
<1>8. h \in [S -> T] /\ \A i, j \in S : h[i] = h[j] => i = j
  BY <1>2
<1>9. \A j \in T : \E i \in S : h[i] = j
  <2> SUFFICES ASSUME NEW j \in T PROVE \E i \in S : h[i] = j
    OBVIOUS
  <2>1. CASE j < k
    <3>1. j \in S /\ h[j] = j
      BY <1>2, <2>1
    <3>2. QED
      BY <3>1
  <2>2. CASE ~(j < k)
    <3>1. j - 1 \in S /\ h[j - 1] = j
      BY <1>2, <2>2
    <3>2. QED
      BY <3>1
  <2>3. QED
    BY <2>1, <2>2
<1>10. \A i \in S : g[i] = r[h[i]]
  <2> SUFFICES ASSUME NEW i \in S PROVE g[i] = r[h[i]]
    OBVIOUS
  <2>1. h[i] \in T /\ h[i] \in 1..n
    BY <1>8
  <2>2. r[h[i]] = w[s[h[i]]]
    BY <1>2, <1>5, <2>1
  <2>3. t[i] = s[h[i]]
    BY <1>1
  <2>4. QED
    BY <1>3, <2>2, <2>3
<1> HIDE DEF h, S, T
<1>11. Total(g) = Total(r)
  <2>1. h \in Bijection(S, T)
    BY <1>8, <1>9 DEF Bijection, Injection, IsInjective, Surjection
  <2>2. Total(Renamed(r, h, S)) = Total(r)
    <3>1. IsFiniteSet(S) /\ r \in [T -> Nat]
      BY <1>3, <1>5
    <3>2. QED
      BY <2>1, <3>1, TotalRename
  <2>3. g = Renamed(r, h, S)
    BY <1>3, <1>10 DEF Renamed
  <2>4. QED
    BY <2>2, <2>3
<1>12. Sum(s, w) = Sum(t, w) + w[s[k]]
  BY <1>2, <1>4, <1>7, <1>11
<1>13. QED
  BY <1>12, Zenon DEF t

LEMMA SumTail ==
  ASSUME NEW E, NEW s \in Seq(E), NEW w \in [E -> Nat], s # <<>>
  PROVE  Sum(s, w) = Sum(Tail(s), w) + w[Head(s)]
<1>1. 1 \in 1..Len(s) /\ Head(s) = s[1] /\ Tail(s) \in Seq(E) /\ Len(Tail(s)) = Len(s) - 1
  OBVIOUS
<1>2. /\ RemoveAt(s, 1) \in Seq(E) /\ Len(RemoveAt(s, 1)) = Len(s) - 1
      /\ \A i \in 1..(Len(s) - 1) : RemoveAt(s, 1)[i] = IF i < 1 THEN s[i] ELSE s[i + 1]
  BY <1>1, RemoveAtElements
<1>3. \A i \in 1..(Len(s) - 1) : RemoveAt(s, 1)[i] = Tail(s)[i]
  <2>1. \A i \in 1..(Len(s) - 1) : Tail(s)[i] = s[i + 1]
    BY <1>1
  <2>2. QED
    BY <1>2, <2>1
<1>4. RemoveAt(s, 1) = Tail(s)
  BY <1>1, <1>2, <1>3
<1>5. QED
  BY <1>1, <1>4, SumRemoveAt

\* No element has weight unless the sum has.
LEMMA SumPart ==
  ASSUME NEW E, NEW s \in Seq(E), NEW w \in [E -> Nat], NEW k \in 1..Len(s)
  PROVE  w[s[k]] <= Sum(s, w)
<1> DEFINE f == [i \in DOMAIN s |-> w[s[i]]]
<1>1. f \in [1..Len(s) -> Nat] /\ IsFiniteSet(1..Len(s)) /\ f[k] = w[s[k]]
  BY SumOver
<1> HIDE DEF f
<1>2. f[k] <= Total(f)
  BY <1>1, TotalPart
<1>3. QED
  BY <1>1, <1>2 DEF Sum, f

\* How many elements are in T.
LEMMA SumOfOnes ==
  ASSUME NEW E, NEW s \in Seq(E), NEW w \in [E -> Nat], NEW T \in SUBSET (1..Len(s)),
         \A i \in 1..Len(s) : w[s[i]] = IF i \in T THEN 1 ELSE 0
  PROVE  Cardinality(T) = Sum(s, w)
<1> DEFINE f == [i \in DOMAIN s |-> w[s[i]]]
<1>1. f \in [1..Len(s) -> Nat] /\ IsFiniteSet(1..Len(s)) /\ \A i \in 1..Len(s) : f[i] = w[s[i]]
  BY SumOver
<1> HIDE DEF f
<1>1a. \A i \in 1..Len(s) : f[i] = IF i \in T THEN 1 ELSE 0
  BY <1>1
<1>2. Cardinality(T) = Total(f)
  BY <1>1, <1>1a, TotalOfOnes, Zenon
<1>3. QED
  BY <1>2 DEF Sum, f

-----------------------------------------------------------------------------
(* Copies in queues.                                                       *)
\* How many increments in a node's queue are of batch b.
Increments(queue, b) == Cardinality({i \in DOMAIN queue : queue[i].batch = b})

\* What the increments in the master's queue count of b for m.
Pending(queue, m, b) ==
  Total([i \in DOMAIN queue |-> IF queue[i].model = m THEN queue[i].n_wt[b] ELSE 0])

NodeIncrement == [batch : Batch, model : Model]

OfBatch(b) == [x \in Batch |-> One(x = b)]
OfIncrement(b) == [x \in NodeIncrement |-> One(x.batch = b)]
OfModel(m, b) == [x \in Increment |-> IF x.model = m THEN x.n_wt[b] ELSE 0]

LEMMA OneIsNat == \A p \in BOOLEAN : One(p) \in Nat
BY DEF One

LEMMA WeightOK ==
  ASSUME NEW b \in Batch, NEW m \in Model
  PROVE  OfModel(m, b) \in [Increment -> Nat]
<1>1. \A x \in Increment : x.n_wt[b] \in Nat
  BY DEF Increment, Counts
<1>2. QED
  BY <1>1 DEF OfModel

LEMMA OccurrencesAreSum ==
  ASSUME NEW s \in Seq(Batch), NEW b \in Batch
  PROVE  Occurrences(s, b) = Sum(s, OfBatch(b))
<1> DEFINE T == {i \in DOMAIN s : s[i] = b}
<1>1. DOMAIN s = 1..Len(s) /\ \A i \in 1..Len(s) : s[i] \in Batch
  OBVIOUS
<1>2. T \in SUBSET (1..Len(s))
  BY <1>1
<1>3. \A i \in 1..Len(s) : OfBatch(b)[s[i]] = IF i \in T THEN 1 ELSE 0
  BY <1>1 DEF OfBatch, One
<1>3a. OfBatch(b) \in [Batch -> Nat]
  BY DEF OfBatch, One
<1> HIDE DEF T
<1>4. Cardinality(T) = Sum(s, OfBatch(b))
  BY <1>2, <1>3, <1>3a, SumOfOnes
<1>5. QED
  BY <1>4, Zenon DEF T, Occurrences

LEMMA IncrementsAreSum ==
  ASSUME NEW s \in Seq(NodeIncrement), NEW b \in Batch
  PROVE  Increments(s, b) = Sum(s, OfIncrement(b))
<1> DEFINE T == {i \in DOMAIN s : s[i].batch = b}
<1>1. DOMAIN s = 1..Len(s) /\ \A i \in 1..Len(s) : s[i] \in NodeIncrement
  OBVIOUS
<1>2. T \in SUBSET (1..Len(s))
  BY <1>1
<1>3. \A i \in 1..Len(s) : OfIncrement(b)[s[i]] = IF i \in T THEN 1 ELSE 0
  BY <1>1 DEF OfIncrement, One
<1>3a. OfIncrement(b) \in [NodeIncrement -> Nat]
  BY DEF OfIncrement, One
<1> HIDE DEF T
<1>4. Cardinality(T) = Sum(s, OfIncrement(b))
  BY <1>2, <1>3, <1>3a, SumOfOnes
<1>5. QED
  BY <1>4, Zenon DEF T, Increments

LEMMA PendingIsSum ==
  ASSUME NEW s \in Seq(Increment), NEW m \in Model, NEW b \in Batch
  PROVE  Pending(s, m, b) = Sum(s, OfModel(m, b))
<1> DEFINE f == [i \in DOMAIN s |-> IF s[i].model = m THEN s[i].n_wt[b] ELSE 0]
           g == [i \in DOMAIN s |-> OfModel(m, b)[s[i]]]
<1>1. \A i \in DOMAIN s : s[i] \in Increment
  OBVIOUS
<1>2. f = g
  BY <1>1 DEF OfModel
<1> HIDE DEF f, g
<1>3. Total(f) = Total(g)
  BY <1>2
<1>4. QED
  BY <1>3, Zenon DEF f, g, Pending, Sum

LEMMA OccursAppend ==
  ASSUME NEW s \in Seq(Batch), NEW e \in Batch, NEW b \in Batch
  PROVE  /\ Occurrences(s, b) \in Nat
         /\ Occurrences(Append(s, e), b) = Occurrences(s, b) + One(e = b)
<1>1. OfBatch(b) \in [Batch -> Nat] /\ OfBatch(b)[e] = One(e = b)
  BY DEF OfBatch, One
<1>2. Sum(Append(s, e), OfBatch(b)) = Sum(s, OfBatch(b)) + OfBatch(b)[e]
  BY <1>1, SumAppend
<1>3. Sum(s, OfBatch(b)) \in Nat
  BY <1>1, SumOver
<1>4. Append(s, e) \in Seq(Batch)
  BY PushOne
<1>5. QED
  BY <1>1, <1>2, <1>3, <1>4, OccurrencesAreSum

LEMMA OccursTail ==
  ASSUME NEW s \in Seq(Batch), s # <<>>, NEW b \in Batch
  PROVE  Occurrences(s, b) = Occurrences(Tail(s), b) + One(Head(s) = b)
<1>1. Head(s) \in Batch /\ Tail(s) \in Seq(Batch)
  BY PopOne
<1>2. OfBatch(b) \in [Batch -> Nat] /\ OfBatch(b)[Head(s)] = One(Head(s) = b)
  BY <1>1 DEF OfBatch, One
<1>3. Sum(s, OfBatch(b)) = Sum(Tail(s), OfBatch(b)) + OfBatch(b)[Head(s)]
  BY <1>2, SumTail
<1>4. QED
  BY <1>1, <1>2, <1>3, OccurrencesAreSum

LEMMA OccursRemoveAt ==
  ASSUME NEW s \in Seq(Batch), NEW k \in 1..Len(s), NEW b \in Batch
  PROVE  Occurrences(s, b) = Occurrences(RemoveAt(s, k), b) + One(s[k] = b)
<1>1. s[k] \in Batch /\ RemoveAt(s, k) \in Seq(Batch)
  BY RemoveAtElements
<1>2. OfBatch(b) \in [Batch -> Nat] /\ OfBatch(b)[s[k]] = One(s[k] = b)
  BY <1>1 DEF OfBatch, One
<1>3. Sum(s, OfBatch(b)) = Sum(RemoveAt(s, k), OfBatch(b)) + OfBatch(b)[s[k]]
  BY <1>2, SumRemoveAt
<1>4. QED
  BY <1>1, <1>2, <1>3, OccurrencesAreSum

LEMMA OccursNone ==
  ASSUME NEW b \in Batch
  PROVE  Occurrences(<<>>, b) = 0
<1>1. <<>> \in Seq(Batch)
  OBVIOUS
<1>2. QED
  BY <1>1, OccurrencesAreSum, SumEmpty

LEMMA IncrementsAppend ==
  ASSUME NEW s \in Seq(NodeIncrement), NEW e \in NodeIncrement, NEW b \in Batch
  PROVE  /\ Increments(s, b) \in Nat
         /\ Increments(Append(s, e), b) = Increments(s, b) + One(e.batch = b)
<1>1. OfIncrement(b) \in [NodeIncrement -> Nat] /\ OfIncrement(b)[e] = One(e.batch = b)
  BY DEF OfIncrement, One
<1>2. Sum(Append(s, e), OfIncrement(b)) = Sum(s, OfIncrement(b)) + OfIncrement(b)[e]
  BY <1>1, SumAppend
<1>3. Sum(s, OfIncrement(b)) \in Nat
  BY <1>1, SumOver
<1>4. Append(s, e) \in Seq(NodeIncrement)
  BY PushOne
<1>5. QED
  BY <1>1, <1>2, <1>3, <1>4, IncrementsAreSum

LEMMA IncrementsTail ==
  ASSUME NEW s \in Seq(NodeIncrement), s # <<>>, NEW b \in Batch
  PROVE  Increments(s, b) = Increments(Tail(s), b) + One(Head(s).batch = b)
<1>1. Head(s) \in NodeIncrement /\ Tail(s) \in Seq(NodeIncrement)
  BY PopOne
<1>2. /\ OfIncrement(b) \in [NodeIncrement -> Nat]
      /\ OfIncrement(b)[Head(s)] = One(Head(s).batch = b)
  BY <1>1 DEF OfIncrement, One
<1>3. Sum(s, OfIncrement(b)) = Sum(Tail(s), OfIncrement(b)) + OfIncrement(b)[Head(s)]
  BY <1>2, SumTail
<1>4. QED
  BY <1>1, <1>2, <1>3, IncrementsAreSum

LEMMA IncrementsNone ==
  ASSUME NEW b \in Batch
  PROVE  Increments(<<>>, b) = 0
<1>1. <<>> \in Seq(NodeIncrement)
  OBVIOUS
<1>2. QED
  BY <1>1, IncrementsAreSum, SumEmpty

LEMMA PendingAppend ==
  ASSUME NEW s \in Seq(Increment), NEW e \in Increment, NEW m \in Model, NEW b \in Batch
  PROVE  /\ Pending(s, m, b) \in Nat
         /\ Pending(Append(s, e), m, b) =
              Pending(s, m, b) + (IF e.model = m THEN e.n_wt[b] ELSE 0)
<1>1. /\ OfModel(m, b) \in [Increment -> Nat]
      /\ OfModel(m, b)[e] = IF e.model = m THEN e.n_wt[b] ELSE 0
  BY WeightOK DEF OfModel
<1>2. Sum(Append(s, e), OfModel(m, b)) = Sum(s, OfModel(m, b)) + OfModel(m, b)[e]
  BY <1>1, SumAppend
<1>3. Sum(s, OfModel(m, b)) \in Nat
  BY <1>1, SumOver
<1>4. Append(s, e) \in Seq(Increment)
  BY PushOne
<1>5. QED
  BY <1>1, <1>2, <1>3, <1>4, PendingIsSum

LEMMA PendingTail ==
  ASSUME NEW s \in Seq(Increment), s # <<>>, NEW m \in Model, NEW b \in Batch
  PROVE  Pending(s, m, b) =
           Pending(Tail(s), m, b) + (IF Head(s).model = m THEN Head(s).n_wt[b] ELSE 0)
<1>1. Head(s) \in Increment /\ Tail(s) \in Seq(Increment)
  BY PopOne
<1>2. /\ OfModel(m, b) \in [Increment -> Nat]
      /\ OfModel(m, b)[Head(s)] = IF Head(s).model = m THEN Head(s).n_wt[b] ELSE 0
  BY <1>1, WeightOK DEF OfModel
<1>3. Sum(s, OfModel(m, b)) = Sum(Tail(s), OfModel(m, b)) + OfModel(m, b)[Head(s)]
  BY <1>2, SumTail
<1>4. QED
  BY <1>1, <1>2, <1>3, PendingIsSum

LEMMA PendingNone ==
  ASSUME NEW m \in Model, NEW b \in Batch
  PROVE  Pending(<<>>, m, b) = 0
<1>1. <<>> \in Seq(Increment)
  OBVIOUS
<1>2. QED
  BY <1>1, PendingIsSum, SumEmpty

-----------------------------------------------------------------------------
(* Counting.                                                               *)
\* Batch manager and Accounted tell no models apart.
OneModel == \A m, k \in Model : m = k

\* Models are created only after WaitIdle.
QuietCreation == "CreateModel" \in Calls => "CreateModel" \in QuietCalls

\* Copies of b that a node in state s has taken, and those of them that it has not
\* reported; how often its increment of m counts b.
TakenIn(s, b) ==
  Occurrences(s.batches, b) + Occurrences(s.processor_queue, b)
    + One(s.batch = b /\ s.todo # {}) + Increments(s.merger_queue, b)

HeldIn(s, b) == TakenIn(s, b) + One(s.reported = b)

IncIn(s, m, b) == IF s.topic_model_inc[m] = Nil THEN 0 ELSE s.topic_model_inc[m][b]

Held(n, b) == HeldIn(node[n], b)

Present(m) == schema[m] # "absent"

\* Node n has taken nothing that it has not reported; it has no increments.
Idle(n) == \A b \in Batch : Held(n, b) = 0
Dry(n) == \A m \in Model : node[n].topic_model_inc[m] = Nil

MasterDry == \A m \in Model : topic_model_inc[m] = Nil

\* What a node's merger and a node without an instance have.
HolderInv(n) ==
  /\ node[n].reported # Nil <=> node[n].merger = "report"
  /\ node[n].merger = "push" /\ node[n].up =>
       \A m \in Model \ node[n].models : node[n].topic_model_inc[m] = Nil
  /\ ~node[n].instance => Dry(n)
  /\ n \notin clients => ~node[n].instance

SchemaInv ==
  /\ \A m \in Model : schema[m] # "disabled"
  /\ \A m \in Model : Present(m) => topic_model[m] # Nil
  /\ \A m \in Model : ~Present(m) => in_progress[m] = {}
  /\ api.pc \in {"create", "configure"} => api.nodes \subseteq clients
  /\ api.pc = "dispose" => ~Present(api.model)

\* When WaitIdle has returned true nothing is on its way.
QuietInv ==
  /\ api.pc \in {"create", "dispose"} => quiet
  /\ api.pc = "add" => ~quiet
  /\ quiet =>
       /\ tasks = <<>> /\ merger_queue = <<>> /\ merger.pc # "merge" /\ MasterDry
       /\ \A n \in Nodes : Idle(n) /\ Dry(n)
       /\ \A m \in Model : due[m] = NoCounts /\ in_progress[m] = {}

\* A batch is out at most once, and then marked.
MarkInv ==
  \A m \in Model : Present(m) \/ quiet =>
    \A n \in Nodes, b \in Batch :
      /\ Held(n, b) <= One(b \in in_progress[m])
      /\ \A k \in Nodes \ {n} : Held(n, b) = 0 \/ Held(k, b) = 0

\* The master has merged what was pushed; it has pulled it into its models.
Merged ==
  (api.pc = "wait.forced" /\ sync) \/ api.pc \in {"wait.pulled", "wait.nodes", "wait.done"}

Published == (api.pc = "wait.pulled" /\ sync) \/ api.pc \in {"wait.nodes", "wait.done"}

\* How far WaitIdle has emptied nodes and master.
DrainInv ==
  (\E m \in Model : Present(m)) =>
    /\ api.pc \in {"wait.push", "wait.idle", "wait.queue", "wait.forced", "wait.pulled",
                   "wait.nodes", "wait.done"} =>
         IsEverythingProcessed /\ \A n \in Nodes : Idle(n)
    /\ api.pc = "wait.push" => \A n \in Nodes : Dry(n) \/ n \in api.nodes
    /\ api.pc = "wait.push" /\ api.called /\ sync => Dry(NextNode)
    /\ api.pc \in {"wait.idle", "wait.queue", "wait.forced", "wait.pulled", "wait.nodes",
                   "wait.done"} => \A n \in Nodes : Dry(n)
    /\ api.pc \in {"wait.forced", "wait.pulled", "wait.nodes", "wait.done"} => merger_queue = <<>>
    /\ Merged => merger.pc # "merge"
    /\ Published => MasterDry

FlowInv ==
  /\ \A n \in Nodes : HolderInv(n)
  /\ SchemaInv /\ QuietInv /\ MarkInv /\ DrainInv

\* Nothing is lost: no node comes back empty or is connected without the model, and no
\* pull meets an increment.
Steady ==
  /\ QuietCreation
  /\ MayRestart = {} /\ "Reconfigure" \notin Calls
  /\ {"InvokePhiRegularizers", "OverwriteTopicModel"} \cap Calls \subseteq QuietCalls

\* Where the model is, and what a task that disposes of it finds.
NoDispose(queue) == \A i \in 1..Len(queue) : queue[i].type # "kDisposeModel"

CallSteady ==
  /\ api.pc \notin {"connect", "disconnect", "configure"}
  /\ api.pc = "refresh" => quiet

NodesSteady ==
  /\ \A n \in clients : node[n].instance
  /\ \A n \in Nodes, m \in Model :
       Present(m) /\ node[n].instance =>
         node[n].topic_model[m] # Nil \/ (api.pc = "create" /\ n \in api.nodes)
  /\ \A n \in Nodes : NoDispose(node[n].tasks) \/ Dry(n)

MasterSteady == NoDispose(internal_task_queue) \/ (MasterDry /\ merger.pc # "merge")

SteadyInv == CallSteady /\ NodesSteady /\ MasterSteady

ExactInv ==
  api.pc \notin Pulling \/ (api.pc = "wait.pulled" /\ ~sync) =>
    \A m \in EnabledModels, b \in Batch : due[m][b] = Accounted(m, b)

PublishedInv ==
  Published =>
    \A m \in EnabledModels :
      (\E b \in Batch : due[m][b] > 0) => topic_model[m].n_wt = due[m]

-----------------------------------------------------------------------------
(* Copies on a node.                                                       *)
\* What a step of the loader or of the processor leaves alone.
Beside(n) ==
  /\ node'[n].reported = node[n].reported
  /\ node'[n].topic_model_inc = node[n].topic_model_inc
  /\ node'[n].topic_model = node[n].topic_model
  /\ node'[n].instance = node[n].instance /\ (node'[n].up => node[n].up)
  /\ node'[n].merger = node[n].merger /\ node'[n].models = node[n].models
  /\ node'[n].tasks = node[n].tasks

LEMMA TakenInType ==
  ASSUME NEW s \in NodeState, NEW b \in Batch
  PROVE  /\ TakenIn(s, b) \in Nat
         /\ Occurrences(s.batches, b) \in Nat /\ Occurrences(s.processor_queue, b) \in Nat
         /\ Increments(s.merger_queue, b) \in Nat
<1>1. /\ s.batches \in Seq(Batch) /\ s.processor_queue \in Seq(Batch)
      /\ s.merger_queue \in Seq(NodeIncrement)
  BY DEF NodeState, NodeIncrement
<1>2. /\ Occurrences(s.batches, b) \in Nat /\ Occurrences(s.processor_queue, b) \in Nat
  BY <1>1, OccursAppend
<1>3. Increments(s.merger_queue, b) \in Nat
  <2>1. OfIncrement(b) \in [NodeIncrement -> Nat]
    BY DEF OfIncrement, One
  <2>2. QED
    BY <1>1, <2>1, IncrementsAreSum, SumOver
<1>4. One(s.batch = b /\ s.todo # {}) \in Nat
  BY DEF One
<1>5. QED
  BY <1>2, <1>3, <1>4 DEF TakenIn

LEMMA TakenOf == \A n, b : Taken(n, b) = TakenIn(node[n], b)
BY DEF Taken, TakenIn, Increments

LEMMA BesideOK ==
  ASSUME node \in [Nodes -> NodeState], NEW n \in Nodes,
         \/ LoaderThread(n) \/ ProcessorThread(n)
         \/ RequestBatches(n) \/ RequestBatchesReply(n)
  PROVE  Beside(n)
<1>0. node[n] \in NodeState
  OBVIOUS
<1>1. CASE LoaderRequest(n)
  BY <1>0, <1>1 DEF LoaderRequest, Beside, NodeState
<1>2. CASE LoaderPush(n)
  BY <1>0, <1>2 DEF LoaderPush, Beside, NodeState
<1>3. CASE LoaderFatal(n)
  BY <1>0, <1>3 DEF LoaderFatal, Beside, NodeState
<1>4. CASE LoaderAgain(n)
  BY <1>0, <1>4 DEF LoaderAgain, Beside, NodeState
<1>5. CASE ProcessorPop(n)
  BY <1>0, <1>5 DEF ProcessorPop, Beside, NodeState
<1>6. CASE ProcessorPush(n)
  BY <1>0, <1>6 DEF ProcessorPush, Beside, NodeState
<1>7. CASE ProcessorDone(n)
  BY <1>0, <1>7 DEF ProcessorDone, Beside, NodeState
<1>8. CASE RequestBatches(n)
  BY <1>0, <1>8 DEF RequestBatches, Beside, NodeState
<1>9. CASE RequestBatchesReply(n)
  BY <1>0, <1>9 DEF RequestBatchesReply, Beside, NodeState
<1>10. QED
  BY <1>1, <1>2, <1>3, <1>4, <1>5, <1>6, <1>7, <1>8, <1>9 DEF LoaderThread, ProcessorThread

LEMMA LoaderCounts ==
  ASSUME node \in [Nodes -> NodeState], NEW n \in Nodes, LoaderThread(n), NEW b \in Batch
  PROVE  TakenIn(node'[n], b) = TakenIn(node[n], b)
<1>0. node[n] \in NodeState /\ node[n].batches \in Seq(Batch) /\ node[n].processor_queue \in Seq(Batch)
  BY DEF NodeState
<1>1. CASE LoaderRequest(n)
  BY <1>0, <1>1 DEF LoaderRequest, TakenIn, NodeState
<1>2. CASE LoaderPush(n)
  <2> DEFINE one == Head(node[n].batches)
  <2>1. /\ node'[n].batches = Tail(node[n].batches)
        /\ node'[n].processor_queue = Append(node[n].processor_queue, one)
        /\ node'[n].batch = node[n].batch /\ node'[n].todo = node[n].todo
        /\ node'[n].merger_queue = node[n].merger_queue
        /\ node[n].batches # <<>>
    BY <1>0, <1>2 DEF LoaderPush, NodeState
  <2>2. one \in Batch
    BY <1>0, <2>1, PopOne
  <2> HIDE DEF one
  <2>3. Occurrences(node'[n].batches, b) + One(one = b) = Occurrences(node[n].batches, b)
    <3>1. Tail(node[n].batches) \in Seq(Batch)
      BY <1>0, <2>1, PopOne
    <3>2. Occurrences(Tail(node[n].batches), b) \in Nat
      BY <2>2, <3>1, OccursAppend
    <3>3. QED
      BY <1>0, <2>1, <3>2, OccursTail, OneIsNat DEF one
  <2>4. /\ Occurrences(node[n].processor_queue, b) \in Nat
        /\ Occurrences(node'[n].processor_queue, b)
             = Occurrences(node[n].processor_queue, b) + One(one = b)
    BY <1>0, <2>1, <2>2, OccursAppend
  <2>5. Occurrences(node'[n].batches, b) \in Nat /\ One(one = b) \in Nat
    <3>1. node'[n].batches \in Seq(Batch)
      BY <1>0, <2>1, PopOne
    <3>2. QED
      BY <2>2, <3>1, OccursAppend DEF One
  <2>6. /\ Increments(node[n].merger_queue, b) \in Nat
        /\ One(node[n].batch = b /\ node[n].todo # {}) \in Nat
    BY <1>0, TakenInType DEF One
  <2>7. QED
    BY <2>1, <2>3, <2>4, <2>5, <2>6 DEF TakenIn
<1>3. CASE LoaderFatal(n)
  BY <1>0, <1>3 DEF LoaderFatal, TakenIn, NodeState
<1>4. CASE LoaderAgain(n)
  BY <1>0, <1>4 DEF LoaderAgain, TakenIn, NodeState
<1>5. QED
  BY <1>1, <1>2, <1>3, <1>4 DEF LoaderThread

LEMMA ProcessorCounts ==
  ASSUME node \in [Nodes -> NodeState], NEW n \in Nodes, ProcessorThread(n), NodeInv(n),
         OneModel, NEW b \in Batch
  PROVE  /\ TakenIn(node'[n], b) <= TakenIn(node[n], b) /\ TakenIn(node'[n], b) \in Nat
         /\ (\E m \in Model : node[n].topic_model[m] # Nil) \/ ~ProcessorPop(n) =>
              TakenIn(node'[n], b) = TakenIn(node[n], b)
<1>0. /\ node[n] \in NodeState /\ node[n].batches \in Seq(Batch)
      /\ node[n].processor_queue \in Seq(Batch) /\ node[n].merger_queue \in Seq(NodeIncrement)
      /\ node[n].todo \in SUBSET Model
  BY DEF NodeState, NodeIncrement
<1>a. /\ TakenIn(node[n], b) \in Nat
      /\ Occurrences(node[n].batches, b) \in Nat /\ Occurrences(node[n].processor_queue, b) \in Nat
      /\ Increments(node[n].merger_queue, b) \in Nat
  BY <1>0, TakenInType
<1>b. One(TRUE) = 1 /\ One(FALSE) = 0
  BY DEF One
<1>1. CASE ProcessorPop(n)
  <2> DEFINE one == Head(node[n].processor_queue)
             todo == {m \in Model : node[n].topic_model[m] # Nil}
  <2>1. /\ node'[n].batches = node[n].batches
        /\ node'[n].processor_queue = Tail(node[n].processor_queue)
        /\ node'[n].batch = one /\ node'[n].todo = todo
        /\ node'[n].merger_queue = node[n].merger_queue
        /\ node[n].processor_queue # <<>> /\ node[n].batch = Nil
    BY <1>0, <1>1 DEF ProcessorPop, NodeState
  <2>2. todo # {} <=> \E m \in Model : node[n].topic_model[m] # Nil
    OBVIOUS
  <2> HIDE DEF one, todo
  <2>3. one \in Batch /\ Tail(node[n].processor_queue) \in Seq(Batch)
    BY <1>0, <2>1, PopOne DEF one
  <2>4. One(node[n].batch = b /\ node[n].todo # {}) = 0
    BY <2>1, ModelAssumption, BatchAssumption, NilAssumption DEF One
  <2>5. Occurrences(node[n].processor_queue, b)
          = Occurrences(node'[n].processor_queue, b) + One(one = b)
    BY <1>0, <2>1, OccursTail DEF one
  <2>6. Occurrences(node'[n].processor_queue, b) \in Nat
    BY <2>1, <2>3, OccursAppend
  <2>7. /\ One(one = b /\ todo # {}) \in Nat /\ One(one = b) \in Nat
        /\ One(one = b /\ todo # {}) <= One(one = b)
        /\ todo # {} => One(one = b /\ todo # {}) = One(one = b)
    BY DEF One
  <2>8. TakenIn(node'[n], b) = Occurrences(node[n].batches, b)
          + Occurrences(node'[n].processor_queue, b) + One(one = b /\ todo # {})
          + Increments(node[n].merger_queue, b)
    BY <2>1 DEF TakenIn
  <2>9. TakenIn(node[n], b) = Occurrences(node[n].batches, b)
          + Occurrences(node'[n].processor_queue, b) + One(one = b)
          + Increments(node[n].merger_queue, b)
    BY <1>a, <2>4, <2>5, <2>6, <2>7 DEF TakenIn
  <2>10. QED
    BY <1>1, <1>a, <2>1, <2>2, <2>6, <2>7, <2>8, <2>9
<1>2. CASE ProcessorPush(n)
  <2> DEFINE m == Min(node[n].todo)
             e == [batch |-> node[n].batch, model |-> m]
  <2>0. node[n].todo # {}
    BY <1>2 DEF ProcessorPush
  <2>1. m \in node[n].todo /\ m \in Model
    BY <1>0, <2>0, MinIsIn, ModelAssumption
  <2>2. node[n].todo = {m}
    BY <1>0, <2>1 DEF OneModel
  <2>3. node[n].batch \in Batch
    BY <1>0, <2>0 DEF NodeInv, NodeState
  <2>4. /\ node'[n].batches = node[n].batches
        /\ node'[n].processor_queue = node[n].processor_queue
        /\ node'[n].batch = node[n].batch /\ node'[n].todo = node[n].todo \ {m}
        /\ node'[n].merger_queue = Append(node[n].merger_queue, e)
    BY <1>0, <1>2 DEF ProcessorPush, NodeState
  <2>5. e \in NodeIncrement /\ e.batch = node[n].batch
    BY <2>1, <2>3 DEF NodeIncrement
  <2> HIDE DEF e, m
  <2>6. node'[n].todo = {}
    BY <2>2, <2>4
  <2>7. Increments(node'[n].merger_queue, b)
          = Increments(node[n].merger_queue, b) + One(node[n].batch = b)
    BY <1>0, <2>4, <2>5, IncrementsAppend
  <2>8. /\ One(node[n].batch = b /\ node[n].todo # {}) = One(node[n].batch = b)
        /\ One(node[n].batch = b) \in Nat
        /\ One(node'[n].batch = b /\ node'[n].todo # {}) = 0
    BY <2>0, <2>6 DEF One
  <2>9. TakenIn(node'[n], b) = Occurrences(node[n].batches, b)
          + Occurrences(node[n].processor_queue, b) + 0
          + (Increments(node[n].merger_queue, b) + One(node[n].batch = b))
    BY <2>4, <2>7, <2>8 DEF TakenIn
  <2>10. TakenIn(node[n], b) = Occurrences(node[n].batches, b)
          + Occurrences(node[n].processor_queue, b) + One(node[n].batch = b)
          + Increments(node[n].merger_queue, b)
    BY <2>8 DEF TakenIn
  <2>11. TakenIn(node'[n], b) = TakenIn(node[n], b)
    BY <1>a, <2>8, <2>9, <2>10
  <2>12. QED
    BY <1>a, <2>4, <2>11
<1>3. CASE ProcessorDone(n)
  <2>1. /\ node'[n].batches = node[n].batches
        /\ node'[n].processor_queue = node[n].processor_queue
        /\ node[n].todo = {} /\ node'[n].todo = {}
        /\ node'[n].merger_queue = node[n].merger_queue
    BY <1>0, <1>3 DEF ProcessorDone, NodeState
  <2>2. /\ One(node[n].batch = b /\ node[n].todo # {}) = 0
        /\ One(node'[n].batch = b /\ node'[n].todo # {}) = 0
    BY <2>1 DEF One
  <2>3. TakenIn(node'[n], b) = TakenIn(node[n], b)
    BY <2>1, <2>2 DEF TakenIn
  <2>4. QED
    BY <1>a, <2>1, <2>3
<1>4. QED
  BY <1>1, <1>2, <1>3 DEF ProcessorThread

LEMMA IncOf == \A n, m, b : InNode(n, m, b) = IncIn(node[n], m, b)
BY DEF InNode, IncIn

LEMMA IncInType ==
  ASSUME NEW s \in NodeState, NEW m \in Model, NEW b \in Batch
  PROVE  IncIn(s, m, b) \in Nat /\ HeldIn(s, b) \in Nat
<1>1. s.topic_model_inc[m] \in Counts \cup {Nil}
  BY DEF NodeState
<1>2. TakenIn(s, b) \in Nat /\ One(s.reported = b) \in Nat
  BY TakenInType DEF One
<1>3. QED
  BY <1>1, <1>2 DEF Counts, IncIn, HeldIn

\* One more copy of a batch in the increment of a model.
LEMMA AccumulatedOne ==
  ASSUME NEW inc \in Counts \cup {Nil}, NEW x \in Batch, NEW b \in Batch
  PROVE  /\ Accumulated(inc, [NoCounts EXCEPT ![x] = 1]) \in Counts
         /\ Accumulated(inc, [NoCounts EXCEPT ![x] = 1]) # Nil
         /\ Accumulated(inc, [NoCounts EXCEPT ![x] = 1])[b]
              = (IF inc = Nil THEN 0 ELSE inc[b]) + One(x = b)
<1> DEFINE one == [NoCounts EXCEPT ![x] = 1]
<1>1. one \in Counts /\ one[b] = One(x = b)
  BY DEF Counts, NoCounts, One
<1> HIDE DEF one
<1>2. Accumulated(inc, one) \in Counts
  BY <1>1, AccumulatedOK
<1>3. Accumulated(inc, one) # Nil
  BY <1>2, NilIsNoModel
<1>4. Accumulated(inc, one)[b] = (IF inc = Nil THEN 0 ELSE inc[b]) + One(x = b)
  <2>1. CASE inc = Nil
    BY <1>1, <2>1 DEF Accumulated, One
  <2>2. CASE inc # Nil
    BY <1>1, <2>2 DEF Accumulated, Plus, Counts
  <2>3. QED
    BY <2>1, <2>2
<1>5. QED
  BY <1>2, <1>3, <1>4 DEF one

LEMMA NodeTaskCounts ==
  ASSUME node \in [Nodes -> NodeState], NEW n \in Nodes, NodeTask(n)
  PROVE  /\ \A b \in Batch : TakenIn(node'[n], b) = TakenIn(node[n], b)
         /\ node'[n].reported = node[n].reported
         /\ node'[n].topic_model = node[n].topic_model /\ node'[n].instance = node[n].instance
         /\ \/ node'[n].topic_model_inc = node[n].topic_model_inc
            \/ /\ node[n].tasks # <<>> /\ Head(node[n].tasks).type = "kDisposeModel"
               /\ node'[n].topic_model_inc
                    = [node[n].topic_model_inc EXCEPT ![Head(node[n].tasks).model] = Nil]
<1> DEFINE task == Head(node[n].tasks)
<1>0. node[n] \in NodeState
  OBVIOUS
<1>1. node[n].tasks # <<>>
  BY DEF NodeTask
<1>2. CASE /\ task.type = "kDisposeModel"
           /\ node' = [node EXCEPT ![n].tasks = Tail(@),
                                   ![n].topic_model_inc[task.model] = Nil]
  <2> DEFINE incs == [node[n].topic_model_inc EXCEPT ![task.model] = Nil]
             s == [node[n] EXCEPT !.tasks = Tail(@), !.topic_model_inc = incs]
  <2>1. node'[n] = s
    BY <1>2
  <2> HIDE DEF incs
  <2>2. /\ s.batches = node[n].batches /\ s.processor_queue = node[n].processor_queue
        /\ s.batch = node[n].batch /\ s.todo = node[n].todo
        /\ s.merger_queue = node[n].merger_queue /\ s.reported = node[n].reported
        /\ s.topic_model_inc = incs
        /\ s.topic_model = node[n].topic_model /\ s.instance = node[n].instance
    BY <1>0 DEF NodeState
  <2> HIDE DEF s
  <2>3. \A b \in Batch : TakenIn(node'[n], b) = TakenIn(node[n], b)
    BY <2>1, <2>2 DEF TakenIn
  <2>4. node'[n].topic_model_inc = incs
    BY <2>1, <2>2
  <2>5. QED
    BY <1>1, <1>2, <2>1, <2>2, <2>3, <2>4 DEF incs
<1>3. ASSUME NEW S, NEW pc, node' = [node EXCEPT ![n].merger = pc, ![n].models = S]
      PROVE  /\ \A b \in Batch : TakenIn(node'[n], b) = TakenIn(node[n], b)
             /\ node'[n].reported = node[n].reported
             /\ node'[n].topic_model = node[n].topic_model
             /\ node'[n].instance = node[n].instance
             /\ node'[n].topic_model_inc = node[n].topic_model_inc
  <2>1. node'[n] = [node[n] EXCEPT !.merger = pc, !.models = S]
    BY <1>3
  <2>2. /\ node'[n].batches = node[n].batches
        /\ node'[n].processor_queue = node[n].processor_queue
        /\ node'[n].batch = node[n].batch /\ node'[n].todo = node[n].todo
        /\ node'[n].merger_queue = node[n].merger_queue
        /\ node'[n].reported = node[n].reported
        /\ node'[n].topic_model = node[n].topic_model
        /\ node'[n].instance = node[n].instance
        /\ node'[n].topic_model_inc = node[n].topic_model_inc
    BY <1>0, <2>1 DEF NodeState
  <2>3. QED
    BY <2>2 DEF TakenIn
<1>4. QED
  BY <1>2, <1>3 DEF NodeTask

LEMMA NodeMergeKeeps ==
  ASSUME node \in [Nodes -> NodeState], NEW n \in Nodes, NodeMerge(n)
  PROVE  LET x == Head(node[n].merger_queue).batch IN
         /\ x \in Batch /\ node'[n].reported = x
         /\ Head(node[n].merger_queue).model \in Model
         /\ node'[n].topic_model = node[n].topic_model /\ node'[n].instance = node[n].instance
<1>1. /\ node[n] \in NodeState /\ node[n].merger_queue \in Seq(NodeIncrement)
      /\ node[n].merger_queue # <<>>
  BY DEF NodeMerge, NodeState, NodeIncrement
<1>2. Head(node[n].merger_queue) \in NodeIncrement
  BY <1>1, PopOne
<1>3. /\ node'[n].reported = Head(node[n].merger_queue).batch
      /\ node'[n].topic_model = node[n].topic_model /\ node'[n].instance = node[n].instance
  BY <1>1 DEF NodeMerge, NodeState
<1>4. QED
  BY <1>2, <1>3 DEF NodeIncrement

LEMMA NodeMergeCounts ==
  ASSUME node \in [Nodes -> NodeState], NEW n \in Nodes, NodeMerge(n), HolderInv(n),
         OneModel, NEW m \in Model, NEW b \in Batch
  PROVE  LET x == Head(node[n].merger_queue).batch IN
         /\ TakenIn(node[n], b) = TakenIn(node'[n], b) + One(x = b)
         /\ TakenIn(node'[n], b) \in Nat /\ One(x = b) \in Nat
         /\ HeldIn(node'[n], b) = HeldIn(node[n], b)
         /\ IncIn(node'[n], m, b) =
              IncIn(node[n], m, b) + (IF node[n].topic_model[m] = Nil THEN 0 ELSE One(x = b))
<1> DEFINE inc == Head(node[n].merger_queue)
           x == inc.batch
           one == [NoCounts EXCEPT ![inc.batch] = 1]
           old == node[n].topic_model_inc[inc.model]
           new == IF node[n].topic_model[inc.model] = Nil THEN old ELSE Accumulated(old, one)
           incs == [node[n].topic_model_inc EXCEPT ![inc.model] = new]
           s == [node[n] EXCEPT !.merger_queue = Tail(@), !.merger = "report",
                   !.reported = inc.batch, !.topic_model_inc = incs]
<1>0. /\ node[n] \in NodeState /\ node[n].merger_queue \in Seq(NodeIncrement)
      /\ node[n].merger_queue # <<>> /\ node[n].merger = "run"
  BY DEF NodeMerge, NodeState, NodeIncrement
<1>1. node'[n] = s
  BY <1>0 DEF NodeMerge
<1>2. inc \in NodeIncrement /\ Tail(node[n].merger_queue) \in Seq(NodeIncrement)
  BY <1>0, PopOne
<1>3. x \in Batch /\ inc.model = m
  BY <1>2 DEF NodeIncrement, OneModel
<1>4. node[n].reported = Nil
  BY <1>0 DEF HolderInv
<1>5. node[n].topic_model_inc \in [Model -> Counts \cup {Nil}] /\ old \in Counts \cup {Nil}
  BY <1>0, <1>3 DEF NodeState
<1>6. node[n].topic_model[m] # Nil =>
        new # Nil /\ new[b] = (IF old = Nil THEN 0 ELSE old[b]) + One(x = b)
  BY <1>3, <1>5, AccumulatedOne
<1>7. /\ incs[m] = new /\ old = node[n].topic_model_inc[m]
      /\ node[n].topic_model[m] = Nil => new = old
  <2>1. node[n].topic_model[m] = Nil => new = old
    BY <1>3
  <2> HIDE DEF new
  <2>2. QED
    BY <1>3, <1>5, <2>1
<1> HIDE DEF incs, new, old, one
<1>8. /\ s.batches = node[n].batches /\ s.processor_queue = node[n].processor_queue
      /\ s.batch = node[n].batch /\ s.todo = node[n].todo
      /\ s.merger_queue = Tail(node[n].merger_queue) /\ s.reported = x
      /\ s.topic_model_inc = incs
  BY <1>0 DEF NodeState
<1>9. IncIn(s, m, b) =
        IncIn(node[n], m, b) + (IF node[n].topic_model[m] = Nil THEN 0 ELSE One(x = b))
  <2>1. IncIn(node[n], m, b) \in Nat /\ IncIn(node[n], m, b) = IF old = Nil THEN 0 ELSE old[b]
    BY <1>0, <1>7, IncInType DEF IncIn
  <2>2. IncIn(s, m, b) = IF new = Nil THEN 0 ELSE new[b]
    BY <1>7, <1>8 DEF IncIn
  <2> HIDE DEF s, x
  <2>3. CASE node[n].topic_model[m] = Nil
    BY <1>7, <2>1, <2>2, <2>3
  <2>4. CASE node[n].topic_model[m] # Nil
    BY <1>6, <2>1, <2>2, <2>4
  <2>5. QED
    BY <2>3, <2>4
<1> HIDE DEF s
<1>10. Increments(node[n].merger_queue, b) = Increments(s.merger_queue, b) + One(x = b)
  BY <1>0, <1>8, IncrementsTail
<1>11. /\ Increments(s.merger_queue, b) \in Nat
       /\ Occurrences(s.batches, b) \in Nat /\ Occurrences(s.processor_queue, b) \in Nat
       /\ One(s.batch = b /\ s.todo # {}) \in Nat /\ One(x = b) \in Nat
  <2>1. Increments(s.merger_queue, b) \in Nat
    BY <1>2, <1>3, <1>8, IncrementsAppend
  <2>2. Occurrences(s.batches, b) \in Nat /\ Occurrences(s.processor_queue, b) \in Nat
    BY <1>0, <1>8, TakenInType
  <2>3. QED
    BY <2>1, <2>2 DEF One
<1> HIDE DEF x, inc
<1>12. TakenIn(node[n], b) = TakenIn(s, b) + One(x = b) /\ TakenIn(s, b) \in Nat
  BY <1>8, <1>10, <1>11 DEF TakenIn
<1>13. HeldIn(s, b) = HeldIn(node[n], b)
  <2>1. One(node[n].reported = b) = 0
    BY <1>4, BatchAssumption, NilAssumption DEF One
  <2>2. One(s.reported = b) = One(x = b)
    BY <1>8
  <2>3. QED
    BY <1>11, <1>12, <2>1, <2>2 DEF HeldIn
<1>14. QED
  BY <1>1, <1>9, <1>11, <1>12, <1>13 DEF x, inc

LEMMA NodeSignalCounts ==
  ASSUME node \in [Nodes -> NodeState], NEW n \in Nodes, NodeSignal(n)
  PROVE  /\ \A b \in Batch : TakenIn(node'[n], b) = TakenIn(node[n], b)
         /\ node'[n].reported = node[n].reported
         /\ node'[n].topic_model = node[n].topic_model /\ node'[n].instance = node[n].instance
         /\ node'[n].topic_model_inc = node[n].topic_model_inc
BY DEF NodeSignal, TakenIn, NodeState

LEMMA RequestCounts ==
  ASSUME node \in [Nodes -> NodeState], BatchManagerTypeOK, NEW n \in Nodes, RequestBatches(n)
  PROVE  \E i \in 1..Len(tasks) :
           /\ NextTask(i) /\ tasks[i] \in Batch
           /\ \A b \in Batch :
                /\ TakenIn(node'[n], b) = TakenIn(node[n], b) + One(tasks[i] = b)
                /\ HeldIn(node'[n], b) = HeldIn(node[n], b) + One(tasks[i] = b)
           /\ node'[n].reported = node[n].reported
           /\ node'[n].topic_model = node[n].topic_model /\ node'[n].instance = node[n].instance
           /\ node'[n].topic_model_inc = node[n].topic_model_inc
<1>0. node[n] \in NodeState /\ node[n].batches \in Seq(Batch)
  BY DEF NodeState
<1>1. PICK i \in 1..Len(tasks) :
        NextTask(i) /\ node' = [node EXCEPT ![n].batches = Append(@, tasks[i])]
  BY DEF RequestBatches
<1>2. tasks[i] \in Batch
  BY DEF BatchManagerTypeOK
<1>3. /\ node'[n].batches = Append(node[n].batches, tasks[i])
      /\ node'[n].processor_queue = node[n].processor_queue
      /\ node'[n].batch = node[n].batch /\ node'[n].todo = node[n].todo
      /\ node'[n].merger_queue = node[n].merger_queue
      /\ node'[n].reported = node[n].reported
      /\ node'[n].topic_model = node[n].topic_model /\ node'[n].instance = node[n].instance
      /\ node'[n].topic_model_inc = node[n].topic_model_inc
  BY <1>0, <1>1 DEF NodeState
<1>4. ASSUME NEW b \in Batch
      PROVE  /\ TakenIn(node'[n], b) = TakenIn(node[n], b) + One(tasks[i] = b)
             /\ HeldIn(node'[n], b) = HeldIn(node[n], b) + One(tasks[i] = b)
  <2> DEFINE one == One(tasks[i] = b)
             busy == One(node[n].batch = b /\ node[n].todo # {})
  <2>1. Occurrences(node'[n].batches, b) = Occurrences(node[n].batches, b) + one
    BY <1>0, <1>2, <1>3, OccursAppend
  <2>2. /\ Occurrences(node[n].batches, b) \in Nat
        /\ Occurrences(node[n].processor_queue, b) \in Nat
        /\ Increments(node[n].merger_queue, b) \in Nat
        /\ busy \in Nat /\ one \in Nat /\ One(node[n].reported = b) \in Nat
        /\ TakenIn(node[n], b) \in Nat
    BY <1>0, TakenInType DEF One
  <2>3. TakenIn(node'[n], b) = Occurrences(node'[n].batches, b)
          + Occurrences(node[n].processor_queue, b) + busy + Increments(node[n].merger_queue, b)
    BY <1>3 DEF TakenIn
  <2>4. TakenIn(node[n], b) = Occurrences(node[n].batches, b)
          + Occurrences(node[n].processor_queue, b) + busy + Increments(node[n].merger_queue, b)
    BY DEF TakenIn
  <2> HIDE DEF one, busy
  <2>5. TakenIn(node'[n], b) = TakenIn(node[n], b) + one
    BY <2>1, <2>2, <2>3, <2>4
  <2>6. HeldIn(node'[n], b) = TakenIn(node'[n], b) + One(node[n].reported = b)
    BY <1>3 DEF HeldIn
  <2>7. HeldIn(node[n], b) = TakenIn(node[n], b) + One(node[n].reported = b)
    BY DEF HeldIn
  <2>8. HeldIn(node'[n], b) = HeldIn(node[n], b) + one
    BY <2>2, <2>5, <2>6, <2>7
  <2>9. QED
    BY <2>5, <2>8 DEF one
<1>5. QED
  BY <1>1, <1>2, <1>3, <1>4

LEMMA ReplyCounts ==
  ASSUME node \in [Nodes -> NodeState], NEW n \in Nodes, RequestBatchesReply(n)
  PROVE  /\ \A b \in Batch : TakenIn(node'[n], b) = TakenIn(node[n], b)
         /\ node'[n].reported = node[n].reported
         /\ node'[n].topic_model = node[n].topic_model /\ node'[n].instance = node[n].instance
         /\ node'[n].topic_model_inc = node[n].topic_model_inc
BY DEF RequestBatchesReply, TakenIn, NodeState

LEMMA ReportCounts ==
  ASSUME node \in [Nodes -> NodeState], NEW n \in Nodes, ReportBatches(n)
  PROVE  /\ \A b \in Batch :
              /\ TakenIn(node'[n], b) = TakenIn(node[n], b)
              /\ HeldIn(node[n], b) = HeldIn(node'[n], b) + One(node[n].reported = b)
         /\ node'[n].reported = Nil
         /\ node'[n].topic_model = node[n].topic_model /\ node'[n].instance = node[n].instance
         /\ node'[n].topic_model_inc = node[n].topic_model_inc
<1>0. node[n] \in NodeState
  OBVIOUS
<1>1. /\ node'[n].batches = node[n].batches
      /\ node'[n].processor_queue = node[n].processor_queue
      /\ node'[n].batch = node[n].batch /\ node'[n].todo = node[n].todo
      /\ node'[n].merger_queue = node[n].merger_queue
      /\ node'[n].reported = Nil
      /\ node'[n].topic_model = node[n].topic_model /\ node'[n].instance = node[n].instance
      /\ node'[n].topic_model_inc = node[n].topic_model_inc
  BY <1>0 DEF ReportBatches, NodeState
<1>2. ASSUME NEW b \in Batch
      PROVE  /\ TakenIn(node'[n], b) = TakenIn(node[n], b)
             /\ HeldIn(node[n], b) = HeldIn(node'[n], b) + One(node[n].reported = b)
  <2>1. TakenIn(node'[n], b) = TakenIn(node[n], b)
    BY <1>1 DEF TakenIn
  <2>2. One(node'[n].reported = b) = 0
    BY <1>1, BatchAssumption, NilAssumption DEF One
  <2>3. TakenIn(node[n], b) \in Nat /\ One(node[n].reported = b) \in Nat
    BY <1>0, TakenInType DEF One
  <2>4. HeldIn(node[n], b) = HeldIn(node'[n], b) + One(node[n].reported = b)
    BY <2>1, <2>2, <2>3 DEF HeldIn
  <2>5. QED
    BY <2>1, <2>4
<1>3. QED
  BY <1>1, <1>2

LEMMA UpdateCounts ==
  ASSUME node \in [Nodes -> NodeState], NEW n \in Nodes, UpdateModel(n), NodeInv(n),
         OneModel, NEW m \in Model
  PROVE  /\ \A b \in Batch : TakenIn(node'[n], b) = TakenIn(node[n], b)
         /\ node'[n].reported = node[n].reported
         /\ node'[n].topic_model = node[n].topic_model /\ node'[n].instance = node[n].instance
         /\ node[n].topic_model_inc[m] \in Counts
         /\ node'[n].topic_model_inc[m] = Nil
         /\ merger_queue' =
              Append(merger_queue, [model |-> m, n_wt |-> node[n].topic_model_inc[m]])
<1> DEFINE k == Min(node[n].models)
           left == IF node[n].up THEN node[n].models \ {k} ELSE {}
           incs == [node[n].topic_model_inc EXCEPT ![k] = Nil]
           s == [node[n] EXCEPT !.models = left, !.topic_model_inc = incs]
<1>0. /\ node[n] \in NodeState /\ node[n].models # {} /\ node[n].models \in SUBSET Model
      /\ node[n].topic_model_inc \in [Model -> Counts \cup {Nil}]
  BY DEF NodeState, UpdateModel
<1>1. k \in node[n].models /\ k = m
  <2>1. k \in node[n].models
    BY <1>0, MinIsIn, ModelAssumption
  <2>2. QED
    BY <1>0, <2>1 DEF OneModel
<1>2. node[n].topic_model_inc[m] \in Counts
  BY <1>0, <1>1 DEF UpdateModel, NodeInv
<1>3. node'[n] = s
  BY <1>0 DEF UpdateModel
<1>4. merger_queue' = Append(merger_queue, [model |-> k, n_wt |-> node[n].topic_model_inc[k]])
  BY DEF UpdateModel
<1>5. incs[m] = Nil
  BY <1>0, <1>1
<1> HIDE DEF k, left, incs
<1>6. /\ s.batches = node[n].batches /\ s.processor_queue = node[n].processor_queue
      /\ s.batch = node[n].batch /\ s.todo = node[n].todo
      /\ s.merger_queue = node[n].merger_queue /\ s.reported = node[n].reported
      /\ s.topic_model_inc = incs
      /\ s.topic_model = node[n].topic_model /\ s.instance = node[n].instance
  BY <1>0 DEF NodeState
<1> HIDE DEF s
<1>7. \A b \in Batch : TakenIn(node'[n], b) = TakenIn(node[n], b)
  BY <1>3, <1>6 DEF TakenIn
<1>8. QED
  BY <1>1, <1>2, <1>3, <1>4, <1>5, <1>6, <1>7

LEMMA RetrieveCounts ==
  ASSUME node \in [Nodes -> NodeState], NEW n \in Nodes, RetrieveModel(n),
         OneModel, NEW m \in Model
  PROVE  /\ \A b \in Batch : TakenIn(node'[n], b) = TakenIn(node[n], b)
         /\ node'[n].reported = node[n].reported /\ node'[n].instance = node[n].instance
         /\ node'[n].topic_model_inc[m] = Nil
         /\ node'[n].topic_model[m] = topic_model[m]
<1> DEFINE k == Min(node[n].models)
           models == [node[n].topic_model EXCEPT ![k] = topic_model[k]]
           incs == [node[n].topic_model_inc EXCEPT ![k] = Nil]
           s == [node[n] EXCEPT !.models = @ \ {k}, !.topic_model = models,
                                !.topic_model_inc = incs]
<1>0. /\ node[n] \in NodeState /\ node[n].models # {} /\ node[n].models \in SUBSET Model
      /\ node[n].topic_model_inc \in [Model -> Counts \cup {Nil}]
      /\ node[n].topic_model \in [Model -> TopicModel \cup {Nil}]
  BY DEF NodeState, RetrieveModel
<1>1. k = m
  <2>1. k \in node[n].models
    BY <1>0, MinIsIn, ModelAssumption
  <2>2. QED
    BY <1>0, <2>1 DEF OneModel
<1>2. node'[n] = s
  BY <1>0 DEF RetrieveModel
<1>3. incs[m] = Nil /\ models[m] = topic_model[m]
  BY <1>0, <1>1
<1> HIDE DEF k, models, incs
<1>4. /\ s.batches = node[n].batches /\ s.processor_queue = node[n].processor_queue
      /\ s.batch = node[n].batch /\ s.todo = node[n].todo
      /\ s.merger_queue = node[n].merger_queue /\ s.reported = node[n].reported
      /\ s.topic_model_inc = incs /\ s.topic_model = models /\ s.instance = node[n].instance
  BY <1>0 DEF NodeState
<1> HIDE DEF s
<1>5. \A b \in Batch : TakenIn(node'[n], b) = TakenIn(node[n], b)
  BY <1>2, <1>4 DEF TakenIn
<1>6. QED
  BY <1>2, <1>3, <1>4, <1>5

\* What a node and its merger hold.
LEMMA HolderStep ==
  ASSUME node \in [Nodes -> NodeState], NEW n \in Nodes, HolderInv(n), NodeInv(n),
         BatchManagerTypeOK, NodeThread(n) \/ Service(n), clients' = clients
  PROVE  HolderInv(n)'
<1>0. /\ node[n] \in NodeState
      /\ node[n].topic_model_inc \in [Model -> Counts \cup {Nil}]
      /\ node[n].models \in SUBSET Model
  BY DEF NodeState
<1>1. CASE Beside(n)
  BY <1>1, Zenon DEF HolderInv, Beside, Dry
<1>2. CASE LoaderThread(n) \/ ProcessorThread(n) \/ RequestBatches(n) \/ RequestBatchesReply(n)
  BY <1>1, <1>2, BesideOK
<1>4. CASE NodeTask(n)
  <2> DEFINE task == Head(node[n].tasks)
  <2>0. node[n].merger = "run" /\ node[n].instance
    BY <1>4 DEF NodeTask, Running
  <2>1. CASE node' = [node EXCEPT ![n].tasks = Tail(@), ![n].topic_model_inc[task.model] = Nil]
    <3>1. /\ node'[n].reported = node[n].reported /\ node'[n].merger = node[n].merger
          /\ node'[n].instance = node[n].instance
      BY <1>0, <2>1 DEF NodeState
    <3>2. QED
      BY <2>0, <3>1 DEF HolderInv
  <2>2. CASE node' = [node EXCEPT ![n].merger = "push",
               ![n].models = {m \in Model : node[n].topic_model_inc[m] # Nil}]
    <3> DEFINE S == {m \in Model : node[n].topic_model_inc[m] # Nil}
    <3>1. /\ node'[n].reported = node[n].reported /\ node'[n].merger = "push"
          /\ node'[n].instance = node[n].instance /\ node'[n].models = S
          /\ node'[n].topic_model_inc = node[n].topic_model_inc
      BY <1>0, <2>2 DEF NodeState
    <3>2. \A m \in Model \ S : node'[n].topic_model_inc[m] = Nil
      BY <3>1
    <3> HIDE DEF S
    <3>3. QED
      BY <2>0, <3>1, <3>2 DEF HolderInv
  <2>3. CASE node' = [node EXCEPT ![n].merger = "pull",
               ![n].models = {m \in Model : node[n].topic_model[m] # Nil}]
    <3>1. /\ node'[n].reported = node[n].reported /\ node'[n].merger = "pull"
          /\ node'[n].instance = node[n].instance
      BY <1>0, <2>3 DEF NodeState
    <3>2. QED
      BY <2>0, <3>1 DEF HolderInv
  <2>4. QED
    BY <1>4, <2>1, <2>2, <2>3 DEF NodeTask
<1>5. CASE NodeMerge(n)
  <2>1. /\ node[n].merger_queue \in Seq(NodeIncrement) /\ node[n].merger_queue # <<>>
        /\ node[n].instance
    BY <1>0, <1>5 DEF NodeMerge, Running, NodeState, NodeIncrement
  <2>2. Head(node[n].merger_queue) \in NodeIncrement
    BY <2>1, PopOne
  <2>3. /\ node'[n].reported = Head(node[n].merger_queue).batch /\ node'[n].merger = "report"
        /\ node'[n].instance = node[n].instance
    BY <1>0, <1>5 DEF NodeMerge, NodeState
  <2>4. node'[n].reported # Nil
    BY <2>2, <2>3, BatchAssumption, NilAssumption DEF NodeIncrement
  <2>5. QED
    BY <2>1, <2>3, <2>4 DEF HolderInv
<1>6. CASE NodeSignal(n)
  <2>1. /\ node'[n].reported = node[n].reported /\ node'[n].merger = "run"
        /\ node'[n].instance = node[n].instance /\ node[n].instance
        /\ node[n].merger # "report"
    BY <1>0, <1>6 DEF NodeSignal, Running, NodeState
  <2>2. QED
    BY <2>1 DEF HolderInv
<1>9. CASE ReportBatches(n)
  <2>1. /\ node'[n].reported = Nil /\ node'[n].merger = "run"
        /\ node'[n].instance = node[n].instance
        /\ node'[n].topic_model_inc = node[n].topic_model_inc
    BY <1>0, <1>9 DEF ReportBatches, NodeState
  <2>2. QED
    BY <2>1 DEF HolderInv, Dry
<1>10. CASE UpdateModel(n)
  <2> DEFINE k == Min(node[n].models)
             left == IF node[n].up THEN node[n].models \ {k} ELSE {}
             incs == [node[n].topic_model_inc EXCEPT ![k] = Nil]
             s == [node[n] EXCEPT !.models = left, !.topic_model_inc = incs]
  <2>1. node'[n] = s /\ node[n].merger = "push"
    BY <1>0, <1>10 DEF UpdateModel
  <2>2. \A m \in Model : incs[m] = Nil \/ (m # k /\ incs[m] = node[n].topic_model_inc[m])
    BY <1>0
  <2>3. node[n].up => \A m \in Model \ left : m = k \/ m \notin node[n].models
    OBVIOUS
  <2> HIDE DEF k, left, incs
  <2>4. /\ s.reported = node[n].reported /\ s.merger = node[n].merger
        /\ s.instance = node[n].instance /\ s.up = node[n].up /\ s.models = left
        /\ s.topic_model_inc = incs
    BY <1>0 DEF NodeState
  <2> HIDE DEF s
  <2>5. node'[n].up => \A m \in Model \ node'[n].models : node'[n].topic_model_inc[m] = Nil
    BY <2>1, <2>2, <2>3, <2>4 DEF HolderInv
  <2>6. ~node'[n].instance => \A m \in Model : node'[n].topic_model_inc[m] = Nil
    BY <2>1, <2>2, <2>4 DEF HolderInv, Dry
  <2>7. QED
    BY <2>1, <2>4, <2>5, <2>6 DEF HolderInv, Dry
<1>11. CASE RetrieveModel(n)
  <2>1. /\ node[n].merger = "pull" /\ node'[n].merger = "pull" /\ node[n].instance
        /\ node'[n].instance = node[n].instance /\ node'[n].reported = node[n].reported
    BY <1>0, <1>11 DEF RetrieveModel, Running, NodeState
  <2>2. QED
    BY <2>1 DEF HolderInv
<1>12. QED
  BY <1>2, <1>4, <1>5, <1>6, <1>9, <1>10, <1>11
  DEF NodeThread, NodeMergerThread, Service

\* No thread makes copies; an idle node without increments has none afterwards.
LEMMA ThreadCounts ==
  ASSUME node \in [Nodes -> NodeState], NEW n \in Nodes, HolderInv(n), NodeInv(n),
         BatchManagerTypeOK, OneModel, NodeThread(n) \/ (Service(n) /\ ~RequestBatches(n))
  PROVE  /\ \A b \in Batch : HeldIn(node'[n], b) <= HeldIn(node[n], b)
         /\ \A m \in Model, b \in Batch :
              TakenIn(node'[n], b) + IncIn(node'[n], m, b) <= TakenIn(node[n], b) + IncIn(node[n], m, b)
         /\ Idle(n) /\ Dry(n) => \A m \in Model : node'[n].topic_model_inc[m] = Nil
<1>0. node[n] \in NodeState /\ node[n].topic_model_inc \in [Model -> Counts \cup {Nil}]
  BY DEF NodeState
<1>a. \A m \in Model, b \in Batch :
        /\ TakenIn(node[n], b) \in Nat /\ IncIn(node[n], m, b) \in Nat
        /\ One(node[n].reported = b) \in Nat
  BY <1>0, TakenInType, IncInType DEF One
<1>b. \A b \in Batch : TakenIn(node[n], b) \in Nat /\ One(node[n].reported = b) \in Nat
  BY <1>0, TakenInType DEF One
\* Where the increments stay or go.
<1>1. ASSUME \A b \in Batch : TakenIn(node'[n], b) <= TakenIn(node[n], b),
             \A b \in Batch : TakenIn(node'[n], b) \in Nat,
             node'[n].reported \in {node[n].reported, Nil},
             \A m \in Model : node'[n].topic_model_inc[m] \in {node[n].topic_model_inc[m], Nil}
      PROVE  /\ \A b \in Batch : HeldIn(node'[n], b) <= HeldIn(node[n], b)
             /\ \A m \in Model, b \in Batch :
                  TakenIn(node'[n], b) + IncIn(node'[n], m, b)
                    <= TakenIn(node[n], b) + IncIn(node[n], m, b)
             /\ Idle(n) /\ Dry(n) => \A m \in Model : node'[n].topic_model_inc[m] = Nil
  <2>1. ASSUME NEW b \in Batch PROVE HeldIn(node'[n], b) <= HeldIn(node[n], b)
    <3>1. One(node'[n].reported = b) \in {One(node[n].reported = b), 0}
      <4>1. CASE node'[n].reported = node[n].reported
        BY <4>1
      <4>2. CASE node'[n].reported = Nil
        BY <4>2, BatchAssumption, NilAssumption DEF One
      <4>3. QED
        BY <1>1, <4>1, <4>2
    <3>2. QED
      BY <1>1, <1>b, <3>1 DEF HeldIn
  <2>2. ASSUME NEW m \in Model, NEW b \in Batch
        PROVE  TakenIn(node'[n], b) + IncIn(node'[n], m, b)
                 <= TakenIn(node[n], b) + IncIn(node[n], m, b)
    <3>1. IncIn(node'[n], m, b) \in {IncIn(node[n], m, b), 0}
      BY <1>1, Zenon DEF IncIn
    <3>2. QED
      BY <1>1, <1>a, <3>1
  <2>3. Dry(n) => \A m \in Model : node'[n].topic_model_inc[m] = Nil
    BY <1>1 DEF Dry
  <2>4. QED
    BY <2>1, <2>2, <2>3
<1>2. CASE LoaderThread(n) \/ ProcessorThread(n) \/ RequestBatchesReply(n)
  <2>1. node'[n].reported = node[n].reported /\ node'[n].topic_model_inc = node[n].topic_model_inc
    BY <1>2, BesideOK, Zenon DEF Beside
  <2>2. ASSUME NEW b \in Batch
        PROVE  TakenIn(node'[n], b) <= TakenIn(node[n], b) /\ TakenIn(node'[n], b) \in Nat
    <3>1. CASE LoaderThread(n)
      BY <1>b, <3>1, LoaderCounts
    <3>2. CASE ProcessorThread(n)
      BY <3>2, ProcessorCounts
    <3>3. CASE RequestBatchesReply(n)
      BY <1>b, <3>3, ReplyCounts
    <3>4. QED
      BY <1>2, <3>1, <3>2, <3>3
  <2>3. QED
    BY <1>1, <2>1, <2>2
<1>3. CASE NodeTask(n)
  <2>1. \A b \in Batch : TakenIn(node'[n], b) = TakenIn(node[n], b)
    BY <1>3, NodeTaskCounts, Zenon
  <2>2. /\ node'[n].reported = node[n].reported
        /\ \/ node'[n].topic_model_inc = node[n].topic_model_inc
           \/ node'[n].topic_model_inc
                = [node[n].topic_model_inc EXCEPT ![Head(node[n].tasks).model] = Nil]
    BY <1>3, NodeTaskCounts, Zenon
  <2>3. \A m \in Model : node'[n].topic_model_inc[m] \in {node[n].topic_model_inc[m], Nil}
    BY <1>0, <2>2
  <2>4. QED
    BY <1>1, <1>b, <2>1, <2>2, <2>3
<1>4. CASE NodeMerge(n)
  <2> DEFINE x == Head(node[n].merger_queue).batch
             m0 == Head(node[n].merger_queue).model
  <2>1. x \in Batch /\ node'[n].reported = x /\ m0 \in Model
    BY <1>4, NodeMergeKeeps
  <2>2. ASSUME NEW m \in Model, NEW b \in Batch
        PROVE  /\ HeldIn(node'[n], b) = HeldIn(node[n], b)
               /\ TakenIn(node'[n], b) + IncIn(node'[n], m, b)
                    <= TakenIn(node[n], b) + IncIn(node[n], m, b)
               /\ TakenIn(node'[n], b) \in Nat
    <3>1. /\ TakenIn(node[n], b) = TakenIn(node'[n], b) + One(x = b)
          /\ TakenIn(node'[n], b) \in Nat /\ One(x = b) \in Nat
          /\ HeldIn(node'[n], b) = HeldIn(node[n], b)
          /\ IncIn(node'[n], m, b) =
               IncIn(node[n], m, b) + (IF node[n].topic_model[m] = Nil THEN 0 ELSE One(x = b))
      BY <1>4, NodeMergeCounts
    <3> HIDE DEF x
    <3>2. QED
      BY <1>a, <3>1
  <2> HIDE DEF x, m0
  <2>3. HeldIn(node[n], x) # 0
    <3>1. TakenIn(node'[n], x) \in Nat /\ HeldIn(node[n], x) = HeldIn(node'[n], x)
      BY <2>1, <2>2
    <3>2. One(node'[n].reported = x) = 1
      BY <2>1 DEF One
    <3>3. QED
      BY <3>1, <3>2 DEF HeldIn
  <2>4. ~Idle(n)
    BY <2>1, <2>3 DEF Idle, Held
  <2>5. \A b \in Batch : HeldIn(node[n], b) \in Nat
    BY <1>b DEF HeldIn
  <2>6. QED
    BY <2>1, <2>2, <2>4, <2>5
<1>5. CASE NodeSignal(n)
  <2>1. \A b \in Batch : TakenIn(node'[n], b) = TakenIn(node[n], b)
    BY <1>5, NodeSignalCounts, Zenon
  <2>2. /\ node'[n].reported = node[n].reported
        /\ node'[n].topic_model_inc = node[n].topic_model_inc
    BY <1>5, NodeSignalCounts, Zenon
  <2>3. QED
    BY <1>1, <1>b, <2>1, <2>2
<1>6. CASE ReportBatches(n)
  <2>1. \A b \in Batch : TakenIn(node'[n], b) = TakenIn(node[n], b)
    BY <1>6, ReportCounts, Zenon
  <2>2. node'[n].reported = Nil /\ node'[n].topic_model_inc = node[n].topic_model_inc
    BY <1>6, ReportCounts, Zenon
  <2>3. QED
    BY <1>1, <1>b, <2>1, <2>2
<1>7. CASE UpdateModel(n)
  <2>1. node[n].models # {} /\ Min(node[n].models) \in Model
    <3>1. node[n].models # {} /\ node[n].models \in SUBSET Model
      BY <1>0, <1>7 DEF UpdateModel, NodeState
    <3>2. QED
      BY <3>1, MinIsIn, ModelAssumption
  <2>2. ASSUME NEW m \in Model
        PROVE  /\ \A b \in Batch : TakenIn(node'[n], b) = TakenIn(node[n], b)
               /\ node'[n].reported = node[n].reported /\ node'[n].topic_model_inc[m] = Nil
    BY <1>7, UpdateCounts
  <2>3. QED
    BY <1>1, <1>b, <2>1, <2>2
<1>8. CASE RetrieveModel(n)
  <2>1. node[n].models # {} /\ Min(node[n].models) \in Model
    <3>1. node[n].models # {} /\ node[n].models \in SUBSET Model
      BY <1>0, <1>8 DEF RetrieveModel, NodeState
    <3>2. QED
      BY <3>1, MinIsIn, ModelAssumption
  <2>2. ASSUME NEW m \in Model
        PROVE  /\ \A b \in Batch : TakenIn(node'[n], b) = TakenIn(node[n], b)
               /\ node'[n].reported = node[n].reported /\ node'[n].topic_model_inc[m] = Nil
    BY <1>8, RetrieveCounts
  <2>3. QED
    BY <1>1, <1>b, <2>1, <2>2
<1>9. QED
  BY <1>2, <1>3, <1>4, <1>5, <1>6, <1>7, <1>8 DEF NodeThread, NodeMergerThread, Service

-----------------------------------------------------------------------------
(* The steps of the threads and of the service preserve the invariants.    *)
FlowRest == SchemaInv /\ QuietInv /\ MarkInv /\ DrainInv

LEMMA HeldInType ==
  ASSUME NEW s \in NodeState, NEW b \in Batch
  PROVE  HeldIn(s, b) \in Nat
<1>1. TakenIn(s, b) \in Nat /\ One(s.reported = b) \in Nat
  BY TakenInType DEF One
<1>2. QED
  BY <1>1 DEF HeldIn

LEMMA HeldIsNat ==
  /\ NetworkNodeTypeOK => \A n \in Nodes, b \in Batch : Held(n, b) \in Nat
  /\ NetworkNodeTypeOK' => \A n \in Nodes, b \in Batch : Held(n, b)' \in Nat
<1>1. ASSUME NetworkNodeTypeOK, NEW n \in Nodes, NEW b \in Batch PROVE Held(n, b) \in Nat
  <2>1. node[n] \in NodeState
    BY <1>1 DEF NetworkNodeTypeOK
  <2>2. QED
    BY <2>1, HeldInType DEF Held
<1>2. ASSUME NetworkNodeTypeOK', NEW n \in Nodes, NEW b \in Batch PROVE HeldIn(node'[n], b) \in Nat
  <2>1. node'[n] \in NodeState
    BY <1>2 DEF NetworkNodeTypeOK
  <2>2. QED
    BY <2>1, HeldInType
<1>3. QED
  BY <1>1, <1>2 DEF Held

\* What nodes hold becomes less; a node that has nothing pushes nothing.
Lessens ==
  /\ \A n \in Nodes, b \in Batch : Held(n, b)' <= Held(n, b)
  /\ \A n \in Nodes : Idle(n) /\ Dry(n) => Dry(n)'
  /\ merger_queue' = merger_queue \/ \E n \in Nodes : ~Dry(n)
  /\ \/ sync' = sync
     \/ /\ api.pc \notin {"wait.forced", "wait.pulled"}
        /\ api.pc = "wait.push" => Dry(NextNode)'

LEMMA StillIdle ==
  ASSUME NetworkNodeTypeOK, NetworkNodeTypeOK', Lessens, NEW n \in Nodes, Idle(n)
  PROVE  Idle(n)'
<1>1. ASSUME NEW b \in Batch PROVE HeldIn(node'[n], b) = 0
  <2>1. Held(n, b) \in Nat /\ Held(n, b) = 0
    BY HeldIsNat DEF Idle
  <2>2. \A k \in Nodes, c \in Batch : Held(k, c)' \in Nat
    BY HeldIsNat
  <2>3. Held(n, b)' \in Nat /\ Held(n, b)' <= Held(n, b)
    BY <2>2 DEF Lessens
  <2>4. QED
    BY <2>1, <2>3 DEF Held
<1>2. QED
  BY <1>1 DEF Idle, Held

LEMMA FlowLessens ==
  ASSUME NetworkInv, NetworkNodeTypeOK', FlowInv, Lessens,
         UNCHANGED <<schema, batchManagerVars, topic_model, topic_model_inc, merger, api,
                     clients, due, quiet>>
  PROVE  FlowRest'
<1>0. /\ NetworkNodeTypeOK /\ in_progress \in [Model -> SUBSET Batch]
      /\ api.called => Forcing /\ api.nodes # {}
      /\ api.called => NextNode \in Nodes
  <2>1. TypeOK /\ CallInv
    BY DEF NetworkInv
  <2>2. NetworkNodeTypeOK /\ in_progress \in [Model -> SUBSET Batch]
    BY <2>1 DEF TypeOK, BatchManagerTypeOK
  <2>3. api.called => Forcing /\ api.nodes # {}
    BY <2>1 DEF CallInv
  <2>4. QED
    BY <2>1, <2>2, <2>3, NextNodeOK
<1>1. /\ schema' = schema /\ tasks' = tasks /\ in_progress' = in_progress
      /\ topic_model' = topic_model /\ topic_model_inc' = topic_model_inc
      /\ merger' = merger /\ api' = api /\ clients' = clients /\ due' = due /\ quiet' = quiet
      /\ NextNode' = NextNode
  BY DEF batchManagerVars, NextNode
<1>2. \A n \in Nodes : Idle(n) => Idle(n)'
  BY <1>0, StillIdle
<1>3. /\ \A n \in Nodes : Idle(n) /\ Dry(n) => Dry(n)'
      /\ (\A n \in Nodes : Dry(n)) => merger_queue' = merger_queue
  BY DEF Lessens
<1>4. SchemaInv'
  <2>1. SchemaInv
    BY DEF FlowInv
  <2>2. QED
    BY <1>1, <2>1 DEF SchemaInv, Present
<1>5. QuietInv'
  <2>1. QuietInv
    BY DEF FlowInv
  <2>2. quiet => merger_queue' = <<>> /\ \A n \in Nodes : Idle(n)' /\ Dry(n)'
    BY <1>2, <1>3, <2>1 DEF QuietInv
  <2>3. quiet => MasterDry' /\ tasks = <<>> /\ merger.pc # "merge"
                 /\ \A m \in Model : due[m] = NoCounts /\ in_progress[m] = {}
    BY <1>1, <2>1 DEF QuietInv, MasterDry
  <2>4. /\ api.pc \in {"create", "dispose"} => quiet
        /\ api.pc = "add" => ~quiet
    BY <2>1 DEF QuietInv
  <2>5. QED
    BY <1>1, <2>2, <2>3, <2>4 DEF QuietInv
<1>6. MarkInv'
  <2>1. MarkInv
    BY DEF FlowInv
  <2>2. ASSUME NEW m \in Model, Present(m)' \/ quiet', NEW n \in Nodes, NEW b \in Batch
        PROVE  /\ Held(n, b)' <= One(b \in in_progress'[m])
               /\ \A k \in Nodes \ {n} : Held(n, b)' = 0 \/ Held(k, b)' = 0
    <3>1. Present(m) \/ quiet
      BY <1>1, <2>2 DEF Present
    <3>2. /\ Held(n, b) <= One(b \in in_progress[m])
          /\ \A k \in Nodes \ {n} : Held(n, b) = 0 \/ Held(k, b) = 0
      BY <2>1, <3>1 DEF MarkInv
    <3>3. \A k \in Nodes : Held(k, b) \in Nat
      BY <1>0, HeldIsNat
    <3>4. \A k \in Nodes : Held(k, b)' \in Nat
      BY HeldIsNat
    <3>5. \A k \in Nodes : Held(k, b)' <= Held(k, b)
      BY DEF Lessens
    <3>6. One(b \in in_progress[m]) \in Nat /\ in_progress'[m] = in_progress[m]
      BY <1>1 DEF One
    <3>7. QED
      BY <3>2, <3>3, <3>4, <3>5, <3>6
  <2>3. QED
    BY <2>2 DEF MarkInv
<1>7. DrainInv'
  <2> DEFINE Drains == {"wait.push", "wait.idle", "wait.queue", "wait.forced", "wait.pulled",
                        "wait.nodes", "wait.done"}
  <2>1. SUFFICES ASSUME (\E m \in Model : Present(m))'
                 PROVE  DrainInv'
    BY DEF DrainInv
  <2>2. /\ \E m \in Model : Present(m)
        /\ DrainInv
    BY <1>1, <2>1 DEF Present, FlowInv
  <2>3. api.pc \in Drains => IsEverythingProcessed /\ \A n \in Nodes : Idle(n) /\ Idle(n)'
    BY <1>2, <2>2 DEF DrainInv
  <2>4. api.pc \in Drains => IsEverythingProcessed'
    BY <1>1, <2>3 DEF IsEverythingProcessed
  <2>5. api.pc = "wait.push" => \A n \in Nodes : Dry(n)' \/ n \in api.nodes
    BY <1>3, <2>2, <2>3 DEF DrainInv
  <2>6. api.pc = "wait.push" /\ api.called /\ sync' => Dry(NextNode)'
    <3>1. ASSUME api.pc = "wait.push", api.called, sync' PROVE Dry(NextNode)'
      <4>1. CASE sync' = sync
        <5>1. Dry(NextNode) /\ Idle(NextNode)
          BY <1>0, <2>2, <2>3, <3>1, <4>1 DEF DrainInv
        <5>2. NextNode \in Nodes
          BY <1>0, <3>1
        <5> DEFINE k == NextNode
        <5>3. k' = k
          BY <1>1
        <5> HIDE DEF k
        <5>4. Dry(k) /\ Idle(k) /\ k \in Nodes
          BY <5>1, <5>2 DEF k
        <5>5. PICK j \in Nodes : j = k
          BY <5>4
        <5>6. Dry(j)'
          BY <1>3, <5>4, <5>5
        <5>7. Dry(k)'
          BY <5>3, <5>5, <5>6 DEF Dry
        <5>8. QED
          BY <5>7 DEF k
      <4>2. CASE sync' # sync
        BY <3>1, <4>2 DEF Lessens
      <4>3. QED
        BY <4>1, <4>2
    <3>2. QED
      BY <3>1
  <2>7. api.pc \in Drains \ {"wait.push"} => \A n \in Nodes : Dry(n) /\ Dry(n)'
    BY <1>3, <2>2, <2>3 DEF DrainInv
  <2>8. api.pc \in Drains \ {"wait.push"} => merger_queue' = merger_queue
    BY <1>3, <2>7
  <2>9. /\ api.pc \in {"wait.forced", "wait.pulled", "wait.nodes", "wait.done"} => merger_queue = <<>>
        /\ Merged => merger.pc # "merge"
        /\ Published => MasterDry
    BY <2>2 DEF DrainInv
  <2>10. api.pc \in {"wait.forced", "wait.pulled"} => sync' = sync
    BY DEF Lessens
  <2>11. MasterDry' = MasterDry
    BY <1>1 DEF MasterDry
  <2>12. (Merged' => Merged) /\ (Published' => Published)
    BY <1>1, <2>10 DEF Merged, Published
  <2>13. QED
    BY <1>1, <2>3, <2>4, <2>5, <2>6, <2>7, <2>8, <2>9, <2>11, <2>12, Zenon DEF DrainInv
<1>8. QED
  BY <1>4, <1>5, <1>6, <1>7 DEF FlowRest

\* An instance that was just made has nothing.
LEMMA EmptyHolds ==
  /\ \A b \in Batch : TakenIn(NoInstance, b) = 0 /\ HeldIn(NoInstance, b) = 0
  /\ \A m \in Model, b \in Batch : IncIn(NoInstance, m, b) = 0
  /\ \A m \in Model : NoInstance.topic_model_inc[m] = Nil
<1>0. /\ NoInstance.batches = <<>> /\ NoInstance.processor_queue = <<>>
      /\ NoInstance.todo = {} /\ NoInstance.merger_queue = <<>> /\ NoInstance.reported = Nil
      /\ \A m \in Model : NoInstance.topic_model_inc[m] = Nil
  BY DEF NoInstance
<1> DEFINE s == NoInstance
<1>1. /\ s.batches = <<>> /\ s.processor_queue = <<>>
      /\ s.todo = {} /\ s.merger_queue = <<>> /\ s.reported = Nil
      /\ \A m \in Model : s.topic_model_inc[m] = Nil
  BY <1>0
<1> HIDE DEF s
<1>2. ASSUME NEW b \in Batch
      PROVE  TakenIn(s, b) = 0 /\ HeldIn(s, b) = 0
  <2>1. Occurrences(<<>>, b) = 0 /\ Increments(<<>>, b) = 0
    BY OccursNone, IncrementsNone
  <2>2. One(s.batch = b /\ s.todo # {}) = 0
    BY <1>1 DEF One
  <2>3. One(s.reported = b) = 0
    BY <1>1, BatchAssumption, NilAssumption DEF One
  <2>4. TakenIn(s, b) = 0
    BY <1>1, <2>1, <2>2 DEF TakenIn
  <2>5. QED
    BY <2>3, <2>4 DEF HeldIn
<1>3. \A m \in Model, b \in Batch : IncIn(s, m, b) = 0
  BY <1>1 DEF IncIn
<1>4. QED
  BY <1>1, <1>2, <1>3 DEF s

\* The steps that leave batch manager and call alone.
Aside(n) ==
  NodeStep(n) \/ (ServiceStep(n) /\ ~RequestBatches(n) /\ ~ReportBatches(n)) \/ Stop(n) \/ Restart(n)

LEMMA AsideUnchanged ==
  ASSUME NetworkInv, NEW n \in Nodes, Aside(n)
  PROVE  /\ UNCHANGED <<schema, batchManagerVars, topic_model, topic_model_inc, merger, api,
                        clients, due, quiet>>
         /\ internal_task_queue' = internal_task_queue
         /\ merger_queue' = merger_queue \/ UpdateModel(n)
         /\ sync' = sync \/ NodeSignal(n)
         /\ \A k \in Nodes : k # n => node'[k] = node[k]
<1>0. NetworkNodeTypeOK /\ BatchManagerTypeOK /\ NodeInv(n) /\ node \in [Nodes -> NodeState]
  BY DEF NetworkInv, TypeOK, NetworkNodeTypeOK
<1>1. CASE NodeStep(n)
  <2>1. \A k \in Nodes : k # n => node'[k] = node[k]
    BY <1>0, <1>1, NodeThreadTypes DEF NodeStep
  <2>2. QED
    BY <1>1, <2>1, Zenon DEF NodeStep, NodeThread, mergerVars, apiVars
<1>2. CASE ServiceStep(n) /\ ~RequestBatches(n) /\ ~ReportBatches(n)
  <2>1. \A k \in Nodes : k # n => node'[k] = node[k]
    BY <1>0, <1>2, ServiceTypes DEF ServiceStep
  <2>2. RequestBatchesReply(n) \/ UpdateModel(n) \/ RetrieveModel(n)
    BY <1>2 DEF ServiceStep, Service
  <2>3. UNCHANGED <<schema, sync, apiVars>>
    BY <1>2 DEF ServiceStep
  <2>4. /\ UNCHANGED <<batchManagerVars, topic_model, topic_model_inc, internal_task_queue, merger>>
        /\ merger_queue' = merger_queue \/ UpdateModel(n)
    BY <2>2, Zenon DEF RequestBatchesReply, UpdateModel, RetrieveModel, mergerVars
  <2>5. QED
    BY <2>1, <2>3, <2>4, Zenon DEF apiVars
<1>3. CASE Stop(n) \/ Restart(n)
  <2>1. \A k \in Nodes : k # n => node'[k] = node[k]
    BY <1>0, <1>3 DEF Stop, Restart
  <2>2. QED
    BY <1>3, <2>1, Zenon DEF Stop, Restart, mergerVars, apiVars
<1>4. QED
  BY <1>1, <1>2, <1>3 DEF Aside

\* A node that stops keeps what it has.
LEMMA StopKeeps ==
  ASSUME node \in [Nodes -> NodeState], NEW n \in Nodes, Stop(n)
  PROVE  /\ \A b \in Batch : HeldIn(node'[n], b) = HeldIn(node[n], b)
                             /\ TakenIn(node'[n], b) = TakenIn(node[n], b)
         /\ node'[n].topic_model_inc = node[n].topic_model_inc
         /\ node'[n].topic_model = node[n].topic_model
         /\ node'[n].reported = node[n].reported /\ node'[n].merger = node[n].merger
         /\ node'[n].instance = node[n].instance /\ ~node'[n].up
         /\ node'[n].tasks = node[n].tasks
<1> DEFINE s == [node[n] EXCEPT !.up = FALSE]
<1>0. node[n] \in NodeState /\ node'[n] = s
  BY DEF Stop
<1>1. /\ s.batches = node[n].batches /\ s.processor_queue = node[n].processor_queue
      /\ s.batch = node[n].batch /\ s.todo = node[n].todo
      /\ s.merger_queue = node[n].merger_queue /\ s.reported = node[n].reported
      /\ s.topic_model_inc = node[n].topic_model_inc /\ s.topic_model = node[n].topic_model
      /\ s.merger = node[n].merger /\ s.instance = node[n].instance /\ s.up = FALSE
      /\ s.tasks = node[n].tasks
  BY <1>0 DEF NodeState
<1> HIDE DEF s
<1>2. \A b \in Batch : TakenIn(node'[n], b) = TakenIn(node[n], b)
  BY <1>0, <1>1 DEF TakenIn
<1>3. \A b \in Batch : HeldIn(node'[n], b) = HeldIn(node[n], b)
  BY <1>0, <1>1, <1>2 DEF HeldIn
<1>4. QED
  BY <1>0, <1>1, <1>2, <1>3

LEMMA AsideLessens ==
  ASSUME NetworkInv, FlowInv, OneModel, NEW n \in Nodes, Aside(n)
  PROVE  /\ \A b \in Batch : HeldIn(node'[n], b) <= HeldIn(node[n], b)
         /\ Idle(n) /\ Dry(n) => \A m \in Model : node'[n].topic_model_inc[m] = Nil
         /\ HolderInv(n)'
<1>0. /\ NetworkNodeTypeOK /\ BatchManagerTypeOK /\ NodeInv(n) /\ node \in [Nodes -> NodeState]
      /\ HolderInv(n) /\ clients' = clients
  BY AsideUnchanged, Zenon DEF NetworkInv, TypeOK, NetworkNodeTypeOK, FlowInv
<1>1. CASE NodeStep(n) \/ (ServiceStep(n) /\ ~RequestBatches(n) /\ ~ReportBatches(n))
  <2>1. NodeThread(n) \/ (Service(n) /\ ~RequestBatches(n))
    BY <1>1 DEF NodeStep, ServiceStep
  <2>2. HolderInv(n)'
    BY <1>0, <2>1, HolderStep, Zenon
  <2>3. /\ \A b \in Batch : HeldIn(node'[n], b) <= HeldIn(node[n], b)
        /\ Idle(n) /\ Dry(n) => \A m \in Model : node'[n].topic_model_inc[m] = Nil
    BY <1>0, <2>1, ThreadCounts, Zenon
  <2>4. QED
    BY <2>2, <2>3
<1>2. \A b \in Batch : HeldIn(node[n], b) \in Nat
  <2>1. node[n] \in NodeState
    BY <1>0
  <2>2. QED
    BY <2>1, HeldInType
<1>3. CASE Stop(n)
  <2>1. /\ \A b \in Batch : HeldIn(node'[n], b) = HeldIn(node[n], b)
        /\ node'[n].topic_model_inc = node[n].topic_model_inc
        /\ node'[n].reported = node[n].reported /\ node'[n].merger = node[n].merger
        /\ node'[n].instance = node[n].instance /\ ~node'[n].up
    BY <1>0, <1>3, StopKeeps, Zenon
  <2>2. HolderInv(n)'
    BY <1>0, <2>1 DEF HolderInv, Dry
  <2>3. QED
    BY <1>2, <2>1, <2>2 DEF Dry
<1>4. CASE Restart(n)
  <2>1. node'[n] = NoInstance
    BY <1>0, <1>4 DEF Restart
  <2>2. HolderInv(n)'
    <3>1. NoInstance.reported = Nil /\ NoInstance.merger = "run" /\ NoInstance.instance = FALSE
      BY DEF NoInstance
    <3>2. QED
      BY <2>1, <3>1, EmptyHolds DEF HolderInv, Dry
  <2>3. \A b \in Batch : HeldIn(node'[n], b) <= HeldIn(node[n], b)
    BY <1>2, <2>1, EmptyHolds
  <2>4. \A m \in Model : node'[n].topic_model_inc[m] = Nil
    BY <2>1, EmptyHolds
  <2>5. QED
    BY <2>2, <2>3, <2>4
<1>5. QED
  BY <1>1, <1>3, <1>4 DEF Aside

LEMMA AsideFlow ==
  ASSUME NetworkInv, NetworkNodeTypeOK', FlowInv, OneModel, NEW n \in Nodes, Aside(n)
  PROVE  FlowInv'
<1>0. /\ NetworkNodeTypeOK /\ NodeInv(n) /\ node \in [Nodes -> NodeState]
      /\ \A k \in Nodes : HolderInv(k)
  BY DEF NetworkInv, TypeOK, NetworkNodeTypeOK, FlowInv
<1>1. /\ UNCHANGED <<schema, batchManagerVars, topic_model, topic_model_inc, merger, api,
                     clients, due, quiet>>
      /\ merger_queue' = merger_queue \/ UpdateModel(n)
      /\ sync' = sync \/ NodeSignal(n)
      /\ \A k \in Nodes : k # n => node'[k] = node[k]
  BY AsideUnchanged, Zenon
<1>2. /\ \A b \in Batch : HeldIn(node'[n], b) <= HeldIn(node[n], b)
      /\ Idle(n) /\ Dry(n) => \A m \in Model : node'[n].topic_model_inc[m] = Nil
      /\ HolderInv(n)'
  BY AsideLessens, Zenon
<1>3. \A k \in Nodes : HolderInv(k)'
  <2>1. ASSUME NEW k \in Nodes, k # n PROVE HolderInv(k)'
    <3>1. node'[k] = node[k] /\ clients' = clients
      BY <1>1, <2>1
    <3>2. QED
      BY <1>0, <3>1, Zenon DEF HolderInv, Dry
  <2>2. QED
    BY <1>2, <2>1
<1>4. Lessens
  <2>1. \A k \in Nodes, b \in Batch : Held(k, b)' <= Held(k, b)
    <3>1. ASSUME NEW k \in Nodes, NEW b \in Batch PROVE HeldIn(node'[k], b) <= HeldIn(node[k], b)
      <4>1. HeldIn(node[k], b) \in Nat
        BY <1>0, HeldIsNat DEF Held
      <4>2. QED
        BY <1>1, <1>2, <4>1
    <3>2. QED
      BY <3>1 DEF Held
  <2>2. \A k \in Nodes : Idle(k) /\ Dry(k) => Dry(k)'
    <3>1. ASSUME NEW k \in Nodes, Idle(k), Dry(k)
          PROVE  \A m \in Model : node'[k].topic_model_inc[m] = Nil
      BY <1>1, <1>2, <3>1 DEF Dry
    <3>2. QED
      BY <3>1 DEF Dry
  <2>3. UpdateModel(n) => ~Dry(n)
    <3>1. ASSUME UpdateModel(n) PROVE ~Dry(n)
      <4>1. node[n] \in NodeState /\ node[n].models # {} /\ node[n].models \subseteq Model
            /\ node[n].merger = "push"
        BY <1>0, <3>1 DEF UpdateModel, NodeState
      <4>2. QED
        BY <1>0, <4>1 DEF NodeInv, Dry
    <3>2. QED
      BY <3>1
  <2>4. ASSUME NodeSignal(n)
        PROVE  /\ api.pc \notin {"wait.forced", "wait.pulled"}
               /\ api.pc = "wait.push" => Dry(NextNode)'
    <3>1. /\ node[n].merger \in {"push", "pull"} /\ node[n].models = {} /\ node[n].up
          /\ node'[n].topic_model_inc = node[n].topic_model_inc
      BY <1>0, <2>4 DEF NodeSignal, Running, NodeState
    <3>2. /\ Forcing /\ n = NextNode
          /\ node[n].merger = (IF api.pc = "wait.push" THEN "push" ELSE "pull")
      BY <3>1, ForceIsCalled
    <3>3. api.pc = "wait.push" => \A m \in Model : node'[n].topic_model_inc[m] = Nil
      BY <1>0, <3>1, <3>2 DEF HolderInv
    <3>4. n = NextNode'
      BY <1>1, <3>2 DEF NextNode
    <3>5. QED
      BY <3>2, <3>3, <3>4 DEF Forcing, Dry
  <2>5. QED
    BY <1>1, <2>1, <2>2, <2>3, <2>4 DEF Lessens
<1>5. FlowRest'
  BY <1>1, <1>4, FlowLessens
<1>6. QED
  BY <1>3, <1>5 DEF FlowInv, FlowRest

Drains == {"wait.push", "wait.idle", "wait.queue", "wait.forced", "wait.pulled", "wait.nodes",
           "wait.done"}

\* Tasks are on their way: neither quiet nor drained.
LEMMA FlowBusy ==
  ASSUME SchemaInv, QuietInv, ~quiet, (\E m \in Model : Present(m)) => api.pc \notin Drains,
         UNCHANGED <<schema, topic_model, api, clients, quiet>>,
         \A m \in Model : ~Present(m) => in_progress'[m] = {},
         MarkInv'
  PROVE  FlowRest'
<1>1. SchemaInv'
  BY DEF SchemaInv, Present
<1>2. QuietInv'
  BY DEF QuietInv
<1>3. DrainInv'
  BY DEF DrainInv, Present, Drains, Merged, Published
<1>4. QED
  BY <1>1, <1>2, <1>3 DEF FlowRest

LEMMA HoldersKept ==
  ASSUME NetworkInv, FlowInv, NEW n \in Nodes, ServiceStep(n)
  PROVE  \A k \in Nodes : HolderInv(k)'
<1>0. /\ NetworkNodeTypeOK /\ BatchManagerTypeOK /\ NodeInv(n) /\ node \in [Nodes -> NodeState]
      /\ \A k \in Nodes : HolderInv(k)
  BY DEF NetworkInv, TypeOK, NetworkNodeTypeOK, FlowInv
<1>1. Service(n) /\ clients' = clients
  BY DEF ServiceStep, apiVars
<1>2. HolderInv(n)'
  BY <1>0, <1>1, HolderStep
<1>3. \A k \in Nodes : k # n => node'[k] = node[k]
  <2>1. NetworkNodeTypeOK /\ BatchManagerTypeOK /\ NodeInv(n) /\ Service(n)
    BY <1>0, <1>1
  <2>2. QED
    BY <2>1, ServiceTypes
<1>4. \A k \in Nodes : k # n => HolderInv(k)'
  BY <1>0, <1>1, <1>3, Zenon DEF HolderInv, Dry
<1>5. QED
  BY <1>2, <1>4

LEMMA RequestFlow ==
  ASSUME NetworkInv, FlowInv, NEW n \in Nodes, ServiceStep(n), RequestBatches(n)
  PROVE  FlowInv'
<1>0. /\ NetworkNodeTypeOK /\ BatchManagerTypeOK /\ node \in [Nodes -> NodeState]
      /\ in_progress \in [Model -> SUBSET Batch]
      /\ SchemaInv /\ QuietInv /\ MarkInv /\ DrainInv
  BY DEF NetworkInv, TypeOK, NetworkNodeTypeOK, BatchManagerTypeOK, FlowInv
<1>1. PICK i \in 1..Len(tasks) :
        /\ NextTask(i) /\ tasks[i] \in Batch
        /\ \A b \in Batch : HeldIn(node'[n], b) = HeldIn(node[n], b) + One(tasks[i] = b)
  BY <1>0, RequestCounts
<1> DEFINE x == tasks[i]
<1>2. /\ \A m \in Model : x \notin in_progress[m]
      /\ in_progress' = [m \in Model |-> IF m \in GetModelNames THEN in_progress[m] \cup {x}
                                         ELSE in_progress[m]]
      /\ tasks # <<>> /\ x \in Batch
  BY <1>0, <1>1 DEF NextTask, Selectable
<1>3. ~quiet /\ ((\E m \in Model : Present(m)) => api.pc \notin Drains)
  BY <1>0, <1>2, Zenon DEF QuietInv, DrainInv, IsEverythingProcessed, Drains
<1>4. UNCHANGED <<schema, topic_model, api, clients, quiet>>
  BY DEF ServiceStep, apiVars, RequestBatches, mergerVars
<1>5. \A k \in Nodes : k # n => node'[k] = node[k]
  BY <1>0, ServiceTypes DEF ServiceStep, NetworkInv
<1>6. \A m \in Model : ~Present(m) => in_progress'[m] = {}
  BY <1>0, <1>2 DEF SchemaInv, Present, GetModelNames
<1> HIDE DEF x
<1>7. \A k \in Nodes, b \in Batch : Held(k, b) \in Nat
  BY <1>0, HeldIsNat
<1>8. \A b \in Batch : Held(n, b)' = IF b = x THEN Held(n, b) + 1 ELSE Held(n, b)
  <2>1. ASSUME NEW b \in Batch
        PROVE  HeldIn(node'[n], b) = IF b = x THEN HeldIn(node[n], b) + 1 ELSE HeldIn(node[n], b)
    <3>1. HeldIn(node'[n], b) = HeldIn(node[n], b) + One(x = b)
      BY <1>1 DEF x
    <3>2. One(x = b) = IF b = x THEN 1 ELSE 0
      BY DEF One
    <3>3. HeldIn(node[n], b) \in Nat
      BY <1>7 DEF Held
    <3>4. QED
      BY <3>1, <3>2, <3>3
  <2>2. QED
    BY <2>1 DEF Held
<1>9. \A k \in Nodes, b \in Batch : k # n => Held(k, b)' = Held(k, b)
  BY <1>5 DEF Held
<1>10. MarkInv'
  <2>1. ASSUME NEW m \in Model, Present(m)' \/ quiet', NEW k \in Nodes, NEW b \in Batch
        PROVE  /\ Held(k, b)' <= One(b \in in_progress'[m])
               /\ \A j \in Nodes \ {k} : Held(k, b)' = 0 \/ Held(j, b)' = 0
    <3>1. Present(m) /\ m \in GetModelNames
      BY <1>3, <1>4, <2>1 DEF Present, GetModelNames
    <3>2. /\ \A j \in Nodes : Held(j, b) <= One(b \in in_progress[m])
          /\ \A j \in Nodes \ {k} : Held(k, b) = 0 \/ Held(j, b) = 0
      BY <1>0, <3>1 DEF MarkInv
    <3>3. \A j \in Nodes : Held(j, b) \in Nat
      BY <1>7
    <3>4. in_progress'[m] = in_progress[m] \cup {x}
      BY <1>2, <3>1
    <3>5. CASE b = x
      <4>1. One(b \in in_progress[m]) = 0 /\ One(b \in in_progress'[m]) = 1
        BY <1>2, <3>4, <3>5 DEF One
      <4>2. \A j \in Nodes : Held(j, b) = 0
        BY <3>2, <3>3, <4>1
      <4>3. \A j \in Nodes : Held(j, b)' = IF j = n THEN 1 ELSE 0
        BY <1>8, <1>9, <3>5, <4>2
      <4>4. QED
        BY <4>1, <4>3
    <3>6. CASE b # x
      <4>1. One(b \in in_progress[m]) = One(b \in in_progress'[m])
        BY <3>4, <3>6 DEF One
      <4>2. \A j \in Nodes : Held(j, b)' = Held(j, b)
        BY <1>8, <1>9, <3>6
      <4>3. QED
        BY <3>2, <4>1, <4>2
    <3>7. QED
      BY <3>5, <3>6
  <2>2. QED
    BY <2>1 DEF MarkInv
<1>11. FlowRest'
  BY <1>0, <1>3, <1>4, <1>6, <1>10, FlowBusy
<1>12. QED
  BY <1>11, HoldersKept DEF FlowInv, FlowRest

LEMMA ReportFlow ==
  ASSUME NetworkInv, FlowInv, NEW n \in Nodes, ServiceStep(n), ReportBatches(n)
  PROVE  FlowInv'
<1>0. /\ NetworkNodeTypeOK /\ BatchManagerTypeOK /\ node \in [Nodes -> NodeState]
      /\ in_progress \in [Model -> SUBSET Batch]
      /\ SchemaInv /\ QuietInv /\ MarkInv /\ DrainInv /\ HolderInv(n)
  BY DEF NetworkInv, TypeOK, NetworkNodeTypeOK, BatchManagerTypeOK, FlowInv
<1> DEFINE x == node[n].reported
<1>1. \A b \in Batch : HeldIn(node[n], b) = HeldIn(node'[n], b) + One(x = b)
  BY <1>0, ReportCounts
<1>2. /\ in_progress' = [m \in Model |-> in_progress[m] \ {x}]
      /\ x \in Batch
  <2>1. node[n] \in NodeState /\ node[n].merger = "report"
    BY <1>0 DEF ReportBatches
  <2>2. QED
    BY <1>0, <2>1 DEF ReportBatches, DoneForAll, HolderInv, NodeState
<1> HIDE DEF x
<1>5. \A k \in Nodes : k # n => node'[k] = node[k]
  BY <1>0, ServiceTypes DEF ServiceStep, NetworkInv
<1>7. /\ \A k \in Nodes, b \in Batch : Held(k, b) \in Nat
      /\ \A b \in Batch : Held(n, b)' \in Nat
  <2>1. \A b \in Batch : HeldIn(node'[n], b) \in Nat
    <3>1. node'[n] \in NodeState
      BY <1>0, ServiceTypes DEF ServiceStep, NetworkInv
    <3>2. QED
      BY <3>1, HeldInType
  <2>2. QED
    BY <1>0, <2>1, HeldIsNat DEF Held
<1>8. \A b \in Batch : Held(n, b) = IF b = x THEN Held(n, b)' + 1 ELSE Held(n, b)'
  <2>1. ASSUME NEW b \in Batch
        PROVE  HeldIn(node[n], b) = IF b = x THEN HeldIn(node'[n], b) + 1 ELSE HeldIn(node'[n], b)
    <3>1. HeldIn(node[n], b) = HeldIn(node'[n], b) + One(x = b)
      BY <1>1
    <3>2. One(x = b) = IF b = x THEN 1 ELSE 0
      BY DEF One
    <3>3. HeldIn(node'[n], b) \in Nat
      BY <1>7 DEF Held
    <3>4. QED
      BY <3>1, <3>2, <3>3
  <2>2. QED
    BY <2>1 DEF Held
<1>9. \A k \in Nodes, b \in Batch : k # n => Held(k, b)' = Held(k, b)
  BY <1>5 DEF Held
<1>3. ~quiet /\ ((\E m \in Model : Present(m)) => api.pc \notin Drains)
  <2>1. Held(n, x) # 0
    BY <1>2, <1>7, <1>8
  <2>2. ~Idle(n)
    BY <1>2, <2>1 DEF Idle
  <2>3. QED
    BY <1>0, <2>2, Zenon DEF QuietInv, DrainInv, Drains
<1>4. UNCHANGED <<schema, topic_model, api, clients, quiet>>
  BY DEF ServiceStep, apiVars, ReportBatches, mergerVars
<1>6. \A m \in Model : ~Present(m) => in_progress'[m] = {}
  BY <1>0, <1>2 DEF SchemaInv
<1>10. MarkInv'
  <2>1. ASSUME NEW m \in Model, Present(m)' \/ quiet', NEW k \in Nodes, NEW b \in Batch
        PROVE  /\ Held(k, b)' <= One(b \in in_progress'[m])
               /\ \A j \in Nodes \ {k} : Held(k, b)' = 0 \/ Held(j, b)' = 0
    <3>1. Present(m)
      BY <1>3, <1>4, <2>1 DEF Present
    <3>2. /\ \A j \in Nodes : Held(j, b) <= One(b \in in_progress[m])
          /\ \A j, l \in Nodes : j # l => Held(j, b) = 0 \/ Held(l, b) = 0
      BY <1>0, <3>1 DEF MarkInv
    <3>3. \A j \in Nodes : Held(j, b) \in Nat
      BY <1>7
    <3>4. in_progress'[m] = in_progress[m] \ {x}
      BY <1>2
    <3>a. One(b \in in_progress[m]) \in {0, 1}
      BY DEF One
    <3>5. CASE b = x
      <4>1. One(b \in in_progress'[m]) = 0
        BY <3>4, <3>5 DEF One
      <4>2. Held(n, b) = Held(n, b)' + 1 /\ Held(n, b)' \in Nat
        BY <1>7, <1>8, <3>5
      <4>3. Held(n, b)' = 0 /\ Held(n, b) # 0
        BY <3>2, <3>3, <3>a, <4>2
      <4>4. \A j \in Nodes : Held(j, b)' = 0
        BY <1>9, <3>2, <4>3
      <4>5. QED
        BY <4>1, <4>4
    <3>6. CASE b # x
      <4>1. One(b \in in_progress[m]) = One(b \in in_progress'[m])
        BY <3>4, <3>6 DEF One
      <4>2. \A j \in Nodes : Held(j, b)' = Held(j, b)
        BY <1>8, <1>9, <3>6
      <4>3. QED
        BY <3>2, <4>1, <4>2
    <3>7. QED
      BY <3>5, <3>6
  <2>2. QED
    BY <2>1 DEF MarkInv
<1>11. FlowRest'
  BY <1>0, <1>3, <1>4, <1>6, <1>10, FlowBusy
<1>12. QED
  BY <1>11, HoldersKept DEF FlowInv, FlowRest

\* What the master's merger makes of its tasks and of its queue.
LEMMA MergerEffects ==
  ASSUME NetworkInv, SchemaInv, OneModel, MergerThread
  PROVE  /\ merger_queue = <<>> =>
              merger_queue' = <<>> /\ (merger.pc # "merge" => merger'.pc # "merge")
         /\ merger.pc # "merge" /\ MasterDry => MasterDry'
         /\ \/ sync' = sync
            \/ merger'.pc = "run" /\ api.pc = "wait.forced"
            \/ /\ merger'.pc = "run" /\ api.pc = "wait.pulled"
               /\ (\E m \in Model : Present(m)) => MasterDry'
         /\ \A m \in Model : Present(m) => topic_model'[m] # Nil
<1>0. /\ MergerTypeOK /\ MasterInv
      /\ topic_model \in [Model -> TopicModel \cup {Nil}]
      /\ topic_model_inc \in [Model -> Counts \cup {Nil}]
      /\ merger_queue \in Seq(Increment) /\ internal_task_queue \in Seq(Tasks)
      /\ merger \in [pc : {"idle", "run", "merge"}, increment : Increment \cup {Nil}]
  BY DEF NetworkInv, TypeOK, NetworkNodeTypeOK, MergerTypeOK
<1>a. \A m \in Model : Present(m) => topic_model[m] # Nil
  BY DEF SchemaInv
<1>1. CASE MergerWake
  <2>1. merger'.pc = "run"
    BY <1>0, <1>1 DEF MergerWake
  <2>2. QED
    BY <1>a, <1>1, <2>1 DEF MergerWake, MasterDry
<1>2. CASE MergerTask
  <2> DEFINE task == Head(internal_task_queue)
  <2>0. /\ merger.pc = "run" /\ merger' = merger /\ merger_queue' = merger_queue
        /\ internal_task_queue # <<>> /\ task \in Tasks
    BY <1>0, <1>2 DEF MergerTask
  <2>1. task.type # "kDisposeModel" =>
          api.pc = (IF task.type = "kForcePushTopicModelIncrement" THEN "wait.forced"
                    ELSE "wait.pulled")
    <3>1. 1 \in 1..Len(internal_task_queue) /\ task = internal_task_queue[1]
      BY <1>0, <2>0
    <3>2. QED
      BY <1>0, <3>1 DEF MasterInv
  <2>2. \/ /\ topic_model_inc' = [topic_model_inc EXCEPT ![task.model] = Nil]
           /\ UNCHANGED <<topic_model, sync>>
        \/ /\ task.type = "kForcePushTopicModelIncrement"
           /\ UNCHANGED <<topic_model, topic_model_inc>>
        \/ /\ task.type = "kForcePullTopicModel"
           /\ topic_model' = [m \in Model |-> IF m \in Pulled
                                THEN [n_wt |-> topic_model_inc[m], edition |-> 0]
                                ELSE topic_model[m]]
           /\ topic_model_inc' = [m \in Model |-> IF m \in Pulled THEN Nil ELSE topic_model_inc[m]]
    BY <1>2 DEF MergerTask
  <2> HIDE DEF task
  <2>3. CASE /\ topic_model_inc' = [topic_model_inc EXCEPT ![task.model] = Nil]
             /\ UNCHANGED <<topic_model, sync>>
    <3>1. MasterDry => MasterDry'
      BY <1>0, <2>3 DEF MasterDry
    <3>2. QED
      BY <1>a, <2>0, <2>3, <3>1
  <2>4. CASE /\ task.type = "kForcePushTopicModelIncrement"
             /\ UNCHANGED <<topic_model, topic_model_inc>>
    BY <1>a, <2>0, <2>1, <2>4 DEF MasterDry
  <2>5. CASE /\ task.type = "kForcePullTopicModel"
             /\ topic_model' = [m \in Model |-> IF m \in Pulled
                                  THEN [n_wt |-> topic_model_inc[m], edition |-> 0]
                                  ELSE topic_model[m]]
             /\ topic_model_inc' = [m \in Model |-> IF m \in Pulled THEN Nil ELSE topic_model_inc[m]]
    <3>1. \A m \in Model : m \in Pulled <=> topic_model[m] # Nil /\ topic_model_inc[m] # Nil
      <4>1. ASSUME NEW m \in Model
            PROVE  m \in Pulled <=> topic_model[m] # Nil /\ topic_model_inc[m] # Nil
        <5>1. m <= m /\ \A k \in Model : k = m
          BY ModelAssumption DEF OneModel
        <5>2. QED
          BY <5>1 DEF Pulled
      <4>2. QED
        BY <4>1
    <3>2. ASSUME NEW m \in Model, Present(m) PROVE topic_model'[m] # Nil
      <4>1. CASE m \in Pulled
        <5>1. topic_model_inc[m] \in Counts
          BY <1>0, <3>1, <4>1
        <5>2. topic_model'[m] = [n_wt |-> topic_model_inc[m], edition |-> 0]
          BY <2>5, <4>1
        <5>3. topic_model'[m] \in TopicModel
          BY <5>1, <5>2 DEF TopicModel
        <5>4. QED
          BY <5>3, NilIsNoModel
      <4>2. CASE m \notin Pulled
        BY <1>a, <2>5, <3>2, <4>2
      <4>3. QED
        BY <4>1, <4>2
    <3>3. MasterDry => MasterDry'
      BY <2>5 DEF MasterDry
    <3>4. (\E m \in Model : Present(m)) => MasterDry'
      BY <1>a, <2>5, <3>1 DEF MasterDry, OneModel
    <3>5. api.pc = "wait.pulled"
      BY <2>1, <2>5
    <3>6. QED
      BY <2>0, <3>2, <3>3, <3>4, <3>5
  <2>6. QED
    BY <2>2, <2>3, <2>4, <2>5
<1>3. CASE MergerPop
  BY <1>a, <1>3 DEF MergerPop, MasterDry
<1>4. CASE MergerMerge
  <2>1. merger.pc = "merge" /\ merger'.pc = "run"
    BY <1>4 DEF MergerMerge
  <2>2. QED
    BY <1>a, <1>4, <2>1 DEF MergerMerge
<1>5. CASE MergerIdle
  <2>1. merger'.pc = "idle"
    BY <1>0, <1>5 DEF MergerIdle
  <2>2. QED
    BY <1>a, <1>5, <2>1 DEF MergerIdle, MasterDry
<1>6. QED
  BY <1>1, <1>2, <1>3, <1>4, <1>5 DEF MergerThread

LEMMA MergerFlow ==
  ASSUME NetworkInv, FlowInv, OneModel, MergerStep
  PROVE  FlowInv'
<1>0. SchemaInv /\ QuietInv /\ MarkInv /\ DrainInv /\ \A n \in Nodes : HolderInv(n)
  BY DEF FlowInv
<1>1. /\ schema' = schema /\ tasks' = tasks /\ in_progress' = in_progress /\ node' = node
      /\ api' = api /\ clients' = clients /\ due' = due /\ quiet' = quiet
      /\ NextNode' = NextNode
  BY DEF MergerStep, batchManagerVars, apiVars, NextNode
<1>2. merger_queue = <<>> =>
        merger_queue' = <<>> /\ (merger.pc # "merge" => merger'.pc # "merge")
  BY <1>0, MergerEffects DEF MergerStep
<1>3. merger.pc # "merge" /\ MasterDry => MasterDry'
  BY <1>0, MergerEffects DEF MergerStep
<1>4. \/ sync' = sync
      \/ merger'.pc = "run" /\ api.pc = "wait.forced"
      \/ /\ merger'.pc = "run" /\ api.pc = "wait.pulled"
         /\ (\E m \in Model : Present(m)) => MasterDry'
  BY <1>0, MergerEffects DEF MergerStep
<1>5. \A m \in Model : Present(m) => topic_model'[m] # Nil
  BY <1>0, MergerEffects DEF MergerStep
<1>6. /\ \A n \in Nodes, b \in Batch : Held(n, b)' = Held(n, b)
      /\ \A n \in Nodes : Idle(n)' = Idle(n) /\ Dry(n)' = Dry(n)
  BY <1>1 DEF Held, Idle, Dry
<1>7. \A n \in Nodes : HolderInv(n)'
  BY <1>0, <1>1, Zenon DEF HolderInv, Dry
<1>8. SchemaInv'
  BY <1>0, <1>1, <1>5 DEF SchemaInv, Present
<1>9. QuietInv'
  BY <1>0, <1>1, <1>2, <1>3, <1>6 DEF QuietInv
<1>10. MarkInv'
  BY <1>0, <1>1, <1>6 DEF MarkInv, Present
<1>11. DrainInv'
  <2>1. SUFFICES ASSUME (\E m \in Model : Present(m))'
                 PROVE  DrainInv'
    BY DEF DrainInv
  <2>2. (\E m \in Model : Present(m)) /\ DrainInv
    BY <1>0, <1>1, <2>1 DEF Present
  <2>3. /\ api.pc \in Drains => IsEverythingProcessed /\ \A n \in Nodes : Idle(n)
        /\ api.pc = "wait.push" => \A n \in Nodes : Dry(n) \/ n \in api.nodes
        /\ api.pc = "wait.push" /\ api.called /\ sync => Dry(NextNode)
        /\ api.pc \in Drains \ {"wait.push"} => \A n \in Nodes : Dry(n)
        /\ api.pc \in {"wait.forced", "wait.pulled", "wait.nodes", "wait.done"} => merger_queue = <<>>
        /\ Merged => merger.pc # "merge"
        /\ Published => MasterDry
    BY <2>2 DEF DrainInv, Drains
  <2>4. IsEverythingProcessed' = IsEverythingProcessed
    BY <1>1 DEF IsEverythingProcessed
  <2>5. /\ Merged' => merger'.pc # "merge"
        /\ api.pc \in {"wait.forced", "wait.pulled", "wait.nodes", "wait.done"} => merger_queue' = <<>>
    BY <1>1, <1>2, <1>4, <2>3 DEF Merged
  <2>6. Published' => MasterDry'
    BY <1>1, <1>3, <1>4, <2>2, <2>3 DEF Merged, Published
  <2>7. api.pc = "wait.push" => sync' = sync
    BY <1>4
  <2>8. Dry(NextNode)' = Dry(NextNode)
    BY <1>1 DEF Dry, NextNode
  <2>9. QED
    BY <1>1, <1>6, <2>3, <2>4, <2>5, <2>6, <2>7, <2>8 DEF DrainInv, Drains
<1>12. QED
  BY <1>7, <1>8, <1>9, <1>10, <1>11 DEF FlowInv

-----------------------------------------------------------------------------
(* The steps of a call preserve the invariants.                            *)
\* Nothing that is counted moves, or a node loses what it has.
SameFlow ==
  /\ UNCHANGED <<schema, batchManagerVars, topic_model_inc, merger_queue, merger>>
  /\ \A n \in Nodes, b \in Batch : Held(n, b)' = Held(n, b)
  /\ \A n \in Nodes : Idle(n)' = Idle(n) /\ Dry(n)' = Dry(n)

LessFlow ==
  /\ UNCHANGED <<schema, batchManagerVars, topic_model_inc, merger_queue, merger>>
  /\ \A n \in Nodes, b \in Batch : Held(n, b)' \in {Held(n, b), 0}
  /\ \A n \in Nodes : Dry(n) => Dry(n)'

LEMMA SameNodes ==
  ASSUME UNCHANGED <<schema, batchManagerVars, topic_model_inc, merger_queue, merger, node>>
  PROVE  SameFlow /\ LessFlow
BY DEF SameFlow, LessFlow, Held, Idle, Dry

\* What a call may hold.
CallFlow ==
  /\ api.pc \in {"create", "configure"} => api.nodes \subseteq clients
  /\ api.pc = "dispose" => ~Present(api.model)
  /\ api.pc \in {"create", "dispose"} => quiet
  /\ api.pc = "add" => ~quiet

LEMMA CallFlowHolds == FlowInv => CallFlow
BY Zenon DEF FlowInv, SchemaInv, QuietInv, CallFlow

LEMMA FlowKept ==
  ASSUME FlowInv, LessFlow, CallFlow', DrainInv',
         quiet' => quiet /\ due' = due,
         \A m \in Model : Present(m) => topic_model'[m] # Nil
  PROVE  FlowRest'
<1>1. SchemaInv'
  BY DEF FlowInv, SchemaInv, LessFlow, CallFlow, batchManagerVars, Present
<1>2. QuietInv'
  <2>1. ASSUME quiet'
        PROVE  /\ tasks' = <<>> /\ merger_queue' = <<>> /\ merger'.pc # "merge" /\ MasterDry'
               /\ \A n \in Nodes : Idle(n)' /\ Dry(n)'
               /\ \A m \in Model : due'[m] = NoCounts /\ in_progress'[m] = {}
    <3>1. /\ tasks = <<>> /\ merger_queue = <<>> /\ merger.pc # "merge" /\ MasterDry
          /\ \A n \in Nodes : Idle(n) /\ Dry(n)
          /\ \A m \in Model : due[m] = NoCounts /\ in_progress[m] = {}
      BY <2>1, Zenon DEF FlowInv, QuietInv
    <3>2. \A n \in Nodes, b \in Batch : Held(n, b)' = 0
      BY <3>1 DEF LessFlow, Idle
    <3>3. \A n \in Nodes : Idle(n)'
      BY <3>2 DEF Idle
    <3>4. QED
      BY <2>1, <3>1, <3>3 DEF LessFlow, batchManagerVars, MasterDry
  <2>2. QED
    BY <2>1 DEF QuietInv, CallFlow
<1>3. MarkInv'
  <2>1. MarkInv
    BY DEF FlowInv
  <2>2. ASSUME NEW m \in Model, Present(m)' \/ quiet', NEW n \in Nodes, NEW b \in Batch
        PROVE  /\ Held(n, b)' <= One(b \in in_progress'[m])
               /\ \A k \in Nodes \ {n} : Held(n, b)' = 0 \/ Held(k, b)' = 0
    <3>1. Present(m) \/ quiet
      BY <2>2 DEF Present, LessFlow
    <3>2. /\ Held(n, b) <= One(b \in in_progress[m])
          /\ \A k \in Nodes \ {n} : Held(n, b) = 0 \/ Held(k, b) = 0
      BY <2>1, <3>1 DEF MarkInv
    <3>3. in_progress' = in_progress
      BY DEF LessFlow, batchManagerVars
    <3>4. \A k \in Nodes : Held(k, b)' \in {Held(k, b), 0}
      BY DEF LessFlow
    <3>5. 0 <= One(b \in in_progress[m])
      BY DEF One
    <3>6. QED
      BY <3>2, <3>3, <3>4, <3>5
  <2>3. QED
    BY <2>2 DEF MarkInv
<1>4. QED
  BY <1>1, <1>2, <1>3 DEF FlowRest

LEMMA NotDraining ==
  ASSUME api'.pc \notin Drains
  PROVE  DrainInv'
BY DEF DrainInv, Drains, Merged, Published

\* A call starts, or goes on elsewhere.
LEMMA CallsStart ==
  ASSUME NetworkInv, FlowInv,
         \/ \E endpoints \in NodeSets : Reconfigure(endpoints)
         \/ \E b \in Batch : AddBatch(b)
         \/ \E n \in IterationCounts : InvokeIteration(n)
         \/ WaitIdle \/ WaitTimeout
  PROVE  FlowInv'
<1>0. api \in Api
  BY DEF NetworkInv, TypeOK
<1>1. /\ UNCHANGED <<schema, batchManagerVars, topic_model_inc, merger_queue, merger, node>>
      /\ UNCHANGED <<topic_model, clients, due>>
      /\ quiet' \in {quiet, FALSE}
      /\ api' = api \/ api'.pc \notin Drains
      /\ api' = api => api.pc = "ready"
      /\ api'.pc \in {"ready", "connect", "add", "wait.poll"}
      /\ api'.pc = "add" => ~quiet'
  <2>1. CASE \E endpoints \in NodeSets : Reconfigure(endpoints)
    BY <1>0, <2>1 DEF Reconfigure, Call, Api, Drains, mergerVars
  <2>2. CASE \E b \in Batch : AddBatch(b)
    BY <1>0, <2>2 DEF AddBatch, Call, Api, Drains, mergerVars
  <2>3. CASE \E n \in IterationCounts : InvokeIteration(n)
    BY <1>0, <2>3 DEF InvokeIteration, Call, Api, Drains, mergerVars
  <2>4. CASE WaitIdle
    BY <1>0, <2>4 DEF WaitIdle, Goto, Call, Api, Drains, mergerVars
  <2>5. CASE WaitTimeout
    BY <1>0, <2>5 DEF WaitTimeout, Return, Ready, Api, Drains, mergerVars
  <2>6. QED
    BY <2>1, <2>2, <2>3, <2>4, <2>5
<1>2. LessFlow
  BY <1>1, SameNodes
<1>3. api'.pc \notin Drains
  BY <1>1 DEF Drains
<1>4. CallFlow'
  BY <1>1 DEF CallFlow
<1>5. \A m \in Model : Present(m) => topic_model'[m] # Nil
  BY <1>1 DEF FlowInv, SchemaInv
<1>a. DrainInv'
  BY <1>3, NotDraining
<1>b. quiet' => quiet /\ due' = due
  BY <1>1
<1>6. FlowRest'
  BY <1>2, <1>4, <1>5, <1>a, <1>b, FlowKept
<1>7. \A n \in Nodes : HolderInv(n)'
  BY <1>1, Zenon DEF FlowInv, HolderInv, Dry
<1>8. QED
  BY <1>6, <1>7 DEF FlowInv, FlowRest

\* DrainInv, with the places by name.
Emptied == {"wait.idle", "wait.queue", "wait.forced", "wait.pulled", "wait.nodes", "wait.done"}

LEMMA DrainAs ==
  DrainInv <=>
    ((\E m \in Model : Present(m)) =>
      /\ api.pc \in Drains => IsEverythingProcessed /\ \A n \in Nodes : Idle(n)
      /\ api.pc = "wait.push" => \A n \in Nodes : Dry(n) \/ n \in api.nodes
      /\ api.pc = "wait.push" /\ api.called /\ sync => Dry(NextNode)
      /\ api.pc \in Emptied => \A n \in Nodes : Dry(n)
      /\ api.pc \in {"wait.forced", "wait.pulled", "wait.nodes", "wait.done"} => merger_queue = <<>>
      /\ Merged => merger.pc # "merge"
      /\ Published => MasterDry)
BY Zenon DEF DrainInv, Drains, Emptied

\* A call goes on, on the master: what it waited for has come.
WaitSteps ==
  \/ WaitProcessed \/ WaitIsIdle \/ WaitQueueNotEmpty \/ WaitPush \/ WaitPull \/ WaitPulled
  \/ NodesDone \/ NodeForceNoInstance \/ NodeForced

\* Where a call goes when every node has replied.
LEMMA DoneMoves ==
  ASSUME api \in Api, NodesDone
  PROVE  /\ api.nodes = {}
         /\ \/ api'.pc \in {"ready", "disconnect"}
            \/ api'.pc = "configure" /\ api'.nodes = clients
            \/ api.pc = "wait.push" /\ api'.pc = "wait.idle"
            \/ api.pc = "wait.nodes" /\ api'.pc = "wait.done"
<1>1. api.nodes = {}
  BY DEF NodesDone
<1>2. CASE Return
  BY <1>1, <1>2 DEF Return, Ready
<1>3. CASE api' = [api EXCEPT !.pc = "disconnect", !.nodes = api.drop]
  <2>1. api'.pc = "disconnect"
    BY <1>3 DEF Api
  <2>2. QED
    BY <1>1, <2>1
<1>4. CASE api' = [api EXCEPT !.pc = "configure", !.nodes = clients]
  BY <1>1, <1>4 DEF Api
<1>5. CASE api.pc = "wait.push" /\ Goto("wait.idle")
  BY <1>1, <1>5 DEF Goto, Api
<1>6. CASE api.pc = "wait.nodes" /\ Goto("wait.done")
  BY <1>1, <1>6 DEF Goto, Api
<1>7. QED
  BY <1>2, <1>3, <1>4, <1>5, <1>6 DEF NodesDone

LEMMA WaitStepMoves ==
  ASSUME NetworkInv, FlowInv, WaitSteps
  PROVE  /\ UNCHANGED <<schema, batchManagerVars, topic_model, topic_model_inc, merger_queue,
                        merger, node, clients, due, quiet>>
         /\ CallFlow' /\ SameFlow /\ LessFlow
<1>0. api \in Api /\ CallFlow /\ CallInv
  BY CallFlowHolds, Zenon DEF NetworkInv, TypeOK
<1>1. UNCHANGED <<schema, batchManagerVars, topic_model, topic_model_inc, merger_queue,
                  merger, node, clients, due, quiet>>
  BY Zenon DEF WaitSteps, WaitProcessed, WaitIsIdle, WaitQueueNotEmpty, WaitPush, WaitPull,
     WaitPulled, NodesDone, NodeForceNoInstance, NodeForced, mergerVars
<1>2. SameFlow /\ LessFlow
  BY <1>1, SameNodes
<1>3. CASE NodesDone
  <2>1. \/ api'.pc \in {"ready", "disconnect", "wait.idle", "wait.done"}
        \/ api'.pc = "configure" /\ api'.nodes = clients
    BY <1>0, <1>3, DoneMoves
  <2>2. QED
    BY <1>1, <1>2, <2>1 DEF CallFlow
<1>4. CASE NodeForceNoInstance \/ NodeForced
  <2>1. api'.pc = api.pc /\ api.pc \in {"refresh", "wait.push", "wait.nodes"}
    BY <1>0, <1>4 DEF NodeForceNoInstance, NodeForced, Forcing, Replied, Api
  <2>2. QED
    BY <1>1, <1>2, <2>1 DEF CallFlow
<1>5. CASE WaitProcessed \/ WaitIsIdle \/ WaitQueueNotEmpty \/ WaitPush \/ WaitPull \/ WaitPulled
  <2>1. api'.pc \in Drains
    BY <1>0, <1>5 DEF WaitProcessed, WaitIsIdle, WaitQueueNotEmpty, WaitPush, WaitPull,
       WaitPulled, Goto, At, Api, Drains
  <2>2. QED
    BY <1>1, <1>2, <2>1 DEF CallFlow, Drains
<1>6. QED
  BY <1>3, <1>4, <1>5 DEF WaitSteps

LEMMA WaitDrains ==
  ASSUME NetworkInv, FlowInv, WaitSteps
  PROVE  DrainInv'
<1>0. /\ api \in Api /\ CallInv /\ NetworkNodeTypeOK /\ TypeOK
      /\ DrainInv /\ MarkInv /\ \A n \in Nodes : HolderInv(n)
      /\ in_progress \in [Model -> SUBSET Batch]
  BY DEF NetworkInv, TypeOK, FlowInv, BatchManagerTypeOK
<1>1. /\ UNCHANGED <<schema, batchManagerVars, topic_model, topic_model_inc, merger_queue,
                     merger, node, clients, due, quiet>>
      /\ SameFlow
  BY WaitStepMoves, Zenon
<1>2. /\ \A n \in Nodes : Idle(n)' = Idle(n) /\ Dry(n)' = Dry(n)
      /\ IsEverythingProcessed' = IsEverythingProcessed /\ MasterDry' = MasterDry
      /\ merger_queue' = merger_queue /\ merger' = merger
      /\ (\E m \in Model : Present(m))' = \E m \in Model : Present(m)
  BY <1>1 DEF SameFlow, IsEverythingProcessed, batchManagerVars, MasterDry, Present
<1>3. SUFFICES ASSUME \E m \in Model : Present(m)
               PROVE  DrainInv'
  BY <1>2, DrainAs, Zenon DEF DrainInv
<1>4. /\ api.pc \in Drains => IsEverythingProcessed /\ \A n \in Nodes : Idle(n)
      /\ api.pc = "wait.push" => \A n \in Nodes : Dry(n) \/ n \in api.nodes
      /\ api.pc = "wait.push" /\ api.called /\ sync => Dry(NextNode)
      /\ api.pc \in Emptied => \A n \in Nodes : Dry(n)
      /\ api.pc \in {"wait.forced", "wait.pulled", "wait.nodes", "wait.done"} => merger_queue = <<>>
      /\ Merged => merger.pc # "merge"
      /\ Published => MasterDry
  BY <1>0, <1>3, DrainAs, Zenon
<1>5. CASE WaitProcessed
  <2>1. /\ IsEverythingProcessed /\ api'.pc = "wait.push" /\ api'.nodes = clients
        /\ ~api'.called
    BY <1>0, <1>5 DEF WaitProcessed, At, CallInv, Forcing, Api
  <2>2. ASSUME NEW n \in Nodes PROVE Idle(n)
    <3>1. ASSUME NEW b \in Batch PROVE Held(n, b) = 0
      <4>1. PICK m \in Model : Present(m)
        BY <1>3
      <4>2. Held(n, b) <= One(b \in in_progress[m]) /\ in_progress[m] = {}
        BY <1>0, <2>1, <4>1 DEF MarkInv, IsEverythingProcessed
      <4>3. Held(n, b) \in Nat
        BY <1>0, HeldIsNat
      <4>4. QED
        BY <4>2, <4>3 DEF One
    <3>2. QED
      BY <3>1 DEF Idle
  <2>3. \A n \in Nodes : Dry(n) \/ n \in clients
    BY <1>0 DEF HolderInv
  <2>4. QED
    BY <1>2, <2>1, <2>2, <2>3 DEF DrainInv, Merged, Published
<1>6. CASE WaitIsIdle \/ WaitQueueNotEmpty
  <2>1. api.pc \in {"wait.idle", "wait.queue"} /\ api'.pc \in {"wait.idle", "wait.queue"}
    BY <1>0, <1>6 DEF WaitIsIdle, WaitQueueNotEmpty, Goto, At, Api
  <2>2. QED
    BY <1>2, <1>4, <2>1 DEF DrainInv, Drains, Emptied, Merged, Published
<1>7. CASE WaitPush
  <2>1. api.pc = "wait.queue" /\ api'.pc = "wait.forced" /\ merger_queue = <<>> /\ ~sync'
    BY <1>0, <1>7 DEF WaitPush, ForceTask, Goto, At, Api
  <2>2. QED
    BY <1>2, <1>4, <2>1 DEF DrainInv, Drains, Emptied, Merged, Published
<1>8. CASE WaitPull
  <2>1. api.pc = "wait.forced" /\ api'.pc = "wait.pulled" /\ sync /\ ~sync'
    BY <1>0, <1>8 DEF WaitPull, ForceTask, Goto, At, Api
  <2>2. QED
    BY <1>2, <1>4, <2>1 DEF DrainInv, Drains, Emptied, Merged, Published
<1>9. CASE WaitPulled
  <2>1. api.pc = "wait.pulled" /\ api'.pc = "wait.nodes" /\ sync
    BY <1>0, <1>9 DEF WaitPulled, At, Api
  <2>2. QED
    BY <1>2, <1>4, <2>1 DEF DrainInv, Drains, Emptied, Merged, Published
<1>10. CASE NodesDone
  <2>1. \/ api'.pc \notin Drains
        \/ api.pc = "wait.push" /\ api'.pc = "wait.idle" /\ api.nodes = {}
        \/ api.pc = "wait.nodes" /\ api'.pc = "wait.done"
    BY <1>0, <1>10, DoneMoves DEF Drains
  <2>2. QED
    BY <1>2, <1>4, <2>1 DEF DrainInv, Drains, Emptied, Merged, Published
<1>11. CASE NodeForceNoInstance \/ NodeForced
  <2>1. /\ api'.pc = api.pc /\ api'.nodes = api.nodes \ {NextNode} /\ ~api'.called
        /\ api.nodes # {} /\ sync' = sync
        /\ NodeForceNoInstance => ~node[NextNode].instance
        /\ NodeForced => api.called /\ sync
    BY <1>0, <1>11 DEF NodeForceNoInstance, NodeForced, NodesLeft, At, Replied, Api
  <2>2. NextNode \in Nodes
    BY <1>0, <2>1, NextNodeOK
  <2>3. api.pc = "wait.push" => Dry(NextNode)
    BY <1>0, <1>4, <1>11, <2>1, <2>2 DEF HolderInv
  <2>4. api.pc = "wait.push" => \A n \in Nodes : Dry(n) \/ n \in api'.nodes
    BY <1>4, <2>1, <2>3
  <2>5. QED
    BY <1>2, <1>4, <2>1, <2>4 DEF DrainInv, Drains, Emptied, Merged, Published
<1>12. QED
  BY <1>5, <1>6, <1>7, <1>8, <1>9, <1>10, <1>11 DEF WaitSteps

LEMMA WaitFlow ==
  ASSUME NetworkInv, FlowInv, WaitSteps
  PROVE  FlowInv'
<1>1. /\ UNCHANGED <<schema, batchManagerVars, topic_model, topic_model_inc, merger_queue,
                     merger, node, clients, due, quiet>>
      /\ CallFlow' /\ SameFlow /\ LessFlow
  BY WaitStepMoves, Zenon
<1>2. DrainInv'
  BY WaitDrains
<1>3. (quiet' => quiet /\ due' = due) /\ \A m \in Model : Present(m) => topic_model'[m] # Nil
  BY <1>1 DEF FlowInv, SchemaInv
<1>4. FlowRest'
  BY <1>1, <1>2, <1>3, FlowKept
<1>5. \A n \in Nodes : HolderInv(n)'
  BY <1>1, Zenon DEF FlowInv, HolderInv, Dry
<1>6. QED
  BY <1>4, <1>5 DEF FlowInv, FlowRest

LEMMA ReturnFlow ==
  ASSUME NetworkInv, FlowInv, WaitReturn
  PROVE  FlowInv'
<1>1. /\ UNCHANGED <<schema, batchManagerVars, topic_model, topic_model_inc, merger_queue,
                     merger, node, clients>>
      /\ api.pc = "wait.done" /\ api' = Ready
      /\ due' = [m \in Model |-> NoCounts] /\ quiet' = (quiet \/ EnabledModels # {})
  BY Zenon DEF WaitReturn, Return, At, mergerVars
<1>2. SameFlow
  BY <1>1, SameNodes
<1>3. /\ SchemaInv /\ QuietInv /\ DrainInv /\ \A n \in Nodes : HolderInv(n)
  BY DEF FlowInv
<1>4. SchemaInv'
  BY <1>1, <1>3 DEF SchemaInv, Present, batchManagerVars, Ready
<1>5. DrainInv'
  BY <1>1, NotDraining DEF Ready, Drains
<1>6. quiet' => /\ tasks = <<>> /\ merger_queue = <<>> /\ merger.pc # "merge" /\ MasterDry
                /\ \A n \in Nodes : Idle(n) /\ Dry(n)
                /\ \A m \in Model : in_progress[m] = {}
  <2>1. EnabledModels # {} => \E m \in Model : Present(m)
    BY DEF EnabledModels, Present
  <2>2. CASE quiet
    BY <1>3, <2>2, Zenon DEF QuietInv
  <2>3. CASE EnabledModels # {}
    BY <1>1, <1>3, <2>1, <2>3 DEF DrainInv, IsEverythingProcessed, Merged, Published
  <2>4. QED
    BY <1>1, <2>2, <2>3
<1>7. QuietInv'
  <2>1. quiet' => \A n \in Nodes : Idle(n)' /\ Dry(n)'
    BY <1>2, <1>6 DEF SameFlow
  <2>2. MasterDry' = MasterDry
    BY <1>1 DEF MasterDry
  <2>3. \A m \in Model : due'[m] = NoCounts
    BY <1>1
  <2>4. QED
    BY <1>1, <1>6, <2>1, <2>2, <2>3 DEF QuietInv, Ready, batchManagerVars
<1>8. MarkInv'
  <2>1. ASSUME NEW m \in Model, Present(m)' \/ quiet', NEW n \in Nodes, NEW b \in Batch
        PROVE  /\ Held(n, b)' <= One(b \in in_progress'[m])
               /\ \A k \in Nodes \ {n} : Held(n, b)' = 0 \/ Held(k, b)' = 0
    <3>1. Held(n, b) = 0
      <4>1. CASE Present(m)'
        BY <1>1, <1>3, <4>1 DEF DrainInv, Present, Idle
      <4>2. CASE quiet'
        BY <1>6, <4>2 DEF Idle
      <4>3. QED
        BY <2>1, <4>1, <4>2
    <3>2. Held(n, b)' = 0
      BY <1>2, <3>1 DEF SameFlow
    <3>3. QED
      BY <3>2 DEF One
  <2>2. QED
    BY <2>1 DEF MarkInv
<1>9. \A n \in Nodes : HolderInv(n)'
  BY <1>1, <1>3, Zenon DEF HolderInv, Dry
<1>10. QED
  BY <1>4, <1>5, <1>7, <1>8, <1>9 DEF FlowInv

LEMMA AddFlow ==
  ASSUME NetworkInv, FlowInv, InvokeAdd
  PROVE  FlowInv'
<1>0. api \in Api /\ SchemaInv /\ QuietInv /\ MarkInv /\ \A n \in Nodes : HolderInv(n)
  BY DEF NetworkInv, TypeOK, FlowInv
<1>1. /\ UNCHANGED <<schema, topic_model, topic_model_inc, merger_queue, merger, node, clients,
                     quiet, in_progress>>
      /\ api.pc = "add" /\ api'.pc \in {"add", "ready"}
  <2>1. /\ api.pc = "add"
        /\ \/ api' = [api EXCEPT !.batches = api.batches \ {Min(api.batches)}]
           \/ api' = [api EXCEPT !.batches = disk, !.iterations = @ - 1]
           \/ api' = Ready
    BY DEF InvokeAdd, At, Return
  <2>2. api'.pc \in {"add", "ready"}
    <3>1. CASE api' = [api EXCEPT !.batches = api.batches \ {Min(api.batches)}]
      <4> DEFINE rest == api.batches \ {Min(api.batches)}
      <4> HIDE DEF rest
      <4>1. api' = [api EXCEPT !.batches = rest]
        BY <3>1 DEF rest
      <4>2. QED
        BY <1>0, <2>1, <4>1 DEF Api
    <3>2. CASE api' = [api EXCEPT !.batches = disk, !.iterations = @ - 1]
      BY <1>0, <2>1, <3>2 DEF Api
    <3>3. CASE api' = Ready
      BY <3>3 DEF Ready
    <3>4. QED
      BY <2>1, <3>1, <3>2, <3>3
  <2>3. UNCHANGED <<schema, topic_model, topic_model_inc, merger_queue, merger, node, clients,
                    quiet, in_progress>>
    BY DEF InvokeAdd, Add, mergerVars
  <2>4. QED
    BY <2>1, <2>2, <2>3
<1>2. ~quiet
  BY <1>0, <1>1 DEF QuietInv
<1>3. SchemaInv'
  BY <1>0, <1>1 DEF SchemaInv, Present
<1>4. QuietInv'
  BY <1>1, <1>2 DEF QuietInv
<1>5. DrainInv'
  BY <1>1, NotDraining DEF Drains
<1>6. MarkInv'
  BY <1>0, <1>1, Zenon DEF MarkInv, Held, Present
<1>7. \A n \in Nodes : HolderInv(n)'
  BY <1>0, <1>1, Zenon DEF HolderInv, Dry
<1>8. QED
  BY <1>3, <1>4, <1>5, <1>6, <1>7 DEF FlowInv

\* A step of a call that gives node n the state s, which holds what n held or nothing.
Gives(n, s) ==
  /\ node' = [node EXCEPT ![n] = s]
  /\ UNCHANGED <<schema, batchManagerVars, mergerVars>>
  /\ \/ s = NoInstance
     \/ /\ s.batches = node[n].batches /\ s.processor_queue = node[n].processor_queue
        /\ s.batch = node[n].batch /\ s.todo = node[n].todo
        /\ s.merger_queue = node[n].merger_queue /\ s.reported = node[n].reported
        /\ s.topic_model_inc = node[n].topic_model_inc
        /\ s.merger = node[n].merger /\ s.models = node[n].models /\ s.up = node[n].up

LEMMA GivenCounts ==
  ASSUME NetworkInv, NEW n \in Nodes, NEW s, Gives(n, s)
  PROVE  /\ LessFlow /\ topic_model' = topic_model /\ node'[n] = s
         /\ \A k \in Nodes : k # n => node'[k] = node[k]
         /\ s # NoInstance => SameFlow
<1>0. node \in [Nodes -> NodeState]
  BY DEF NetworkInv, TypeOK, NetworkNodeTypeOK
<1>1. /\ node'[n] = s /\ \A k \in Nodes : k # n => node'[k] = node[k]
      /\ UNCHANGED <<schema, batchManagerVars, topic_model, topic_model_inc, merger_queue, merger>>
  BY <1>0 DEF Gives, mergerVars
<1>2. CASE s = NoInstance
  <2>1. ASSUME NEW k \in Nodes, NEW b \in Batch PROVE HeldIn(node'[k], b) \in {HeldIn(node[k], b), 0}
    BY <1>1, <1>2, EmptyHolds
  <2>2. ASSUME NEW k \in Nodes, Dry(k) PROVE \A m \in Model : node'[k].topic_model_inc[m] = Nil
    <3>1. CASE k = n
      BY <1>1, <1>2, <3>1, EmptyHolds
    <3>2. CASE k # n
      BY <1>1, <2>2, <3>2 DEF Dry
    <3>3. QED
      BY <3>1, <3>2
  <2>3. LessFlow
    BY <1>1, <2>1, <2>2 DEF LessFlow, Held, Dry
  <2>4. QED
    BY <1>1, <1>2, <2>3
<1>3. CASE s # NoInstance
  <2>1. /\ s.batches = node[n].batches /\ s.processor_queue = node[n].processor_queue
        /\ s.batch = node[n].batch /\ s.todo = node[n].todo
        /\ s.merger_queue = node[n].merger_queue /\ s.reported = node[n].reported
        /\ s.topic_model_inc = node[n].topic_model_inc
    BY <1>3 DEF Gives
  <2>2. \A b \in Batch : HeldIn(s, b) = HeldIn(node[n], b)
    BY <2>1 DEF HeldIn, TakenIn
  <2>3. ASSUME NEW k \in Nodes
        PROVE  /\ \A b \in Batch : HeldIn(node'[k], b) = HeldIn(node[k], b)
               /\ node'[k].topic_model_inc = node[k].topic_model_inc
    <3>1. CASE k = n
      BY <1>1, <2>1, <2>2, <3>1
    <3>2. CASE k # n
      BY <1>1, <3>2
    <3>3. QED
      BY <3>1, <3>2
  <2>4. \A k \in Nodes, b \in Batch : Held(k, b)' = Held(k, b)
    BY <2>3 DEF Held
  <2>5. \A k \in Nodes : Dry(k)' = Dry(k)
    BY <2>3 DEF Dry
  <2>6. \A k \in Nodes : Idle(k)' = Idle(k)
    BY <2>4 DEF Idle
  <2>7. SameFlow /\ LessFlow
    BY <1>1, <2>4, <2>5, <2>6 DEF SameFlow, LessFlow
  <2>8. QED
    BY <1>1, <2>7
<1>4. QED
  BY <1>2, <1>3

LEMMA GivenHolds ==
  ASSUME NetworkInv, FlowInv, NEW n \in Nodes, NEW s, Gives(n, s),
         clients \ {n} = clients' \ {n},
         s # NoInstance =>
           clients' = clients /\ ((s.instance <=> node[n].instance) \/ (s.instance /\ n \in clients))
  PROVE  \A k \in Nodes : HolderInv(k)'
<1>0. /\ \A k \in Nodes : HolderInv(k)
      /\ node'[n] = s /\ \A k \in Nodes : k # n => node'[k] = node[k]
  BY GivenCounts DEF FlowInv
<1>1. ASSUME NEW k \in Nodes, k # n PROVE HolderInv(k)'
  <2>1. node'[k] = node[k] /\ (k \in clients <=> k \in clients')
    BY <1>0, <1>1
  <2>2. HolderInv(k)
    BY <1>0
  <2>3. QED
    BY <2>1, <2>2 DEF HolderInv, Dry
<1>2. CASE s = NoInstance
  <2>1. NoInstance.reported = Nil /\ NoInstance.merger = "run" /\ NoInstance.instance = FALSE
    BY DEF NoInstance
  <2>2. HolderInv(n)'
    BY <1>0, <1>2, <2>1, EmptyHolds DEF HolderInv, Dry
  <2>3. QED
    BY <1>1, <2>2
<1>3. CASE s # NoInstance
  <2>1. /\ s.reported = node[n].reported /\ s.topic_model_inc = node[n].topic_model_inc
        /\ s.merger = node[n].merger /\ s.models = node[n].models /\ s.up = node[n].up
    BY <1>3 DEF Gives
  <2>2. HolderInv(n)
    BY <1>0
  <2>3. node'[n] = s /\ clients' = clients
        /\ ((s.instance <=> node[n].instance) \/ (s.instance /\ n \in clients))
    BY <1>0, <1>3
  <2>4. HolderInv(n)'
    BY <2>1, <2>2, <2>3 DEF HolderInv, Dry
  <2>5. QED
    BY <1>1, <2>4
<1>4. QED
  BY <1>2, <1>3

\* The steps of a call on a node.
NodeSteps ==
  CreateModelNode \/ DisposeModelNode \/ ConnectClient \/ DisconnectClient \/ ConfigureClient

\* Each gives one node another state.
LEMMA NodeStepsGive ==
  ASSUME NetworkInv, CallFlow, NodeSteps
  PROVE  /\ NextNode \in Nodes /\ NextNode \in api.nodes
         /\ \E s : /\ Gives(NextNode, s) /\ clients \ {NextNode} = clients' \ {NextNode}
                   /\ s # NoInstance =>
                        /\ clients' = clients
                        /\ (s.instance <=> node[NextNode].instance) \/ (s.instance /\ NextNode \in clients)
<1>0. /\ api \in Api /\ TypeOK /\ node \in [Nodes -> NodeState]
      /\ CallInv
  BY Zenon DEF NetworkInv, TypeOK, NetworkNodeTypeOK
<1> DEFINE n == NextNode
<1>1. api.nodes # {}
  BY DEF NodeSteps, CreateModelNode, DisposeModelNode, ConnectClient, DisconnectClient,
     ConfigureClient, NodesLeft
<1>2. n \in Nodes /\ n \in api.nodes
  BY <1>0, <1>1, NextNodeOK
<1>3. node[n] \in NodeState
  BY <1>0, <1>2
<1>5. /\ UNCHANGED <<schema, batchManagerVars, mergerVars, due, quiet>>
  BY Zenon DEF NodeSteps, CreateModelNode, DisposeModelNode, ConnectClient, DisconnectClient,
     ConfigureClient
<1>6. \E s : /\ Gives(n, s) /\ clients \ {n} = clients' \ {n}
             /\ s # NoInstance =>
                  clients' = clients /\ ((s.instance <=> node[n].instance) \/ (s.instance /\ n \in clients))
  <2>0. node = [node EXCEPT ![n] = node[n]]
    BY <1>0
  <2>1. CASE CreateModelNode
    <3>1. CASE node[n].instance
      <4> DEFINE models == [node[n].topic_model EXCEPT ![api.model] = IF @ = Nil THEN NewModel ELSE @]
                 s == [node[n] EXCEPT !.topic_model = models]
      <4>1. node' = [node EXCEPT ![n] = s] /\ clients' = clients
        BY <1>0, <1>2, <1>3, <2>1, <3>1 DEF CreateModelNode
      <4> HIDE DEF models
      <4>2. Gives(n, s) /\ (s.instance <=> node[n].instance)
        BY <1>3, <1>5, <4>1 DEF Gives, NodeState
      <4>3. QED
        BY <4>1, <4>2
    <3>2. CASE ~node[n].instance
      <4>1. node' = node /\ clients' = clients
        BY <2>1, <3>2 DEF CreateModelNode
      <4>2. Gives(n, node[n])
        BY <1>5, <2>0, <4>1 DEF Gives
      <4>3. QED
        BY <4>1, <4>2
    <3>3. QED
      BY <3>1, <3>2
  <2>2. CASE DisposeModelNode
    <3> DEFINE models == [node[n].topic_model EXCEPT ![api.model] = Nil]
               queue == IF node[n].instance
                        THEN Append(node[n].tasks, Task("kDisposeModel", api.model))
                        ELSE node[n].tasks
               s == [node[n] EXCEPT !.topic_model = models, !.tasks = queue]
    <3>1. node' = [node EXCEPT ![n] = s] /\ clients' = clients
      BY <1>0, <1>2, <1>3, <2>2 DEF DisposeModelNode
    <3> HIDE DEF models, queue
    <3>2. Gives(n, s) /\ (s.instance <=> node[n].instance)
      BY <1>3, <1>5, <3>1 DEF Gives, NodeState
    <3>3. QED
      BY <3>1, <3>2
  <2>3. CASE ConnectClient
    <3>1. node' = [node EXCEPT ![n] = NoInstance] /\ clients' = clients \cup {n}
      BY <2>3 DEF ConnectClient
    <3>2. Gives(n, NoInstance)
      BY <1>5, <3>1 DEF Gives
    <3>3. clients \ {n} = clients' \ {n}
      BY <3>1
    <3>4. QED
      BY <3>2, <3>3
  <2>4. CASE DisconnectClient
    <3>1. node' = [node EXCEPT ![n] = NoInstance] /\ clients' = clients \ {n}
      BY <2>4 DEF DisconnectClient
    <3>2. Gives(n, NoInstance)
      BY <1>5, <3>1 DEF Gives
    <3>3. clients \ {n} = clients' \ {n}
      BY <3>1
    <3>4. QED
      BY <3>2, <3>3
  <2>5. CASE ConfigureClient
    <3> DEFINE s == [node[n] EXCEPT !.instance = TRUE]
    <3>1. node' = [node EXCEPT ![n] = s] /\ clients' = clients /\ api.pc = "configure"
      BY <1>0, <1>2, <1>3, <2>5 DEF ConfigureClient
    <3>2. Gives(n, s) /\ s.instance
      BY <1>3, <1>5, <3>1 DEF Gives, NodeState
    <3>3. n \in clients
      BY <1>0, <1>2, <3>1 DEF CallFlow
    <3>4. QED
      BY <3>1, <3>2, <3>3
  <2>6. QED
    BY <2>1, <2>2, <2>3, <2>4, <2>5 DEF NodeSteps
<1>7. QED
  BY <1>2, <1>6

LEMMA NodeStepsFlow ==
  ASSUME NetworkInv, FlowInv, NodeSteps
  PROVE  FlowInv'
<1>0. /\ api \in Api /\ TypeOK /\ node \in [Nodes -> NodeState]
      /\ CallFlow /\ CallInv
  BY CallFlowHolds, Zenon DEF NetworkInv, TypeOK, NetworkNodeTypeOK
<1> DEFINE n == NextNode
<1>1. api.nodes # {}
  BY DEF NodeSteps, CreateModelNode, DisposeModelNode, ConnectClient, DisconnectClient,
     ConfigureClient, NodesLeft
<1>2. n \in Nodes /\ n \in api.nodes
  BY <1>0, <1>1, NextNodeOK
<1>3. node[n] \in NodeState
  BY <1>0, <1>2
<1>4. /\ api'.pc \in {api.pc, "ready"}
      /\ api'.pc = api.pc => api'.nodes \subseteq api.nodes /\ api'.model = api.model
      /\ api.pc \in {"create", "dispose", "connect", "disconnect", "configure"}
  <2>1. api.pc \in {"create", "dispose", "connect", "disconnect", "configure"}
        /\ (Replied \/ Return)
    BY DEF NodeSteps, CreateModelNode, DisposeModelNode, ConnectClient, DisconnectClient,
       ConfigureClient
  <2>2. CASE Replied
    BY <1>0, <2>1, <2>2 DEF Replied, Api
  <2>3. CASE Return
    BY <2>1, <2>3 DEF Return, Ready
  <2>4. QED
    BY <2>1, <2>2, <2>3
<1>5. /\ UNCHANGED <<schema, batchManagerVars, mergerVars, due, quiet>>
  BY Zenon DEF NodeSteps, CreateModelNode, DisposeModelNode, ConnectClient, DisconnectClient,
     ConfigureClient
<1>6. \E s : /\ Gives(n, s) /\ clients \ {n} = clients' \ {n}
             /\ s # NoInstance =>
                  clients' = clients /\ ((s.instance <=> node[n].instance) \/ (s.instance /\ n \in clients))
  BY <1>0, NodeStepsGive
<1> HIDE DEF n
<1>7. PICK s : /\ Gives(n, s) /\ clients \ {n} = clients' \ {n}
               /\ s # NoInstance =>
                    clients' = clients /\ ((s.instance <=> node[n].instance) \/ (s.instance /\ n \in clients))
  BY <1>6
<1>8. \A k \in Nodes : HolderInv(k)'
  BY <1>2, <1>7, GivenHolds
<1>9. LessFlow /\ topic_model' = topic_model
  BY <1>2, <1>7, GivenCounts
<1>10. CallFlow'
  <2>1. api'.pc \in {"create", "configure"} => clients' = clients
    <3>1. ConnectClient => api.pc = "connect"
      BY DEF ConnectClient
    <3>2. DisconnectClient => api.pc = "disconnect"
      BY DEF DisconnectClient
    <3>3. CreateModelNode \/ DisposeModelNode \/ ConfigureClient => clients' = clients
      BY DEF CreateModelNode, DisposeModelNode, ConfigureClient
    <3>4. QED
      BY <1>4, <3>1, <3>2, <3>3 DEF NodeSteps
  <2>2. schema' = schema /\ quiet' = quiet
    BY <1>5
  <2>3. QED
    BY <1>0, <1>4, <2>1, <2>2 DEF CallFlow, Present
<1>11. DrainInv'
  BY <1>4, NotDraining DEF Drains
<1>12. (quiet' => quiet /\ due' = due) /\ \A m \in Model : Present(m) => topic_model'[m] # Nil
  BY <1>5, <1>9 DEF FlowInv, SchemaInv
<1>13. FlowRest'
  BY <1>9, <1>10, <1>11, <1>12, FlowKept
<1>14. QED
  BY <1>8, <1>13 DEF FlowInv, FlowRest

\* A force is one more task of a node.
LEMMA ForceGives ==
  ASSUME NetworkInv, NodeForce
  PROVE  /\ NextNode \in Nodes
         /\ \E s : /\ Gives(NextNode, s) /\ (s.instance <=> node[NextNode].instance)
                   /\ s # NoInstance
<1>0. /\ TypeOK /\ node \in [Nodes -> NodeState]
  BY DEF NetworkInv, TypeOK, NetworkNodeTypeOK
<1> DEFINE n == NextNode
           queue == Append(node[n].tasks,
                      Task(IF api.pc = "wait.push" THEN "kForcePushTopicModelIncrement"
                           ELSE "kForcePullTopicModel", Nil))
           s == [node[n] EXCEPT !.tasks = queue]
<1>1. /\ api.nodes # {}
      /\ UNCHANGED <<schema, batchManagerVars, mergerVars>>
      /\ node' = [node EXCEPT ![n].tasks = queue]
  BY DEF NodeForce, NodesLeft, Forcing
<1>2. n \in Nodes /\ node[n] \in NodeState
  BY <1>0, <1>1, NextNodeOK
<1>3. node' = [node EXCEPT ![n] = s]
  BY <1>0, <1>1, <1>2
<1> HIDE DEF n, queue
<1>4. Gives(n, s) /\ (s.instance <=> node[n].instance) /\ s # NoInstance
  <2>1. /\ s.batches = node[n].batches /\ s.processor_queue = node[n].processor_queue
        /\ s.batch = node[n].batch /\ s.todo = node[n].todo
        /\ s.merger_queue = node[n].merger_queue /\ s.reported = node[n].reported
        /\ s.topic_model_inc = node[n].topic_model_inc
        /\ s.merger = node[n].merger /\ s.models = node[n].models /\ s.up = node[n].up
        /\ s.instance = node[n].instance
    BY <1>2 DEF NodeState
  <2>2. node[n].instance
    BY DEF NodeForce, n
  <2>3. NoInstance.instance = FALSE
    BY DEF NoInstance
  <2>4. s # NoInstance
    BY <2>1, <2>2, <2>3
  <2> HIDE DEF s
  <2>5. QED
    BY <1>1, <1>3, <2>1, <2>4 DEF Gives
<1>5. QED
  BY <1>2, <1>4 DEF n

LEMMA ForceFlow ==
  ASSUME NetworkInv, FlowInv, NodeForce
  PROVE  FlowInv'
<1>0. /\ api \in Api /\ CallFlow /\ CallInv
  BY CallFlowHolds, Zenon DEF NetworkInv, TypeOK
<1> DEFINE n == NextNode
<1>1. /\ api.nodes # {} /\ api.pc \in {"refresh", "wait.push", "wait.nodes"}
      /\ api' = [api EXCEPT !.called = TRUE] /\ ~sync'
      /\ UNCHANGED <<schema, batchManagerVars, mergerVars, clients, due, quiet>>
  BY DEF NodeForce, NodesLeft, Forcing
<1>2. n \in Nodes
  BY ForceGives
<1>4. PICK s : Gives(n, s) /\ (s.instance <=> node[n].instance) /\ s # NoInstance
  BY ForceGives
<1> HIDE DEF n
<1>5. \A k \in Nodes : HolderInv(k)'
  BY <1>1, <1>2, <1>4, GivenHolds
<1>6. LessFlow /\ SameFlow /\ topic_model' = topic_model
  BY <1>2, <1>4, GivenCounts
<1>7. /\ api'.pc = api.pc /\ api'.nodes = api.nodes /\ api'.model = api.model
      /\ api'.pc \in {"refresh", "wait.push", "wait.nodes"}
  BY <1>0, <1>1 DEF Api
<1>8. CallFlow'
  BY <1>1, <1>7 DEF CallFlow
<1>9. DrainInv'
  <2>1. /\ \A k \in Nodes : Idle(k)' = Idle(k) /\ Dry(k)' = Dry(k)
        /\ IsEverythingProcessed' = IsEverythingProcessed /\ MasterDry' = MasterDry
        /\ merger_queue' = merger_queue /\ merger' = merger
        /\ (\E m \in Model : Present(m))' = \E m \in Model : Present(m)
    BY <1>6 DEF SameFlow, IsEverythingProcessed, batchManagerVars, MasterDry, Present
  <2>2. SUFFICES ASSUME \E m \in Model : Present(m)
                 PROVE  DrainInv'
    BY <2>1, DrainAs, Zenon DEF DrainInv
  <2>3. /\ api.pc \in Drains => IsEverythingProcessed /\ \A k \in Nodes : Idle(k)
        /\ api.pc = "wait.push" => \A k \in Nodes : Dry(k) \/ k \in api.nodes
        /\ api.pc \in Emptied => \A k \in Nodes : Dry(k)
        /\ api.pc \in {"wait.forced", "wait.pulled", "wait.nodes", "wait.done"} => merger_queue = <<>>
        /\ Merged => merger.pc # "merge"
        /\ Published => MasterDry
    BY <2>2, DrainAs, Zenon DEF FlowInv
  <2>4. QED
    BY <1>1, <1>7, <2>1, <2>3 DEF DrainInv, Drains, Emptied, Merged, Published
<1>10. (quiet' => quiet /\ due' = due) /\ \A m \in Model : Present(m) => topic_model'[m] # Nil
  BY <1>1, <1>6 DEF FlowInv, SchemaInv
<1>11. FlowRest'
  BY <1>6, <1>8, <1>9, <1>10, FlowKept
<1>12. QED
  BY <1>5, <1>11 DEF FlowInv, FlowRest

\* Models come and go only when nothing is on its way.
LEMMA QuietFlow ==
  ASSUME FlowInv, quiet, quiet' = quiet, SchemaInv', api'.pc \notin Drains, api'.pc # "add",
         UNCHANGED <<tasks, merger_queue, merger, topic_model_inc, node, clients>>,
         \A m \in Model : due'[m] \in {due[m], NoCounts} /\ in_progress'[m] \in {in_progress[m], {}}
  PROVE  FlowInv'
<1>1. /\ tasks = <<>> /\ merger_queue = <<>> /\ merger.pc # "merge" /\ MasterDry
      /\ \A n \in Nodes : Idle(n) /\ Dry(n)
      /\ \A m \in Model : due[m] = NoCounts /\ in_progress[m] = {}
  BY Zenon DEF FlowInv, QuietInv
<1>2. /\ \A n \in Nodes, b \in Batch : Held(n, b) = 0 /\ Held(n, b)' = 0
      /\ \A n \in Nodes : Idle(n)' /\ Dry(n)'
  BY <1>1 DEF Idle, Dry, Held
<1>3. QuietInv'
  <2>1. MasterDry'
    BY <1>1 DEF MasterDry
  <2>2. \A m \in Model : due'[m] = NoCounts /\ in_progress'[m] = {}
    BY <1>1
  <2>3. QED
    BY <1>1, <1>2, <2>1, <2>2 DEF QuietInv
<1>4. MarkInv'
  BY <1>2 DEF MarkInv, One
<1>5. DrainInv'
  BY NotDraining
<1>6. \A n \in Nodes : HolderInv(n)'
  BY Zenon DEF FlowInv, HolderInv, Dry
<1>7. QED
  BY <1>3, <1>4, <1>5, <1>6 DEF FlowInv

LEMMA ModelCallsFlow ==
  ASSUME NetworkInv, FlowInv, QuietCreation,
         \/ \E m \in Model : \/ CreateModel(m) \/ RecreateModel(m)
                            \/ DisposeModel(m) \/ OverwriteTopicModel(m)
         \/ InvokePhiRegularizers
  PROVE  FlowInv'
<1>0. /\ api \in Api /\ topic_model \in [Model -> TopicModel \cup {Nil}] /\ calls \in Nat
      /\ schema \in [Model -> ModelStatus] /\ in_progress \in [Model -> SUBSET Batch]
      /\ due \in [Model -> Counts] /\ SchemaInv
  BY DEF NetworkInv, TypeOK, NetworkNodeTypeOK, SchemaTypeOK, BatchManagerTypeOK, FlowInv
<1>1. ASSUME NEW m \in Model, CreateModel(m) PROVE FlowInv'
  <2>1. /\ quiet /\ quiet' = quiet
        /\ UNCHANGED <<tasks, merger_queue, merger, topic_model_inc, node, clients, due, in_progress>>
        /\ topic_model' = [topic_model EXCEPT ![m] = NewModel]
        /\ schema' = [schema EXCEPT ![m] = "enabled"]
        /\ api' = [api EXCEPT !.pc = "create", !.nodes = clients, !.model = m]
    BY <1>1 DEF CreateModel, Call, QuietCreation, batchManagerVars, set_model_config
  <2>2. NewModel # Nil
    <3>1. NewModel \in TopicModel
      BY DEF NewModel, TopicModel, NoCounts, Counts
    <3>2. QED
      BY <3>1, NilIsNoModel
  <2>3. api'.pc = "create" /\ api'.nodes = clients
    BY <1>0, <2>1 DEF Api
  <2>4. SchemaInv'
    BY <1>0, <2>1, <2>2, <2>3 DEF SchemaInv, Present
  <2>5. \A k \in Model : due'[k] \in {due[k], NoCounts} /\ in_progress'[k] \in {in_progress[k], {}}
    BY <2>1
  <2>6. api'.pc \notin Drains /\ api'.pc # "add"
    BY <2>3 DEF Drains
  <2>7. QED
    BY <2>1, <2>4, <2>5, <2>6, QuietFlow
<1>r. ASSUME NEW m \in Model, RecreateModel(m) PROVE FlowInv'
  <2>1. /\ quiet /\ quiet' = quiet
        /\ UNCHANGED <<tasks, merger_queue, merger, topic_model_inc, node, clients>>
        /\ UNCHANGED <<schema, topic_model, due, in_progress>>
        /\ api' = [api EXCEPT !.pc = "create", !.nodes = clients, !.model = m]
    BY <1>r DEF RecreateModel, Call, QuietCreation, batchManagerVars, mergerVars
  <2>2. api'.pc = "create" /\ api'.nodes = clients
    BY <1>0, <2>1 DEF Api
  <2>3. SchemaInv'
    BY <1>0, <2>1, <2>2 DEF SchemaInv, Present
  <2>4. api'.pc \notin Drains /\ api'.pc # "add"
    BY <2>2 DEF Drains
  <2>5. QED
    BY <2>1, <2>3, <2>4, QuietFlow
<1>2. ASSUME NEW m \in Model, DisposeModel(m) PROVE FlowInv'
  <2>1. /\ quiet /\ quiet' = quiet
        /\ UNCHANGED <<tasks, merger_queue, merger, topic_model_inc, node, clients>>
        /\ topic_model' = [topic_model EXCEPT ![m] = Nil]
        /\ schema' = [schema EXCEPT ![m] = "absent"]
        /\ in_progress' = [in_progress EXCEPT ![m] = {}]
        /\ due' = [due EXCEPT ![m] = NoCounts]
        /\ api' = [api EXCEPT !.pc = "dispose", !.nodes = clients, !.model = m]
    BY <1>2, NetworkAssumption DEF DisposeModel, Call, clear_model_config, ForgetModel
  <2>3. api'.pc = "dispose" /\ api'.model = m
    BY <1>0, <2>1 DEF Api
  <2>4. SchemaInv'
    BY <1>0, <2>1, <2>3 DEF SchemaInv, Present
  <2>5. \A k \in Model : due'[k] \in {due[k], NoCounts} /\ in_progress'[k] \in {in_progress[k], {}}
    BY <1>0, <2>1
  <2>6. api'.pc \notin Drains /\ api'.pc # "add"
    BY <2>3 DEF Drains
  <2>7. QED
    BY <2>1, <2>4, <2>5, <2>6, QuietFlow
<1>3. ASSUME \/ \E m \in Model : OverwriteTopicModel(m)
             \/ InvokePhiRegularizers
      PROVE  FlowInv'
  <2>1. /\ UNCHANGED <<schema, batchManagerVars, topic_model_inc, merger_queue, merger, node>>
        /\ UNCHANGED <<clients, due, quiet>>
        /\ api' = [api EXCEPT !.pc = "refresh", !.nodes = clients]
    BY <1>3 DEF OverwriteTopicModel, InvokePhiRegularizers
  <2>2. \A m \in Model : topic_model[m] # Nil => topic_model'[m] # Nil
    <3>1. calls' \in Nat
      BY <1>0, <1>3 DEF OverwriteTopicModel, InvokePhiRegularizers, Call
    <3>2. \A x \in TopicModel : [x EXCEPT !.edition = calls'] \in TopicModel
      BY <3>1 DEF TopicModel
    <3>3. [n_wt |-> NoCounts, edition |-> calls'] \in TopicModel
      BY <3>1 DEF TopicModel, NoCounts, Counts
    <3>4. CASE InvokePhiRegularizers
      <4>1. topic_model' = [m \in Model |->
               IF m \in GetModelNames /\ topic_model[m] # Nil
               THEN [topic_model[m] EXCEPT !.edition = calls'] ELSE topic_model[m]]
        BY <3>4 DEF InvokePhiRegularizers
      <4>2. ASSUME NEW m \in Model, topic_model[m] # Nil PROVE topic_model'[m] # Nil
        <5>1. topic_model[m] \in TopicModel
          BY <1>0, <4>2
        <5>2. topic_model'[m] \in TopicModel
          BY <3>2, <4>1, <5>1
        <5>3. QED
          BY <5>2, NilIsNoModel
      <4>3. QED
        BY <4>2
    <3>5. CASE \E m \in Model : OverwriteTopicModel(m)
      <4>1. \E m \in Model :
              topic_model' = [topic_model EXCEPT ![m] = [n_wt |-> NoCounts, edition |-> calls']]
        BY <3>5 DEF OverwriteTopicModel
      <4>2. [n_wt |-> NoCounts, edition |-> calls'] # Nil
        BY <3>3, NilIsNoModel
      <4>3. QED
        BY <1>0, <4>1, <4>2
    <3>6. QED
      BY <1>3, <3>4, <3>5
  <2>3. LessFlow
    BY <2>1, SameNodes
  <2>4. api'.pc = "refresh"
    BY <1>0, <2>1 DEF Api
  <2>5. CallFlow' /\ DrainInv'
    BY <2>4, NotDraining DEF CallFlow, Drains
  <2>6. \A m \in Model : Present(m) => topic_model'[m] # Nil
    BY <1>0, <2>2 DEF SchemaInv
  <2>7. quiet' => quiet /\ due' = due
    BY <2>1
  <2>8. FlowRest'
    BY <2>3, <2>5, <2>6, <2>7, FlowKept
  <2>9. \A n \in Nodes : HolderInv(n)'
    BY <2>1, Zenon DEF FlowInv, HolderInv, Dry
  <2>10. QED
    BY <2>8, <2>9 DEF FlowInv, FlowRest
<1>4. QED
  BY <1>1, <1>r, <1>2, <1>3

LEMMA FlowInvStep ==
  ASSUME NetworkInv, NetworkInv', FlowInv, OneModel, QuietCreation, [Next]_vars
  PROVE  FlowInv'
<1>0. NetworkNodeTypeOK'
  BY DEF NetworkInv, TypeOK
<1>1. CASE ApiCall
  BY <1>1, CallsStart, ModelCallsFlow DEF ApiCall
<1>2. CASE ApiThread
  BY <1>2, CallsStart, WaitFlow, ReturnFlow, AddFlow, NodeStepsFlow, ForceFlow
  DEF ApiThread, WaitSteps, NodeSteps
<1>3. CASE MergerStep
  BY <1>3, MergerFlow
<1>4. ASSUME NEW n \in Nodes, ServiceStep(n) \/ NodeStep(n) \/ Stop(n) \/ Restart(n)
      PROVE  FlowInv'
  <2>1. CASE Aside(n)
    BY <1>0, <2>1, AsideFlow
  <2>2. CASE ServiceStep(n) /\ RequestBatches(n)
    BY <2>2, RequestFlow
  <2>3. CASE ServiceStep(n) /\ ReportBatches(n)
    BY <2>3, ReportFlow
  <2>4. QED
    BY <1>4, <2>1, <2>2, <2>3 DEF Aside
<1>5. CASE UNCHANGED vars
  <2>1. /\ UNCHANGED <<schema, batchManagerVars, topic_model_inc, merger_queue, merger, node>>
        /\ UNCHANGED <<topic_model, clients, due, quiet, api, sync>>
    BY <1>5 DEF vars, mergerVars, apiVars
  <2>2. LessFlow /\ CallFlow
    BY <2>1, SameNodes, CallFlowHolds
  <2>3. CallFlow'
    BY <2>1, <2>2 DEF CallFlow, Present
  <2>4. DrainInv'
    <3>1. /\ \A n \in Nodes : Idle(n)' = Idle(n) /\ Dry(n)' = Dry(n)
          /\ IsEverythingProcessed' = IsEverythingProcessed /\ MasterDry' = MasterDry
          /\ Merged' = Merged /\ Published' = Published /\ Dry(NextNode)' = Dry(NextNode)
          /\ (\E m \in Model : Present(m))' = \E m \in Model : Present(m)
          /\ merger_queue' = merger_queue /\ merger' = merger /\ api' = api /\ sync' = sync
      BY <2>1 DEF Idle, Dry, Held, IsEverythingProcessed, MasterDry, Merged, Published, NextNode,
         Present, batchManagerVars
    <3>2. DrainInv
      BY DEF FlowInv
    <3>3. QED
      BY <3>1, <3>2, Zenon DEF DrainInv
  <2>5. (quiet' => quiet /\ due' = due) /\ \A m \in Model : Present(m) => topic_model'[m] # Nil
    BY <2>1 DEF FlowInv, SchemaInv
  <2>6. FlowRest'
    BY <2>2, <2>3, <2>4, <2>5, FlowKept
  <2>7. \A n \in Nodes : HolderInv(n)'
    BY <2>1, Zenon DEF FlowInv, HolderInv, Dry
  <2>8. QED
    BY <2>6, <2>7 DEF FlowInv, FlowRest
<1>6. QED
  BY <1>1, <1>2, <1>3, <1>4, <1>5 DEF Next

LEMMA InitCounts ==
  ASSUME Init
  PROVE  /\ \A n \in Nodes, b \in Batch : TakenIn(node[n], b) = 0 /\ HeldIn(node[n], b) = 0
         /\ \A n \in Nodes, m \in Model : node[n].topic_model_inc[m] = Nil
         /\ \A n \in Nodes : /\ node[n].reported = Nil /\ node[n].merger = "run"
                             /\ node[n].instance <=> n \in InitialNodes
                             /\ node[n].tasks = <<>>
         /\ \A n \in Nodes, m \in Model :
              n \in InitialNodes => node[n].topic_model[m] = (IF m \in InitialModels THEN NewModel ELSE Nil)
<1> DEFINE existing == [m \in Model |-> IF m \in InitialModels THEN NewModel ELSE Nil]
<1>1. node = [n \in Nodes |-> [NoInstance EXCEPT
               !.instance = n \in InitialNodes,
               !.topic_model = IF n \in InitialNodes THEN existing ELSE @]]
  BY DEF Init, NetworkNodeInit
<1>2. \A m \in Model : existing[m] = IF m \in InitialModels THEN NewModel ELSE Nil
  OBVIOUS
<1> HIDE DEF existing
<1>3. ASSUME NEW n \in Nodes
      PROVE  /\ node[n].batches = NoInstance.batches
             /\ node[n].processor_queue = NoInstance.processor_queue
             /\ node[n].batch = NoInstance.batch /\ node[n].todo = NoInstance.todo
             /\ node[n].merger_queue = NoInstance.merger_queue
             /\ node[n].reported = NoInstance.reported
             /\ node[n].topic_model_inc = NoInstance.topic_model_inc
             /\ node[n].reported = Nil /\ node[n].merger = "run" /\ node[n].tasks = <<>>
             /\ node[n].instance <=> n \in InitialNodes
             /\ n \in InitialNodes => node[n].topic_model = existing
  <2>1. node[n] = [NoInstance EXCEPT !.instance = n \in InitialNodes,
                     !.topic_model = IF n \in InitialNodes THEN existing ELSE @]
    BY <1>1
  <2>2. QED
    BY <2>1 DEF NoInstance
<1>4. \A n \in Nodes, b \in Batch : TakenIn(node[n], b) = TakenIn(NoInstance, b)
  BY <1>3 DEF TakenIn
<1>5. \A n \in Nodes, b \in Batch : HeldIn(node[n], b) = HeldIn(NoInstance, b)
  BY <1>3, <1>4 DEF HeldIn
<1>6. QED
  BY <1>2, <1>3, <1>4, <1>5, EmptyHolds

LEMMA FlowInvInit ==
  ASSUME Init
  PROVE  FlowInv
<1>0. InitialNodes \subseteq Nodes /\ InitialModels \subseteq Model
  BY NetworkAssumption
<1>1. /\ schema = [m \in Model |-> IF m \in InitialModels THEN "enabled" ELSE "absent"]
      /\ tasks = <<>> /\ in_progress = [m \in Model |-> {}]
      /\ topic_model = [m \in Model |-> IF m \in InitialModels THEN NewModel ELSE Nil]
      /\ topic_model_inc = [m \in Model |-> Nil]
      /\ merger_queue = <<>> /\ merger.pc = "idle"
      /\ clients = InitialNodes /\ api.pc = "ready"
      /\ due = [m \in Model |-> NoCounts] /\ quiet = TRUE
  BY DEF Init, BatchManagerInit, NetworkNodeInit, Ready
<1>2. NewModel # Nil
  <2>1. NewModel \in TopicModel
    BY DEF NewModel, TopicModel, NoCounts, Counts
  <2>2. QED
    BY <2>1, NilIsNoModel
<1>3. \A n \in Nodes : Idle(n) /\ Dry(n) /\ \A b \in Batch : Held(n, b) = 0
  BY InitCounts DEF Idle, Dry, Held
<1>4. \A n \in Nodes : HolderInv(n)
  BY <1>0, <1>1, <1>3, InitCounts DEF HolderInv
<1>5. SchemaInv
  BY <1>1, <1>2 DEF SchemaInv, Present
<1>6. QuietInv
  BY <1>1, <1>3 DEF QuietInv, MasterDry
<1>7. MarkInv
  BY <1>3 DEF MarkInv, One
<1>8. DrainInv
  BY <1>1 DEF DrainInv, Merged, Published
<1>9. QED
  BY <1>4, <1>5, <1>6, <1>7, <1>8 DEF FlowInv

\* What is queued, taken, marked and merged agrees, and WaitIdle has emptied nodes and
\* queues as far as it has come (WaitIdle, RequestBatches, ReportBatches, Merger).
THEOREM FlowInvariant ==
  ASSUME OneModel, QuietCreation
  PROVE  Spec => []FlowInv
<1>1. Init => FlowInv
  BY FlowInvInit
<1>2. NetworkInv /\ NetworkInv' /\ FlowInv /\ [Next]_vars => FlowInv'
  BY FlowInvStep
<1>3. QED
  BY <1>1, <1>2, NetworkInvariant, PTL DEF Spec

-----------------------------------------------------------------------------
(* No task is counted twice.                                               *)
\* What node n has of b for m, in state s of the node.
ShareIn(s, m, b) == TakenIn(s, b) + IncIn(s, m, b)
Shares(state, m, b) == [n \in Nodes |-> ShareIn(state[n], m, b)]

CountIn(inc, b) == IF inc = Nil THEN 0 ELSE inc[b]

MergingIn(thread, m, b) ==
  IF thread.pc = "merge" /\ thread.increment.model = m THEN thread.increment.n_wt[b] ELSE 0

LEMMA AccountedAs ==
  /\ \A m, b : Accounted(m, b) =
       Occurrences(tasks, b)
         + (CountIn(topic_model_inc[m], b) + MergingIn(merger, m, b) + Pending(merger_queue, m, b))
         + Total(Shares(node, m, b))
  /\ \A m, b : Accounted(m, b)' =
       Occurrences(tasks', b)
         + (CountIn(topic_model_inc'[m], b) + MergingIn(merger', m, b) + Pending(merger_queue', m, b))
         + Total(Shares(node', m, b))
<1>1. \A m, b : Accounted(m, b) =
       Occurrences(tasks, b)
         + (CountIn(topic_model_inc[m], b) + MergingIn(merger, m, b) + Pending(merger_queue, m, b))
         + Total(Shares(node, m, b))
  BY Zenon DEF Accounted, InMaster, Taken, InNode, CountIn, MergingIn, Pending, Shares, ShareIn,
     TakenIn, IncIn, Increments
<1>2. \A m, b : Accounted(m, b)' =
       Occurrences(tasks', b)
         + (CountIn(topic_model_inc'[m], b) + MergingIn(merger', m, b) + Pending(merger_queue', m, b))
         + Total(Shares(node', m, b))
  BY Zenon DEF Accounted, InMaster, Taken, InNode, CountIn, MergingIn, Pending, Shares, ShareIn,
     TakenIn, IncIn, Increments
<1>3. QED
  BY <1>1, <1>2

LEMMA PendingType ==
  ASSUME NEW s \in Seq(Increment), NEW m \in Model, NEW b \in Batch
  PROVE  Pending(s, m, b) \in Nat
<1>1. OfModel(m, b) \in [Increment -> Nat]
  BY WeightOK
<1>2. Sum(s, OfModel(m, b)) \in Nat
  BY <1>1, SumOver
<1>3. QED
  BY <1>2, PendingIsSum

LEMMA OccursType ==
  ASSUME NEW s \in Seq(Batch), NEW b \in Batch
  PROVE  Occurrences(s, b) \in Nat
<1>1. OfBatch(b) \in [Batch -> Nat]
  BY DEF OfBatch, One
<1>2. Sum(s, OfBatch(b)) \in Nat
  BY <1>1, SumOver
<1>3. QED
  BY <1>2, OccurrencesAreSum

LEMMA SharesType ==
  ASSUME IsFiniteSet(Nodes), NEW state \in [Nodes -> NodeState], NEW m \in Model, NEW b \in Batch
  PROVE  /\ Shares(state, m, b) \in [Nodes -> Nat] /\ Total(Shares(state, m, b)) \in Nat
         /\ \A n \in Nodes : /\ Shares(state, m, b)[n] = ShareIn(state[n], m, b)
                             /\ ShareIn(state[n], m, b) \in Nat
<1>1. ASSUME NEW n \in Nodes PROVE ShareIn(state[n], m, b) \in Nat
  <2>1. state[n] \in NodeState
    OBVIOUS
  <2>2. TakenIn(state[n], b) \in Nat /\ IncIn(state[n], m, b) \in Nat
    BY <2>1, TakenInType, IncInType
  <2>3. QED
    BY <2>2 DEF ShareIn
<1>2. Shares(state, m, b) \in [Nodes -> Nat]
  BY <1>1 DEF Shares
<1>3. Total(Shares(state, m, b)) \in Nat
  BY <1>2, TotalType
<1>4. QED
  BY <1>1, <1>2, <1>3 DEF Shares

\* One node changes what it has.
LEMMA SharesAt ==
  ASSUME IsFiniteSet(Nodes), NEW s \in [Nodes -> NodeState], NEW t \in [Nodes -> NodeState],
         NEW n \in Nodes, \A k \in Nodes : k # n => t[k] = s[k], NEW m \in Model, NEW b \in Batch
  PROVE  Total(Shares(t, m, b)) + ShareIn(s[n], m, b) = Total(Shares(s, m, b)) + ShareIn(t[n], m, b)
<1> DEFINE f == Shares(s, m, b)
           g == Shares(t, m, b)
<1>1. f \in [Nodes -> Nat] /\ g \in [Nodes -> Nat]
  BY SharesType
<1>2. f[n] = ShareIn(s[n], m, b) /\ g[n] = ShareIn(t[n], m, b)
  BY SharesType
<1>3. \A k \in Nodes \ {n} : g[k] = f[k]
  BY DEF Shares
<1> HIDE DEF f, g
<1>4. Total(g) + f[n] = Total(f) + g[n]
  BY <1>1, <1>3, TotalAt
<1>5. QED
  BY <1>2, <1>4 DEF f, g

LEMMA SharesNone ==
  ASSUME NEW state, NEW m \in Model, NEW b \in Batch, \A n \in Nodes : ShareIn(state[n], m, b) = 0
  PROVE  Total(Shares(state, m, b)) = 0
<1>1. Shares(state, m, b) \in [Nodes -> Nat] /\ \A n \in Nodes : Shares(state, m, b)[n] = 0
  BY DEF Shares
<1>2. QED
  BY <1>1, TotalNone

LEMMA MasterPieces ==
  ASSUME NEW inc \in [Model -> Counts \cup {Nil}], NEW q \in Seq(Increment), NEW thread,
         thread.pc = "merge" => thread.increment \in Increment, NEW m \in Model, NEW b \in Batch
  PROVE  CountIn(inc[m], b) \in Nat /\ MergingIn(thread, m, b) \in Nat /\ Pending(q, m, b) \in Nat
<1>1. inc[m] \in Counts \cup {Nil}
  OBVIOUS
<1>2. CountIn(inc[m], b) \in Nat
  BY <1>1 DEF CountIn, Counts
<1>3. MergingIn(thread, m, b) \in Nat
  BY DEF MergingIn, Increment, Counts
<1>4. QED
  BY <1>2, <1>3, PendingType

\* The parts of Accounted are numbers, before and after a step.
LEMMA Pieces ==
  ASSUME IsFiniteSet(Nodes), NetworkInv, NEW m \in Model, NEW b \in Batch
  PROVE  /\ Occurrences(tasks, b) \in Nat /\ CountIn(topic_model_inc[m], b) \in Nat
         /\ MergingIn(merger, m, b) \in Nat /\ Pending(merger_queue, m, b) \in Nat
         /\ Total(Shares(node, m, b)) \in Nat
<1>1. /\ tasks \in Seq(Batch) /\ node \in [Nodes -> NodeState]
      /\ topic_model_inc \in [Model -> Counts \cup {Nil}] /\ merger_queue \in Seq(Increment)
      /\ merger.pc = "merge" => merger.increment \in Increment
  BY DEF NetworkInv, TypeOK, BatchManagerTypeOK, NetworkNodeTypeOK, MasterInv
<1>2. QED
  BY <1>1, OccursType, MasterPieces, SharesType

LEMMA PiecesAfter ==
  ASSUME IsFiniteSet(Nodes), NetworkInv', NEW m \in Model, NEW b \in Batch
  PROVE  /\ Occurrences(tasks', b) \in Nat /\ CountIn(topic_model_inc'[m], b) \in Nat
         /\ MergingIn(merger', m, b) \in Nat /\ Pending(merger_queue', m, b) \in Nat
         /\ Total(Shares(node', m, b)) \in Nat
<1>1. /\ tasks' \in Seq(Batch) /\ node' \in [Nodes -> NodeState]
      /\ topic_model_inc' \in [Model -> Counts \cup {Nil}] /\ merger_queue' \in Seq(Increment)
      /\ merger'.pc = "merge" => merger'.increment \in Increment
  BY DEF NetworkInv, TypeOK, BatchManagerTypeOK, NetworkNodeTypeOK, MasterInv
<1>2. QED
  BY <1>1, OccursType, MasterPieces, SharesType

LEMMA AccountedType ==
  ASSUME IsFiniteSet(Nodes), NEW m \in Model, NEW b \in Batch
  PROVE  /\ NetworkInv => Accounted(m, b) \in Nat
         /\ NetworkInv' => Accounted(m, b)' \in Nat
<1>1. ASSUME NetworkInv PROVE Accounted(m, b) \in Nat
  <2>1. /\ Occurrences(tasks, b) \in Nat /\ CountIn(topic_model_inc[m], b) \in Nat
        /\ MergingIn(merger, m, b) \in Nat /\ Pending(merger_queue, m, b) \in Nat
        /\ Total(Shares(node, m, b)) \in Nat
    BY <1>1, Pieces
  <2>2. QED
    BY <2>1, AccountedAs
<1>2. ASSUME NetworkInv' PROVE Accounted(m, b)' \in Nat
  <2>1. /\ Occurrences(tasks', b) \in Nat /\ CountIn(topic_model_inc'[m], b) \in Nat
        /\ MergingIn(merger', m, b) \in Nat /\ Pending(merger_queue', m, b) \in Nat
        /\ Total(Shares(node', m, b)) \in Nat
    BY <1>2, PiecesAfter
  <2>2. QED
    BY <2>1, AccountedAs
<1>3. QED
  BY <1>1, <1>2

LEMMA Unmoved ==
  ASSUME UNCHANGED <<tasks, topic_model_inc, merger, merger_queue, node>>
  PROVE  \A m, b : Accounted(m, b)' = Accounted(m, b)
<1>1. SUFFICES ASSUME NEW m, NEW b PROVE Accounted(m, b)' = Accounted(m, b)
  OBVIOUS
<1>2. /\ tasks' = tasks /\ topic_model_inc' = topic_model_inc /\ merger' = merger
      /\ merger_queue' = merger_queue /\ node' = node
  OBVIOUS
<1>3. QED
  BY <1>2, AccountedAs

\* Only what one node has changes.
LEMMA OneNodeMoves ==
  ASSUME IsFiniteSet(Nodes), NetworkInv, NetworkInv', NEW n \in Nodes,
         \A k \in Nodes : k # n => node'[k] = node[k], NEW m \in Model, NEW b \in Batch
  PROVE  /\ Total(Shares(node', m, b)) + ShareIn(node[n], m, b)
              = Total(Shares(node, m, b)) + ShareIn(node'[n], m, b)
         /\ ShareIn(node[n], m, b) \in Nat /\ ShareIn(node'[n], m, b) \in Nat
         /\ Total(Shares(node, m, b)) \in Nat /\ Total(Shares(node', m, b)) \in Nat
         /\ UNCHANGED <<tasks, topic_model_inc, merger, merger_queue>> =>
              Accounted(m, b)' + ShareIn(node[n], m, b) = Accounted(m, b) + ShareIn(node'[n], m, b)
<1>1. node \in [Nodes -> NodeState] /\ node' \in [Nodes -> NodeState]
  BY DEF NetworkInv, TypeOK, NetworkNodeTypeOK
<1>2. Total(Shares(node', m, b)) + ShareIn(node[n], m, b)
        = Total(Shares(node, m, b)) + ShareIn(node'[n], m, b)
  BY <1>1, SharesAt
<1>3. /\ ShareIn(node[n], m, b) \in Nat /\ ShareIn(node'[n], m, b) \in Nat
      /\ Total(Shares(node, m, b)) \in Nat /\ Total(Shares(node', m, b)) \in Nat
  BY <1>1, SharesType
<1>4. ASSUME UNCHANGED <<tasks, topic_model_inc, merger, merger_queue>>
      PROVE  Accounted(m, b)' + ShareIn(node[n], m, b) = Accounted(m, b) + ShareIn(node'[n], m, b)
  <2> DEFINE rest == Occurrences(tasks, b)
                       + (CountIn(topic_model_inc[m], b) + MergingIn(merger, m, b)
                            + Pending(merger_queue, m, b))
  <2>1. /\ tasks' = tasks /\ topic_model_inc' = topic_model_inc /\ merger' = merger
        /\ merger_queue' = merger_queue
    BY <1>4
  <2>2. Accounted(m, b) = rest + Total(Shares(node, m, b))
        /\ Accounted(m, b)' = rest + Total(Shares(node', m, b))
    BY <2>1, AccountedAs
  <2>3. rest \in Nat
    BY Pieces
  <2> HIDE DEF rest
  <2>4. QED
    BY <1>2, <1>3, <2>2, <2>3
<1>5. QED
  BY <1>2, <1>3, <1>4

\* A step of a node loses copies, but makes none.  When the node keeps its share, or
\* pushes an increment, nothing is lost.
LEMMA AsideMoves ==
  ASSUME IsFiniteSet(Nodes), NetworkInv, NetworkInv', FlowInv, OneModel, NEW n \in Nodes, Aside(n),
         NEW m \in Model, NEW b \in Batch
  PROVE  /\ Accounted(m, b)' <= Accounted(m, b)
         /\ UpdateModel(n) \/ ShareIn(node'[n], m, b) = ShareIn(node[n], m, b) =>
              Accounted(m, b)' = Accounted(m, b)
         /\ ~UpdateModel(n) => ShareIn(node'[n], m, b) <= ShareIn(node[n], m, b)
<1>0. /\ node \in [Nodes -> NodeState] /\ node' \in [Nodes -> NodeState] /\ BatchManagerTypeOK
      /\ merger_queue \in Seq(Increment) /\ NodeInv(n) /\ HolderInv(n)
  BY DEF NetworkInv, TypeOK, NetworkNodeTypeOK, FlowInv
<1>1. /\ UNCHANGED <<tasks, topic_model_inc, merger>>
      /\ merger_queue' = merger_queue \/ UpdateModel(n)
      /\ \A k \in Nodes : k # n => node'[k] = node[k]
  BY AsideUnchanged DEF batchManagerVars
<1>2. Accounted(m, b) \in Nat /\ Accounted(m, b)' \in Nat
  BY AccountedType
<1>3. CASE UpdateModel(n)
  <2> DEFINE inc == node[n].topic_model_inc[m]
  <2>1. /\ TakenIn(node'[n], b) = TakenIn(node[n], b)
        /\ inc \in Counts /\ node'[n].topic_model_inc[m] = Nil
        /\ merger_queue' = Append(merger_queue, [model |-> m, n_wt |-> inc])
    BY <1>0, <1>3, UpdateCounts
  <2>2. inc # Nil
    BY <2>1, NilIsNoModel
  <2>3. IncIn(node[n], m, b) = inc[b] /\ IncIn(node'[n], m, b) = 0
    BY <2>1, <2>2 DEF IncIn
  <2> HIDE DEF inc
  <2>4. [model |-> m, n_wt |-> inc] \in Increment
    BY <2>1 DEF Increment
  <2>5. Pending(merger_queue', m, b) = Pending(merger_queue, m, b) + inc[b]
    BY <1>0, <2>1, <2>4, PendingAppend
  <2>6. inc[b] \in Nat /\ TakenIn(node[n], b) \in Nat
    BY <1>0, <2>1, TakenInType DEF Counts
  <2>7. ShareIn(node[n], m, b) = ShareIn(node'[n], m, b) + inc[b]
    BY <2>1, <2>3, <2>6 DEF ShareIn
  <2>8. /\ Total(Shares(node', m, b)) + ShareIn(node[n], m, b)
             = Total(Shares(node, m, b)) + ShareIn(node'[n], m, b)
        /\ ShareIn(node'[n], m, b) \in Nat
        /\ Total(Shares(node, m, b)) \in Nat /\ Total(Shares(node', m, b)) \in Nat
    BY <1>1, OneNodeMoves
  <2>9. Total(Shares(node', m, b)) + inc[b] = Total(Shares(node, m, b))
    BY <2>6, <2>7, <2>8
  <2>10. /\ Accounted(m, b) = Occurrences(tasks, b)
              + (CountIn(topic_model_inc[m], b) + MergingIn(merger, m, b) + Pending(merger_queue, m, b))
              + Total(Shares(node, m, b))
         /\ Accounted(m, b)' = Occurrences(tasks, b)
              + (CountIn(topic_model_inc[m], b) + MergingIn(merger, m, b) + Pending(merger_queue', m, b))
              + Total(Shares(node', m, b))
    BY <1>1, AccountedAs
  <2>11. /\ Occurrences(tasks, b) \in Nat /\ CountIn(topic_model_inc[m], b) \in Nat
         /\ MergingIn(merger, m, b) \in Nat /\ Pending(merger_queue, m, b) \in Nat
    BY Pieces
  <2>12. Accounted(m, b)' = Accounted(m, b)
    BY <2>5, <2>6, <2>8, <2>9, <2>10, <2>11
  <2>13. QED
    BY <1>2, <1>3, <2>12
<1>4. CASE ~UpdateModel(n)
  <2>1. ShareIn(node'[n], m, b) <= ShareIn(node[n], m, b)
    <3>1. CASE NodeStep(n) \/ (ServiceStep(n) /\ ~RequestBatches(n) /\ ~ReportBatches(n))
      <4>1. NodeThread(n) \/ (Service(n) /\ ~RequestBatches(n))
        BY <3>1 DEF NodeStep, ServiceStep
      <4>2. QED
        BY <1>0, <4>1, ThreadCounts DEF ShareIn
    <3>2. CASE Stop(n)
      <4>1. TakenIn(node'[n], b) = TakenIn(node[n], b)
            /\ node'[n].topic_model_inc = node[n].topic_model_inc
        BY <1>0, <3>2, StopKeeps
      <4>2. ShareIn(node'[n], m, b) = ShareIn(node[n], m, b)
        BY <4>1 DEF ShareIn, IncIn
      <4>3. ShareIn(node[n], m, b) \in Nat
        BY <1>1, OneNodeMoves
      <4>4. QED
        BY <4>2, <4>3
    <3>3. CASE Restart(n)
      <4>1. node'[n] = NoInstance
        BY <1>0, <3>3 DEF Restart
      <4>2. ShareIn(node'[n], m, b) = 0
        BY <4>1, EmptyHolds DEF ShareIn
      <4>3. ShareIn(node[n], m, b) \in Nat
        BY <1>1, OneNodeMoves
      <4>4. QED
        BY <4>2, <4>3
    <3>4. QED
      BY <3>1, <3>2, <3>3 DEF Aside
  <2>2. Accounted(m, b)' + ShareIn(node[n], m, b) = Accounted(m, b) + ShareIn(node'[n], m, b)
        /\ ShareIn(node[n], m, b) \in Nat /\ ShareIn(node'[n], m, b) \in Nat
    BY <1>1, <1>4, OneNodeMoves
  <2>3. Accounted(m, b)' <= Accounted(m, b)
    BY <1>2, <2>1, <2>2
  <2>4. ShareIn(node'[n], m, b) = ShareIn(node[n], m, b) => Accounted(m, b)' = Accounted(m, b)
    BY <1>2, <2>2
  <2>5. QED
    BY <1>4, <2>1, <2>3, <2>4
<1>5. QED
  BY <1>3, <1>4

\* Taken tasks leave the list; reported batches are in an increment.
LEMMA RequestMoves ==
  ASSUME IsFiniteSet(Nodes), NetworkInv, NetworkInv', NEW n \in Nodes, RequestBatches(n),
         NEW m \in Model, NEW b \in Batch
  PROVE  Accounted(m, b)' = Accounted(m, b)
<1>0. /\ node \in [Nodes -> NodeState] /\ BatchManagerTypeOK /\ tasks \in Seq(Batch)
  BY DEF NetworkInv, TypeOK, NetworkNodeTypeOK, BatchManagerTypeOK
<1>1. PICK i \in 1..Len(tasks) :
        /\ NextTask(i) /\ tasks[i] \in Batch
        /\ TakenIn(node'[n], b) = TakenIn(node[n], b) + One(tasks[i] = b)
        /\ node'[n].topic_model_inc = node[n].topic_model_inc
  BY <1>0, RequestCounts
<1>2. \A k \in Nodes : k # n => node'[k] = node[k]
  BY <1>0 DEF RequestBatches
<1>3. /\ topic_model_inc' = topic_model_inc /\ merger' = merger /\ merger_queue' = merger_queue
      /\ tasks' = RemoveAt(tasks, i)
  BY <1>1 DEF RequestBatches, mergerVars, NextTask
<1> DEFINE one == One(tasks[i] = b)
<1>4. Occurrences(tasks, b) = Occurrences(tasks', b) + one
  BY <1>0, <1>3, OccursRemoveAt
<1>5. one \in Nat
  BY DEF One
<1>6. TakenIn(node'[n], b) = TakenIn(node[n], b) + one /\ TakenIn(node[n], b) \in Nat
      /\ IncIn(node'[n], m, b) = IncIn(node[n], m, b) /\ IncIn(node[n], m, b) \in Nat
  <2>1. node[n] \in NodeState
    BY <1>0
  <2>2. QED
    BY <1>1, <2>1, TakenInType, IncInType DEF IncIn
<1> HIDE DEF one
<1>7. ShareIn(node'[n], m, b) = ShareIn(node[n], m, b) + one
  BY <1>5, <1>6 DEF ShareIn
<1>8. /\ Total(Shares(node', m, b)) + ShareIn(node[n], m, b)
           = Total(Shares(node, m, b)) + ShareIn(node'[n], m, b)
      /\ ShareIn(node[n], m, b) \in Nat
      /\ Total(Shares(node, m, b)) \in Nat /\ Total(Shares(node', m, b)) \in Nat
  BY <1>2, OneNodeMoves
<1>9. Total(Shares(node', m, b)) = Total(Shares(node, m, b)) + one
  BY <1>5, <1>7, <1>8
<1> DEFINE rest == CountIn(topic_model_inc[m], b) + MergingIn(merger, m, b) + Pending(merger_queue, m, b)
<1>10. /\ Accounted(m, b) = Occurrences(tasks, b) + rest + Total(Shares(node, m, b))
       /\ Accounted(m, b)' = Occurrences(tasks', b) + rest + Total(Shares(node', m, b))
  BY <1>3, AccountedAs
<1>11. rest \in Nat /\ Occurrences(tasks, b) \in Nat /\ Occurrences(tasks', b) \in Nat
  BY Pieces, PiecesAfter
<1> HIDE DEF rest
<1>12. QED
  BY <1>4, <1>5, <1>8, <1>9, <1>10, <1>11

LEMMA ReportMoves ==
  ASSUME IsFiniteSet(Nodes), NetworkInv, NetworkInv', NEW n \in Nodes, ReportBatches(n),
         NEW m \in Model, NEW b \in Batch
  PROVE  Accounted(m, b)' = Accounted(m, b)
<1>0. /\ node \in [Nodes -> NodeState]
  BY DEF NetworkInv, TypeOK, NetworkNodeTypeOK
<1>1. /\ UNCHANGED <<tasks, topic_model_inc, merger, merger_queue>>
      /\ \A k \in Nodes : k # n => node'[k] = node[k]
  BY <1>0 DEF ReportBatches, mergerVars, DoneForAll
<1>2. TakenIn(node'[n], b) = TakenIn(node[n], b)
      /\ node'[n].topic_model_inc = node[n].topic_model_inc
  BY <1>0, ReportCounts
<1>3. ShareIn(node'[n], m, b) = ShareIn(node[n], m, b)
  BY <1>2 DEF ShareIn, IncIn
<1>4. Accounted(m, b)' + ShareIn(node[n], m, b) = Accounted(m, b) + ShareIn(node'[n], m, b)
      /\ ShareIn(node[n], m, b) \in Nat
  BY <1>1, OneNodeMoves
<1>5. Accounted(m, b) \in Nat /\ Accounted(m, b)' \in Nat
  BY AccountedType
<1>6. QED
  BY <1>3, <1>4, <1>5

\* A step of a call that gives a node another state.
LEMMA GivenMoves ==
  ASSUME IsFiniteSet(Nodes), NetworkInv, NetworkInv', NEW n \in Nodes, NEW s, Gives(n, s),
         NEW m \in Model, NEW b \in Batch
  PROVE  /\ Accounted(m, b)' <= Accounted(m, b)
         /\ s # NoInstance => Accounted(m, b)' = Accounted(m, b)
<1>0. /\ node'[n] = s /\ \A k \in Nodes : k # n => node'[k] = node[k]
      /\ UNCHANGED <<tasks, topic_model_inc, merger, merger_queue>>
  BY GivenCounts DEF LessFlow, batchManagerVars
<1>1. Accounted(m, b)' + ShareIn(node[n], m, b) = Accounted(m, b) + ShareIn(node'[n], m, b)
      /\ ShareIn(node[n], m, b) \in Nat /\ ShareIn(node'[n], m, b) \in Nat
  BY <1>0, OneNodeMoves
<1>2. Accounted(m, b) \in Nat /\ Accounted(m, b)' \in Nat
  BY AccountedType
<1>3. CASE s = NoInstance
  <2>1. ShareIn(node'[n], m, b) = 0
    BY <1>0, <1>3, EmptyHolds DEF ShareIn
  <2>2. QED
    BY <1>1, <1>2, <1>3, <2>1
<1>4. CASE s # NoInstance
  <2>1. /\ s.batches = node[n].batches /\ s.processor_queue = node[n].processor_queue
        /\ s.batch = node[n].batch /\ s.todo = node[n].todo
        /\ s.merger_queue = node[n].merger_queue
        /\ s.topic_model_inc = node[n].topic_model_inc
    BY <1>4 DEF Gives
  <2>2. ShareIn(s, m, b) = ShareIn(node[n], m, b)
    BY <2>1 DEF ShareIn, TakenIn, IncIn
  <2>3. QED
    BY <1>0, <1>1, <1>2, <2>2
<1>5. QED
  BY <1>3, <1>4

\* A task more.
LEMMA AddMoves ==
  ASSUME IsFiniteSet(Nodes), NetworkInv, NetworkInv', NEW x \in Batch, Add(x),
         UNCHANGED <<topic_model_inc, merger, merger_queue, node>>, NEW m \in Model, NEW b \in Batch
  PROVE  Accounted(m, b)' = Accounted(m, b) + One(x = b)
<1>0. tasks \in Seq(Batch) /\ tasks' = Append(tasks, x)
  BY DEF NetworkInv, TypeOK, BatchManagerTypeOK, Add
<1>1. Occurrences(tasks', b) = Occurrences(tasks, b) + One(x = b)
  BY <1>0, OccursAppend
<1> DEFINE one == One(x = b)
           rest == CountIn(topic_model_inc[m], b) + MergingIn(merger, m, b) + Pending(merger_queue, m, b)
<1>2. /\ Accounted(m, b) = Occurrences(tasks, b) + rest + Total(Shares(node, m, b))
      /\ Accounted(m, b)' = Occurrences(tasks', b) + rest + Total(Shares(node, m, b))
  <2>1. /\ topic_model_inc' = topic_model_inc /\ merger' = merger /\ merger_queue' = merger_queue
        /\ node' = node
    OBVIOUS
  <2>2. QED
    BY <2>1, AccountedAs
<1>3. rest \in Nat /\ Occurrences(tasks, b) \in Nat /\ Total(Shares(node, m, b)) \in Nat
  BY Pieces
<1>4. one \in Nat
  BY DEF One
<1> HIDE DEF one, rest
<1>5. QED
  BY <1>1, <1>2, <1>3, <1>4 DEF one

\* What the master's merger does with the increments of a model: it loses them only
\* when it disposes of the model, or pulls them into it.
LEMMA MergerMoves ==
  ASSUME IsFiniteSet(Nodes), NetworkInv, NetworkInv', OneModel, MergerStep,
         api.pc = "wait.pulled" => sync' = sync,
         NEW m \in Model, topic_model[m] # Nil, NEW b \in Batch
  PROVE  /\ Accounted(m, b)' <= Accounted(m, b)
         /\ MasterDry \/ NoDispose(internal_task_queue) => Accounted(m, b)' = Accounted(m, b)
<1>0. /\ topic_model_inc \in [Model -> Counts \cup {Nil}] /\ merger_queue \in Seq(Increment)
      /\ internal_task_queue \in Seq(Tasks)
      /\ merger \in [pc : {"idle", "run", "merge"}, increment : Increment \cup {Nil}]
      /\ merger.pc = "merge" => merger.increment \in Increment
      /\ MasterInv
  BY DEF NetworkInv, TypeOK, NetworkNodeTypeOK, MasterInv
<1>1. tasks' = tasks /\ node' = node /\ MergerThread
  BY DEF MergerStep, batchManagerVars
<1>2. /\ CountIn(topic_model_inc[m], b) \in Nat /\ CountIn(topic_model_inc'[m], b) \in Nat
      /\ MergingIn(merger, m, b) \in Nat /\ MergingIn(merger', m, b) \in Nat
      /\ Pending(merger_queue, m, b) \in Nat /\ Pending(merger_queue', m, b) \in Nat
      /\ Occurrences(tasks, b) \in Nat /\ Total(Shares(node, m, b)) \in Nat
  BY Pieces, PiecesAfter
<1> DEFINE before == CountIn(topic_model_inc[m], b) + MergingIn(merger, m, b)
                       + Pending(merger_queue, m, b)
           after == CountIn(topic_model_inc'[m], b) + MergingIn(merger', m, b)
                      + Pending(merger_queue', m, b)
<1>3. /\ Accounted(m, b) = Occurrences(tasks, b) + before + Total(Shares(node, m, b))
      /\ Accounted(m, b)' = Occurrences(tasks, b) + after + Total(Shares(node, m, b))
  BY <1>1, AccountedAs
<1>4. /\ after <= before
      /\ MasterDry \/ NoDispose(internal_task_queue) => after = before
  <2>1. CASE MergerWake \/ MergerIdle
    <3>1. /\ merger.pc # "merge" /\ merger'.pc # "merge"
          /\ topic_model_inc' = topic_model_inc /\ merger_queue' = merger_queue
      BY <1>0, <2>1 DEF MergerWake, MergerIdle
    <3>2. MergingIn(merger, m, b) = 0 /\ MergingIn(merger', m, b) = 0
      BY <3>1 DEF MergingIn
    <3>3. after = before
      BY <3>1, <3>2
    <3>4. QED
      BY <1>2, <3>3
  <2>2. CASE MergerTask
    <3> DEFINE task == Head(internal_task_queue)
    <3>1. merger' = merger /\ merger_queue' = merger_queue /\ internal_task_queue # <<>>
      BY <2>2 DEF MergerTask
    <3>2. /\ Len(internal_task_queue) \in Nat /\ 1 \in 1..Len(internal_task_queue)
          /\ task = internal_task_queue[1] /\ task \in Tasks
      BY <1>0, <3>1
    <3>3. task.type # "kForcePullTopicModel"
      <4>1. ASSUME task.type = "kForcePullTopicModel" PROVE FALSE
        <5>1. ~sync /\ api.pc = "wait.pulled"
          BY <1>0, <3>2, <4>1 DEF MasterInv
        <5>2. sync'
          BY <2>2, <4>1 DEF MergerTask
        <5>3. QED
          BY <5>1, <5>2
      <4>2. QED
        BY <4>1
    <3>4. CASE task.type = "kForcePushTopicModelIncrement"
      <4>1. topic_model_inc' = topic_model_inc
        BY <2>2, <3>4 DEF MergerTask
      <4>2. after = before
        BY <3>1, <4>1
      <4>3. QED
        BY <1>2, <4>2
    <3>5. CASE task.type = "kDisposeModel"
      <4>1. topic_model_inc' = [topic_model_inc EXCEPT ![task.model] = Nil]
        BY <2>2, <3>5 DEF MergerTask
      <4>2. topic_model_inc'[m] \in {topic_model_inc[m], Nil}
        BY <1>0, <4>1
      <4>3. CountIn(Nil, b) = 0
        BY DEF CountIn
      <4>4. CountIn(topic_model_inc'[m], b) \in {CountIn(topic_model_inc[m], b), 0}
        BY <4>2, <4>3
      <4>5. after <= before
        BY <1>2, <3>1, <4>4
      <4>6. ~NoDispose(internal_task_queue)
        BY <3>2, <3>5 DEF NoDispose
      <4>7. ASSUME MasterDry PROVE after = before
        <5>1. topic_model_inc[m] = Nil /\ topic_model_inc'[m] = Nil
          BY <4>2, <4>7 DEF MasterDry
        <5>2. QED
          BY <3>1, <5>1
      <4>8. QED
        BY <4>5, <4>6, <4>7
    <3>6. task.type \in TaskTypes
      BY <3>2 DEF Tasks
    <3>7. QED
      BY <3>3, <3>4, <3>5, <3>6 DEF TaskTypes
  <2>3. CASE MergerPop
    <3> DEFINE inc == Head(merger_queue)
    <3>1. /\ merger.pc = "run" /\ merger' = [pc |-> "merge", increment |-> inc]
          /\ merger_queue # <<>> /\ merger_queue' = Tail(merger_queue)
          /\ topic_model_inc' = topic_model_inc
      BY <2>3 DEF MergerPop
    <3>2. MergingIn(merger, m, b) = 0
      BY <3>1 DEF MergingIn
    <3>3. MergingIn(merger', m, b) = IF inc.model = m THEN inc.n_wt[b] ELSE 0
      BY <3>1 DEF MergingIn
    <3>4. Pending(merger_queue, m, b)
            = Pending(merger_queue', m, b) + (IF inc.model = m THEN inc.n_wt[b] ELSE 0)
      BY <1>0, <3>1, PendingTail
    <3> HIDE DEF inc
    <3>5. Pending(merger_queue, m, b) = Pending(merger_queue', m, b) + MergingIn(merger', m, b)
      BY <3>3, <3>4
    <3>6. after = before
      BY <1>2, <3>1, <3>2, <3>5
    <3>7. QED
      BY <1>2, <3>6
  <2>4. CASE MergerMerge
    <3> DEFINE inc == merger.increment
    <3>1. /\ merger.pc = "merge" /\ merger'.pc = "run" /\ inc \in Increment
          /\ merger_queue' = merger_queue
      BY <1>0, <2>4 DEF MergerMerge
    <3>2. inc.model = m /\ inc.n_wt \in Counts
      BY <3>1 DEF OneModel, Increment
    <3>3. topic_model_inc'[m] = Accumulated(topic_model_inc[m], inc.n_wt)
      <4>1. topic_model_inc' =
              [topic_model_inc EXCEPT ![inc.model] = IF topic_model[inc.model] = Nil THEN @
                                                     ELSE Accumulated(@, inc.n_wt)]
        BY <2>4 DEF MergerMerge
      <4> HIDE DEF inc
      <4>2. QED
        BY <1>0, <3>2, <4>1
    <3>4. MergingIn(merger, m, b) = inc.n_wt[b] /\ MergingIn(merger', m, b) = 0
      BY <3>1, <3>2 DEF MergingIn
    <3> HIDE DEF inc
    <3>5. CountIn(topic_model_inc'[m], b) = CountIn(topic_model_inc[m], b) + inc.n_wt[b]
      <4>1. CASE topic_model_inc[m] = Nil
        <5>1. topic_model_inc'[m] = inc.n_wt /\ inc.n_wt # Nil
          BY <3>2, <3>3, <4>1, NilIsNoModel DEF Accumulated
        <5>2. inc.n_wt[b] \in Nat
          BY <3>2 DEF Counts
        <5>3. QED
          BY <4>1, <5>1, <5>2 DEF CountIn
      <4>2. CASE topic_model_inc[m] # Nil
        <5>1. topic_model_inc[m] \in Counts
          BY <1>0, <4>2
        <5>2. topic_model_inc'[m] = Plus(topic_model_inc[m], inc.n_wt)
          BY <3>3, <4>2 DEF Accumulated
        <5>3. Plus(topic_model_inc[m], inc.n_wt) \in Counts
          BY <3>2, <5>1 DEF Plus, Counts
        <5>4. topic_model_inc'[m] # Nil
          BY <5>2, <5>3, NilIsNoModel
        <5>5. topic_model_inc'[m][b] = topic_model_inc[m][b] + inc.n_wt[b]
          BY <5>2 DEF Plus
        <5>6. QED
          BY <4>2, <5>4, <5>5 DEF CountIn
      <4>3. QED
        BY <4>1, <4>2
    <3>6. after = before
      BY <1>2, <3>1, <3>4, <3>5
    <3>7. QED
      BY <1>2, <3>6
  <2>5. QED
    BY <1>1, <2>1, <2>2, <2>3, <2>4 DEF MergerThread
<1>5. before \in Nat /\ after \in Nat
  BY <1>2
<1> HIDE DEF before, after
<1>6. QED
  BY <1>2, <1>3, <1>4, <1>5

\* When nothing is on its way only the master's increment is accounted for.
LEMMA NothingLeft ==
  ASSUME NEW m \in Model, NEW b \in Batch
  PROVE  /\ IsFiniteSet(Nodes) /\ NetworkInv /\ tasks = <<>> /\ merger_queue = <<>>
              /\ merger.pc # "merge" /\ (\A n \in Nodes : Idle(n) /\ Dry(n)) =>
              Accounted(m, b) = CountIn(topic_model_inc[m], b)
         /\ IsFiniteSet(Nodes) /\ NetworkInv' /\ tasks' = <<>> /\ merger_queue' = <<>>
              /\ merger'.pc # "merge" /\ (\A n \in Nodes : Idle(n)' /\ Dry(n)') =>
              Accounted(m, b)' = CountIn(topic_model_inc'[m], b)
<1>1. ASSUME NEW s \in NodeState, HeldIn(s, b) = 0, s.topic_model_inc[m] = Nil
      PROVE  ShareIn(s, m, b) = 0
  <2>1. TakenIn(s, b) \in Nat /\ One(s.reported = b) \in Nat
    BY <1>1, TakenInType DEF One
  <2>2. TakenIn(s, b) = 0
    BY <1>1, <2>1 DEF HeldIn
  <2>3. IncIn(s, m, b) = 0
    BY <1>1 DEF IncIn
  <2>4. QED
    BY <2>2, <2>3 DEF ShareIn
<1>2. Occurrences(<<>>, b) = 0 /\ Pending(<<>>, m, b) = 0
  BY OccursNone, PendingNone
<1>3. ASSUME IsFiniteSet(Nodes), NetworkInv, tasks = <<>>, merger_queue = <<>>,
             merger.pc # "merge", \A n \in Nodes : Idle(n) /\ Dry(n)
      PROVE  Accounted(m, b) = CountIn(topic_model_inc[m], b)
  <2>1. node \in [Nodes -> NodeState]
    BY <1>3 DEF NetworkInv, TypeOK, NetworkNodeTypeOK
  <2>2. ASSUME NEW n \in Nodes PROVE ShareIn(node[n], m, b) = 0
    BY <1>1, <1>3, <2>1 DEF Idle, Dry, Held
  <2>3. Total(Shares(node, m, b)) = 0
    BY <2>2, SharesNone
  <2>4. MergingIn(merger, m, b) = 0
    BY <1>3 DEF MergingIn
  <2>5. Occurrences(tasks, b) = 0 /\ Pending(merger_queue, m, b) = 0
    BY <1>2, <1>3
  <2>6. CountIn(topic_model_inc[m], b) \in Nat
    BY <1>3, Pieces
  <2>7. QED
    BY <2>3, <2>4, <2>5, <2>6, AccountedAs
<1>4. ASSUME IsFiniteSet(Nodes), NetworkInv', tasks' = <<>>, merger_queue' = <<>>,
             merger'.pc # "merge", \A n \in Nodes : Idle(n)' /\ Dry(n)'
      PROVE  Accounted(m, b)' = CountIn(topic_model_inc'[m], b)
  <2>1. node' \in [Nodes -> NodeState]
    BY <1>4 DEF NetworkInv, TypeOK, NetworkNodeTypeOK
  <2>2. ASSUME NEW n \in Nodes PROVE ShareIn(node'[n], m, b) = 0
    <3>1. Idle(n)' /\ Dry(n)'
      BY <1>4
    <3>2. HeldIn(node'[n], b) = 0 /\ node'[n].topic_model_inc[m] = Nil
      BY <3>1 DEF Idle, Dry, Held
    <3>3. QED
      BY <1>1, <2>1, <3>2
  <2>3. Total(Shares(node', m, b)) = 0
    BY <2>2, SharesNone
  <2>4. MergingIn(merger', m, b) = 0
    BY <1>4 DEF MergingIn
  <2>5. Occurrences(tasks', b) = 0 /\ Pending(merger_queue', m, b) = 0
    BY <1>2, <1>4
  <2>6. CountIn(topic_model_inc'[m], b) \in Nat
    BY <1>4, PiecesAfter
  <2>7. QED
    BY <2>3, <2>4, <2>5, <2>6, AccountedAs
<1>5. QED
  BY <1>3, <1>4

\* After WaitIdle nothing is accounted for, and nothing is due.
LEMMA QuietCounts ==
  ASSUME IsFiniteSet(Nodes), NetworkInv', FlowInv', quiet', NEW m \in Model, NEW b \in Batch
  PROVE  Accounted(m, b)' = 0 /\ due'[m][b] = 0
<1>1. /\ tasks' = <<>> /\ merger_queue' = <<>> /\ merger'.pc # "merge" /\ MasterDry'
      /\ \A n \in Nodes : Idle(n)' /\ Dry(n)'
      /\ due'[m] = NoCounts
  BY DEF FlowInv, QuietInv
<1>2. Accounted(m, b)' = CountIn(topic_model_inc'[m], b)
  BY <1>1, NothingLeft
<1>3. CountIn(topic_model_inc'[m], b) = 0
  BY <1>1 DEF MasterDry, CountIn
<1>4. QED
  BY <1>1, <1>2, <1>3 DEF NoCounts

\* The other steps of the calls leave alone what is due; only connecting and
\* disconnecting a node may lose what it has.
LEMMA NodeStepsMove ==
  ASSUME IsFiniteSet(Nodes), NetworkInv, NetworkInv', FlowInv, NodeSteps \/ NodeForce,
         NEW m \in Model, NEW b \in Batch
  PROVE  /\ Accounted(m, b)' <= Accounted(m, b)
         /\ api.pc \notin {"connect", "disconnect"} => Accounted(m, b)' = Accounted(m, b)
<1>1. CASE NodeForce
  <2>1. PICK s : Gives(NextNode, s) /\ s # NoInstance
    BY <1>1, ForceGives
  <2>2. NextNode \in Nodes
    BY <1>1, ForceGives
  <2>3. QED
    BY <2>1, <2>2, GivenMoves
<1>2. CASE NodeSteps
  <2>1. NextNode \in Nodes /\ \E s : Gives(NextNode, s)
    BY <1>2, CallFlowHolds, NodeStepsGive
  <2>2. PICK s : Gives(NextNode, s)
    BY <2>1
  <2>3. Accounted(m, b)' <= Accounted(m, b)
    BY <2>1, <2>2, GivenMoves
  <2>4. ASSUME api.pc \notin {"connect", "disconnect"}
        PROVE  Accounted(m, b)' = Accounted(m, b)
    <3>1. UNCHANGED <<tasks, topic_model_inc, merger, merger_queue>>
          /\ \A k \in Nodes : k # NextNode => node'[k] = node[k]
      BY <2>1, <2>2, GivenCounts DEF LessFlow, batchManagerVars
    <3>2. /\ TypeOK /\ node \in [Nodes -> NodeState] /\ node[NextNode] \in NodeState
          /\ api.model \in Model \cup {Nil}
      BY <2>1 DEF NetworkInv, TypeOK, NetworkNodeTypeOK, Api
    <3>3. ShareIn(node'[NextNode], m, b) = ShareIn(node[NextNode], m, b)
      <4> DEFINE n == NextNode
      <4>1. /\ node'[n].batches = node[n].batches
            /\ node'[n].processor_queue = node[n].processor_queue
            /\ node'[n].batch = node[n].batch /\ node'[n].todo = node[n].todo
            /\ node'[n].merger_queue = node[n].merger_queue
            /\ node'[n].topic_model_inc = node[n].topic_model_inc
        <5>1. CASE CreateModelNode
          <6>1. \/ node' = [node EXCEPT ![n].topic_model[api.model] = IF @ = Nil THEN NewModel ELSE @]
                \/ node' = node
            BY <5>1 DEF CreateModelNode
          <6> HIDE DEF n
          <6>2. QED
            BY <2>1, <3>2, <6>1 DEF NodeState, n
        <5>2. CASE DisposeModelNode
          <6> DEFINE queue == IF node[n].instance
                              THEN Append(node[n].tasks, Task("kDisposeModel", api.model))
                              ELSE node[n].tasks
          <6>1. node' = [node EXCEPT ![n].topic_model[api.model] = Nil, ![n].tasks = queue]
            BY <2>1, <3>2, <5>2 DEF DisposeModelNode, NodeState
          <6> HIDE DEF n, queue
          <6>2. QED
            BY <2>1, <3>2, <6>1 DEF NodeState, n
        <5>3. CASE ConfigureClient
          <6>1. node' = [node EXCEPT ![n].instance = TRUE]
            BY <5>3 DEF ConfigureClient
          <6> HIDE DEF n
          <6>2. QED
            BY <2>1, <3>2, <6>1 DEF NodeState, n
        <5>4. ~ConnectClient /\ ~DisconnectClient
          BY <2>4 DEF ConnectClient, DisconnectClient
        <5>5. QED
          BY <1>2, <5>1, <5>2, <5>3, <5>4 DEF NodeSteps
      <4>2. QED
        BY <4>1 DEF ShareIn, TakenIn, IncIn
    <3>4. /\ Accounted(m, b)' + ShareIn(node[NextNode], m, b)
               = Accounted(m, b) + ShareIn(node'[NextNode], m, b)
          /\ ShareIn(node[NextNode], m, b) \in Nat
      BY <2>1, <3>1, OneNodeMoves
    <3>5. Accounted(m, b) \in Nat /\ Accounted(m, b)' \in Nat
      BY AccountedType
    <3>6. QED
      BY <3>3, <3>4, <3>5
  <2>5. QED
    BY <2>3, <2>4
<1>3. QED
  BY <1>1, <1>2

Others ==
  \/ ApiCall
  \/ NodeForce \/ NodeForceNoInstance \/ NodeForced \/ NodesDone \/ NodeSteps
  \/ WaitTimeout \/ WaitProcessed \/ WaitIsIdle \/ WaitQueueNotEmpty \/ WaitPush
  \/ WaitPull \/ WaitPulled

LEMMA OthersAre == ApiCall \/ ApiThread => Others \/ InvokeAdd \/ WaitReturn
BY Zenon DEF Others, ApiThread, NodeSteps

LEMMA CallsMove ==
  ASSUME IsFiniteSet(Nodes), NetworkInv, NetworkInv', FlowInv, QuietCreation, ~quiet', Others
  PROVE  /\ UNCHANGED <<schema, due>>
         /\ api'.pc \notin Pulling \/ api'.pc = "wait.pulled" => api.pc \notin Pulling
         /\ \A m \in Model, b \in Batch :
              /\ Accounted(m, b)' <= Accounted(m, b)
              /\ api.pc \notin {"connect", "disconnect"} => Accounted(m, b)' = Accounted(m, b)
<1>0. api \in Api
  BY DEF NetworkInv, TypeOK
<1>1. CASE ApiCall
  <2>1. api.pc = "ready"
    BY <1>1 DEF ApiCall, Reconfigure, CreateModel, RecreateModel, DisposeModel, OverwriteTopicModel, AddBatch,
       InvokePhiRegularizers, InvokeIteration, WaitIdle, Call
  <2>2. ASSUME NEW m \in Model PROVE ~CreateModel(m) /\ ~DisposeModel(m)
    <3>1. ASSUME CreateModel(m) PROVE FALSE
      BY <3>1 DEF CreateModel, Call, QuietCreation
    <3>2. ASSUME DisposeModel(m) PROVE FALSE
      <4>1. "DisposeModel" \in Calls
        BY <3>2 DEF DisposeModel, Call
      <4>2. "DisposeModel" \in QuietCalls
        BY <4>1, NetworkAssumption
      <4>3. QED
        BY <3>2, <4>2 DEF DisposeModel, Call
    <3>3. QED
      BY <3>1, <3>2
  <2>3. UNCHANGED <<schema, due>>
        /\ UNCHANGED <<tasks, topic_model_inc, merger, merger_queue, node>>
    <3>1. ASSUME NEW m \in Model, OverwriteTopicModel(m)
          PROVE  UNCHANGED <<schema, due, tasks, topic_model_inc, merger, merger_queue, node>>
      BY <3>1 DEF OverwriteTopicModel, batchManagerVars
    <3>2. ASSUME NEW e \in NodeSets, Reconfigure(e)
          PROVE  UNCHANGED <<schema, due, tasks, topic_model_inc, merger, merger_queue, node>>
      BY <3>2 DEF Reconfigure, batchManagerVars, mergerVars
    <3>r. ASSUME NEW m \in Model, RecreateModel(m)
          PROVE  UNCHANGED <<schema, due, tasks, topic_model_inc, merger, merger_queue, node>>
      BY <3>r DEF RecreateModel, batchManagerVars, mergerVars
    <3>3. ASSUME NEW b \in Batch, AddBatch(b)
          PROVE  UNCHANGED <<schema, due, tasks, topic_model_inc, merger, merger_queue, node>>
      BY <3>3 DEF AddBatch, batchManagerVars, mergerVars
    <3>4. ASSUME InvokePhiRegularizers
          PROVE  UNCHANGED <<schema, due, tasks, topic_model_inc, merger, merger_queue, node>>
      BY <3>4 DEF InvokePhiRegularizers, batchManagerVars
    <3>5. ASSUME NEW n \in IterationCounts, InvokeIteration(n)
          PROVE  UNCHANGED <<schema, due, tasks, topic_model_inc, merger, merger_queue, node>>
      BY <3>5 DEF InvokeIteration, batchManagerVars, mergerVars
    <3>6. ASSUME WaitIdle
          PROVE  UNCHANGED <<schema, due, tasks, topic_model_inc, merger, merger_queue, node>>
      BY <3>6 DEF WaitIdle, batchManagerVars, mergerVars
    <3>7. UNCHANGED <<schema, due, tasks, topic_model_inc, merger, merger_queue, node>>
      BY <1>1, <2>2, <3>1, <3>2, <3>r, <3>3, <3>4, <3>5, <3>6, Zenon DEF ApiCall
    <3>8. QED
      BY <3>7
  <2>4. \A m, b : Accounted(m, b)' = Accounted(m, b)
    BY <2>3, Unmoved
  <2>5. \A m \in Model, b \in Batch : Accounted(m, b) \in Nat
    BY AccountedType
  <2>6. \A m \in Model, b \in Batch :
              /\ Accounted(m, b)' <= Accounted(m, b)
              /\ api.pc \notin {"connect", "disconnect"} => Accounted(m, b)' = Accounted(m, b)
    BY <2>4, <2>5
  <2>7. QED
    BY <2>1, <2>3, <2>6 DEF Pulling
<1>2. CASE NodeSteps \/ NodeForce
  <2>1. UNCHANGED <<schema, due>>
    BY <1>2 DEF NodeSteps, CreateModelNode, DisposeModelNode, ConnectClient, DisconnectClient,
       ConfigureClient, NodeForce
  <2>2. CASE NodeForce
    <3>1. api'.pc = api.pc /\ api.pc \in {"refresh", "wait.push", "wait.nodes"}
      BY <1>0, <2>2 DEF NodeForce, Forcing, Api
    <3>2. QED
      BY <2>1, <2>2, <3>1, NodeStepsMove DEF Pulling
  <2>3. CASE NodeSteps
    <3>1. api.pc \in {"create", "dispose", "connect", "disconnect", "configure"}
      BY <2>3 DEF NodeSteps, CreateModelNode, DisposeModelNode, ConnectClient, DisconnectClient,
         ConfigureClient
    <3>2. QED
      BY <2>1, <2>3, <3>1, NodeStepsMove DEF Pulling
  <2>4. QED
    BY <1>2, <2>2, <2>3
<1>3. CASE \/ NodeForceNoInstance \/ NodeForced \/ NodesDone
           \/ WaitTimeout \/ WaitProcessed \/ WaitIsIdle \/ WaitQueueNotEmpty \/ WaitPush
           \/ WaitPull \/ WaitPulled
  <2>1. UNCHANGED <<schema, due, tasks, topic_model_inc, merger, merger_queue, node>>
    BY <1>3 DEF NodeForceNoInstance, NodeForced, NodesDone, WaitTimeout, WaitProcessed, WaitIsIdle,
       WaitQueueNotEmpty, WaitPush, WaitPull, WaitPulled, ForceTask, batchManagerVars, mergerVars
  <2>2. api'.pc \notin Pulling \/ api'.pc = "wait.pulled" => api.pc \notin Pulling
    <3>1. CASE NodeForceNoInstance \/ NodeForced
      BY <1>0, <3>1 DEF NodeForceNoInstance, NodeForced, Replied, Forcing, Api, Pulling
    <3>2. CASE NodesDone
      <4>1. /\ \/ api.pc \in {"create", "dispose", "refresh", "configure"}
               \/ api.pc = "connect" \/ api.pc = "disconnect"
               \/ api.pc = "wait.push"
               \/ api.pc = "wait.nodes" /\ Goto("wait.done")
        BY <3>2 DEF NodesDone
      <4>2. QED
        BY <1>0, <4>1 DEF Goto, Api, Pulling
    <3>3. CASE WaitTimeout \/ WaitProcessed \/ WaitIsIdle \/ WaitQueueNotEmpty \/ WaitPush \/ WaitPull
      BY <3>3 DEF WaitTimeout, WaitProcessed, WaitIsIdle, WaitQueueNotEmpty, WaitPush, WaitPull,
         At, Pulling
    <3>4. CASE WaitPulled
      BY <1>0, <3>4 DEF WaitPulled, Api, Pulling
    <3>5. QED
      BY <1>3, <3>1, <3>2, <3>3, <3>4
  <2>3. \A m, b : Accounted(m, b)' = Accounted(m, b)
    BY <2>1, Unmoved
  <2>4. \A m \in Model, b \in Batch : Accounted(m, b) \in Nat
    BY AccountedType
  <2>5. QED
    BY <2>1, <2>2, <2>3, <2>4
<1>4. QED
  BY <1>1, <1>2, <1>3, Zenon DEF Others

\* The task that is added is due for each enabled model.
LEMMA AddDue ==
  ASSUME IsFiniteSet(Nodes), NetworkInv, NetworkInv', InvokeAdd,
         NEW m \in EnabledModels, NEW b \in Batch
  PROVE  \E one \in Nat : /\ Accounted(m, b)' = Accounted(m, b) + one
                          /\ due'[m][b] = due[m][b] + one
<1>0. /\ api \in Api /\ api.batches # {} /\ m \in Model /\ due \in [Model -> Counts]
  BY DEF NetworkInv, TypeOK, CallInv, InvokeAdd, At, EnabledModels
<1> DEFINE x == Min(api.batches)
<1>1. x \in Batch
  <2>1. api.batches \in SUBSET Nat /\ api.batches \subseteq Batch
    BY <1>0, BatchAssumption DEF Api
  <2>2. x \in api.batches
    BY <1>0, <2>1, MinIsIn
  <2>3. QED
    BY <2>1, <2>2
<1>2. /\ Add(x) /\ UNCHANGED <<topic_model_inc, merger, merger_queue, node>>
      /\ due' = [k \in Model |-> IF k \in EnabledModels
                                 THEN [due[k] EXCEPT ![x] = @ + 1] ELSE due[k]]
  BY DEF InvokeAdd, mergerVars
<1> HIDE DEF x
<1>3. Accounted(m, b)' = Accounted(m, b) + One(x = b)
  BY <1>0, <1>1, <1>2, AddMoves
<1>4. due[m] \in [Batch -> Nat] /\ due'[m] = [due[m] EXCEPT ![x] = @ + 1]
  BY <1>0, <1>2 DEF Counts
<1>5. due'[m][b] = due[m][b] + One(x = b)
  BY <1>1, <1>4 DEF One
<1>6. One(x = b) \in Nat
  BY DEF One
<1>7. QED
  BY <1>3, <1>5, <1>6

LEMMA CountedOnceStep ==
  ASSUME IsFiniteSet(Nodes), NetworkInv, NetworkInv', FlowInv, FlowInv', OneModel, QuietCreation,
         CountedOnce, [Next]_vars
  PROVE  CountedOnce'
<1>0. /\ node \in [Nodes -> NodeState] /\ due \in [Model -> Counts]
  BY DEF NetworkInv, TypeOK, NetworkNodeTypeOK
<1>1. SUFFICES ASSUME api'.pc \notin Pulling, NEW m \in EnabledModels', NEW b \in Batch
               PROVE  Accounted(m, b)' <= due'[m][b]
  BY DEF CountedOnce
<1>2. m \in Model /\ (schema' = schema => m \in EnabledModels)
  BY <1>1 DEF EnabledModels
<1>3. /\ Accounted(m, b) \in Nat /\ Accounted(m, b)' \in Nat /\ due[m][b] \in Nat
  BY <1>0, <1>2, AccountedType DEF Counts
<1>4. CASE quiet'
  BY <1>2, <1>4, QuietCounts
<1>5. CASE ~quiet'
  <2>1. ASSUME schema' = schema, due' = due, api.pc \notin Pulling,
               Accounted(m, b)' <= Accounted(m, b)
        PROVE  Accounted(m, b)' <= due'[m][b]
    <3>1. Accounted(m, b) <= due[m][b]
      BY <1>2, <2>1 DEF CountedOnce
    <3>2. QED
      BY <1>3, <2>1, <3>1
  <2>2. CASE Others
    <3>1. /\ UNCHANGED <<schema, due>>
          /\ api'.pc \notin Pulling \/ api'.pc = "wait.pulled" => api.pc \notin Pulling
          /\ Accounted(m, b)' <= Accounted(m, b)
      BY <1>2, <1>5, <2>2, CallsMove
    <3>2. QED
      BY <1>1, <2>1, <3>1
  <2>3. CASE InvokeAdd
    <3>1. schema' = schema /\ api.pc \notin Pulling
      BY <2>3 DEF InvokeAdd, At, Pulling
    <3>2. Accounted(m, b) <= due[m][b] /\ m \in EnabledModels
      BY <1>2, <3>1 DEF CountedOnce
    <3>3. \E one \in Nat : /\ Accounted(m, b)' = Accounted(m, b) + one
                           /\ due'[m][b] = due[m][b] + one
      BY <2>3, <3>2, AddDue
    <3>4. QED
      BY <1>3, <3>2, <3>3
  <2>4. CASE WaitReturn
    <3>1. schema' = schema /\ quiet' = (quiet \/ EnabledModels # {})
      BY <2>4 DEF WaitReturn
    <3>2. QED
      BY <1>2, <1>5, <3>1
  <2>5. CASE MergerStep
    <3>1. UNCHANGED <<schema, due, api>>
      BY <2>5 DEF MergerStep, apiVars
    <3>2. api.pc \notin Pulling
      BY <1>1, <3>1
    <3>3. topic_model[m] # Nil
      BY <1>2, <3>1 DEF EnabledModels, FlowInv, SchemaInv, Present
    <3>4. api.pc = "wait.pulled" => sync' = sync
      BY <3>2 DEF Pulling
    <3>5. Accounted(m, b)' <= Accounted(m, b)
      BY <1>2, <2>5, <3>3, <3>4, MergerMoves
    <3>6. QED
      BY <2>1, <3>1, <3>2, <3>5
  <2>6. ASSUME NEW n \in Nodes, ServiceStep(n) \/ NodeStep(n) \/ Stop(n) \/ Restart(n)
        PROVE  Accounted(m, b)' <= due'[m][b]
    <3>1. UNCHANGED <<schema, due, api>>
      BY <2>6 DEF ServiceStep, NodeStep, Stop, Restart, apiVars
    <3>2. api.pc \notin Pulling
      BY <1>1, <3>1
    <3>3. CASE Aside(n)
      BY <1>2, <2>1, <3>1, <3>2, <3>3, AsideMoves
    <3>4. CASE ServiceStep(n) /\ RequestBatches(n)
      <4>1. Accounted(m, b)' = Accounted(m, b)
        BY <1>2, <3>4, RequestMoves
      <4>2. QED
        BY <1>3, <2>1, <3>1, <3>2, <4>1
    <3>5. CASE ServiceStep(n) /\ ReportBatches(n)
      <4>1. Accounted(m, b)' = Accounted(m, b)
        BY <1>2, <3>5, ReportMoves
      <4>2. QED
        BY <1>3, <2>1, <3>1, <3>2, <4>1
    <3>6. QED
      BY <2>6, <3>3, <3>4, <3>5 DEF Aside
  <2>7. CASE UNCHANGED vars
    <3>1. /\ UNCHANGED <<schema, due, api>>
          /\ UNCHANGED <<tasks, topic_model_inc, merger, merger_queue, node>>
      BY <2>7 DEF vars, batchManagerVars, mergerVars, apiVars
    <3>2. Accounted(m, b)' = Accounted(m, b)
      BY <3>1, Unmoved
    <3>3. QED
      BY <1>1, <1>3, <2>1, <3>1, <3>2
  <2>8. QED
    BY <2>2, <2>3, <2>4, <2>5, <2>6, <2>7, OthersAre DEF Next
<1>6. QED
  BY <1>4, <1>5

LEMMA InitAccounts ==
  ASSUME IsFiniteSet(Nodes), Init, NEW m \in Model, NEW b \in Batch
  PROVE  Accounted(m, b) = 0 /\ due[m][b] = 0
<1>1. NetworkInv /\ FlowInv
  BY FlowInvInit, NetworkInvInit
<1>2. /\ quiet /\ tasks = <<>> /\ merger_queue = <<>> /\ merger.pc # "merge" /\ MasterDry
      /\ \A n \in Nodes : Idle(n) /\ Dry(n)
      /\ due[m] = NoCounts
  BY <1>1 DEF Init, FlowInv, QuietInv
<1>3. Accounted(m, b) = CountIn(topic_model_inc[m], b)
  BY <1>1, <1>2, NothingLeft
<1>4. QED
  BY <1>2, <1>3 DEF MasterDry, CountIn, NoCounts

\* No task is counted twice on its way from the master's list over the nodes and
\* their increments into the master's model: not when nodes stop and come back empty
\* (RemoteDataLoader, Merger and MasterComponentServiceImpl), not when they are
\* connected and disconnected, nor when models are regularized or overwritten.
THEOREM NothingCountedTwice ==
  ASSUME IsFiniteSet(Nodes), OneModel, QuietCreation
  PROVE  Spec => []CountedOnce
<1>1. Init => CountedOnce
  <2>1. ASSUME Init, NEW m \in EnabledModels, NEW b \in Batch
        PROVE  Accounted(m, b) <= due[m][b]
    <3>1. m \in Model
      BY <2>1 DEF EnabledModels
    <3>2. Accounted(m, b) = 0 /\ due[m][b] = 0
      BY <2>1, <3>1, InitAccounts
    <3>3. QED
      BY <3>2
  <2>2. QED
    BY <2>1 DEF CountedOnce
<1>2. NetworkInv /\ NetworkInv' /\ FlowInv /\ FlowInv' /\ CountedOnce /\ [Next]_vars => CountedOnce'
  BY CountedOnceStep
<1>3. Spec => []NetworkInv
  BY NetworkInvariant
<1>4. Spec => []FlowInv
  BY FlowInvariant
<1>5. QED
  BY <1>1, <1>2, <1>3, <1>4, PTL DEF Spec

-----------------------------------------------------------------------------
(* No task is lost.                                                        *)
LEMMA DisposeTail ==
  ASSUME NEW q \in Seq(Tasks), q # <<>>, NoDispose(q)
  PROVE  NoDispose(Tail(q))
BY DEF NoDispose

LEMMA DisposeAppend ==
  ASSUME NEW q \in Seq(Tasks), NEW e \in Tasks, e.type # "kDisposeModel", NoDispose(q)
  PROVE  NoDispose(Append(q, e))
<1>1. /\ Len(q) \in Nat /\ Len(Append(q, e)) = Len(q) + 1
      /\ \A i \in 1..Len(q) : Append(q, e)[i] = q[i]
      /\ Append(q, e)[Len(q) + 1] = e
  OBVIOUS
<1>2. ASSUME NEW i \in 1..Len(Append(q, e)) PROVE Append(q, e)[i].type # "kDisposeModel"
  <2>1. i \in 1..Len(q) \/ i = Len(q) + 1
    BY <1>1, <1>2
  <2>2. CASE i \in 1..Len(q)
    BY <1>1, <2>2 DEF NoDispose
  <2>3. CASE i = Len(q) + 1
    BY <1>1, <2>3
  <2>4. QED
    BY <2>1, <2>2, <2>3
<1>3. QED
  BY <1>2 DEF NoDispose

\* A node keeps its instance and its models; what it has is not disposed of.
Tame(n) ==
  /\ node'[n].instance = node[n].instance
  /\ \A m \in Model : topic_model[m] # Nil /\ node[n].topic_model[m] # Nil =>
                        node'[n].topic_model[m] # Nil
  /\ NoDispose(node[n].tasks) => NoDispose(node'[n].tasks)
  /\ NoDispose(node'[n].tasks)
       \/ \A m \in Model : node[n].topic_model_inc[m] = Nil => node'[n].topic_model_inc[m] = Nil

LEMMA ThreadTame ==
  ASSUME node \in [Nodes -> NodeState], NEW n \in Nodes, NodeInv(n), BatchManagerTypeOK, OneModel,
         NodeThread(n) \/ Service(n)
  PROVE  Tame(n)
<1>0. node[n] \in NodeState /\ node[n].tasks \in Seq(Tasks)
      /\ node[n].topic_model_inc \in [Model -> Counts \cup {Nil}]
  BY DEF NodeState
<1>1. CASE LoaderThread(n) \/ ProcessorThread(n) \/ RequestBatches(n) \/ RequestBatchesReply(n)
  <2>1. Beside(n)
    BY <1>1, BesideOK, Zenon
  <2>2. QED
    BY <2>1 DEF Beside, Tame
<1>2. CASE NodeTask(n)
  <2>1. /\ node'[n].topic_model = node[n].topic_model /\ node'[n].instance = node[n].instance
        /\ \/ node'[n].topic_model_inc = node[n].topic_model_inc
           \/ node'[n].topic_model_inc
                = [node[n].topic_model_inc EXCEPT ![Head(node[n].tasks).model] = Nil]
    BY <1>2, NodeTaskCounts, Zenon
  <2>2. node[n].tasks # <<>>
    BY <1>2 DEF NodeTask
  <2>3. node'[n].tasks \in {node[n].tasks, Tail(node[n].tasks)}
    BY <1>0, <1>2 DEF NodeTask, NodeState
  <2>4. NoDispose(node[n].tasks) => NoDispose(node'[n].tasks)
    BY <1>0, <2>2, <2>3, DisposeTail
  <2>5. \A m \in Model : node[n].topic_model_inc[m] = Nil => node'[n].topic_model_inc[m] = Nil
    BY <1>0, <2>1
  <2>6. QED
    BY <2>1, <2>4, <2>5 DEF Tame
<1>3. CASE NodeMerge(n)
  <2>1. node'[n].topic_model = node[n].topic_model /\ node'[n].instance = node[n].instance
    BY <1>3, NodeMergeKeeps
  <2>2. node[n].tasks = <<>> /\ node'[n].tasks = <<>>
    BY <1>0, <1>3 DEF NodeMerge, NodeState
  <2>3. NoDispose(<<>>)
    BY DEF NoDispose
  <2>4. QED
    BY <2>1, <2>2, <2>3 DEF Tame
<1>4. CASE NodeSignal(n)
  <2>1. /\ node'[n].topic_model = node[n].topic_model /\ node'[n].instance = node[n].instance
        /\ node'[n].topic_model_inc = node[n].topic_model_inc
    BY <1>4, NodeSignalCounts
  <2>2. node[n].tasks # <<>>
    BY <1>4 DEF NodeSignal, NodeInv
  <2>3. node'[n].tasks = Tail(node[n].tasks)
    BY <1>0, <1>4 DEF NodeSignal, NodeState
  <2>4. NoDispose(node[n].tasks) => NoDispose(node'[n].tasks)
    BY <1>0, <2>2, <2>3, DisposeTail
  <2>5. QED
    BY <2>1, <2>4 DEF Tame
<1>5. CASE ReportBatches(n)
  <2>1. /\ node'[n].topic_model = node[n].topic_model /\ node'[n].instance = node[n].instance
        /\ node'[n].topic_model_inc = node[n].topic_model_inc
    BY <1>5, ReportCounts
  <2>2. node'[n].tasks = node[n].tasks
    BY <1>0, <1>5 DEF ReportBatches, NodeState
  <2>3. QED
    BY <2>1, <2>2 DEF Tame
<1>6. CASE UpdateModel(n)
  <2>1. /\ node'[n].topic_model = node[n].topic_model /\ node'[n].instance = node[n].instance
        /\ node'[n].tasks = node[n].tasks
    BY <1>0, <1>6 DEF UpdateModel, NodeState
  <2>2. \A m \in Model : node'[n].topic_model_inc[m] = Nil
    BY <1>6, UpdateCounts
  <2>3. QED
    BY <2>1, <2>2 DEF Tame
<1>7. CASE RetrieveModel(n)
  <2>1. node'[n].instance = node[n].instance /\ node'[n].tasks = node[n].tasks
    BY <1>0, <1>7 DEF RetrieveModel, NodeState
  <2>2. \A m \in Model : /\ node'[n].topic_model_inc[m] = Nil
                         /\ node'[n].topic_model[m] = topic_model[m]
    BY <1>7, RetrieveCounts
  <2>3. QED
    BY <2>1, <2>2 DEF Tame
<1>8. QED
  BY <1>1, <1>2, <1>3, <1>4, <1>5, <1>6, <1>7 DEF NodeThread, NodeMergerThread, Service

\* A node that has the model, and does not dispose of it, keeps its share until it pushes.
LEMMA ThreadExact ==
  ASSUME node \in [Nodes -> NodeState], NEW n \in Nodes, NodeInv(n), HolderInv(n),
         BatchManagerTypeOK, OneModel, NEW m \in Model, NEW b \in Batch,
         NodeThread(n) \/ (Service(n) /\ ~RequestBatches(n)), ~UpdateModel(n),
         node[n].topic_model[m] # Nil,
         NoDispose(node[n].tasks) \/ Dry(n), ~RetrieveModel(n) \/ Dry(n)
  PROVE  ShareIn(node'[n], m, b) = ShareIn(node[n], m, b)
<1>0. node[n] \in NodeState /\ node[n].tasks \in Seq(Tasks)
      /\ node[n].topic_model_inc \in [Model -> Counts \cup {Nil}]
      /\ TakenIn(node[n], b) \in Nat /\ IncIn(node[n], m, b) \in Nat
  BY TakenInType, IncInType DEF NodeState
<1>1. CASE LoaderThread(n) \/ ProcessorThread(n) \/ RequestBatchesReply(n)
  <2>1. Beside(n)
    BY <1>1, BesideOK, Zenon
  <2>2. TakenIn(node'[n], b) = TakenIn(node[n], b)
    <3>1. CASE LoaderThread(n)
      BY <3>1, LoaderCounts
    <3>2. CASE ProcessorThread(n)
      BY <3>2, ProcessorCounts
    <3>3. CASE RequestBatchesReply(n)
      BY <3>3, ReplyCounts
    <3>4. QED
      BY <1>1, <3>1, <3>2, <3>3
  <2>3. QED
    BY <2>1, <2>2 DEF Beside, ShareIn, IncIn
<1>2. CASE NodeTask(n)
  <2>1. /\ TakenIn(node'[n], b) = TakenIn(node[n], b)
        /\ \/ node'[n].topic_model_inc = node[n].topic_model_inc
           \/ /\ node[n].tasks # <<>> /\ Head(node[n].tasks).type = "kDisposeModel"
              /\ node'[n].topic_model_inc
                   = [node[n].topic_model_inc EXCEPT ![Head(node[n].tasks).model] = Nil]
    BY <1>2, NodeTaskCounts, Zenon
  <2>2. CASE node'[n].topic_model_inc = node[n].topic_model_inc
    BY <2>1, <2>2 DEF ShareIn, IncIn
  <2>3. CASE /\ node[n].tasks # <<>> /\ Head(node[n].tasks).type = "kDisposeModel"
             /\ node'[n].topic_model_inc
                  = [node[n].topic_model_inc EXCEPT ![Head(node[n].tasks).model] = Nil]
    <3>1. ~NoDispose(node[n].tasks)
      <4>1. 1 \in 1..Len(node[n].tasks) /\ Head(node[n].tasks) = node[n].tasks[1]
        BY <1>0, <2>3
      <4>2. QED
        BY <2>3, <4>1 DEF NoDispose
    <3>2. node[n].topic_model_inc[m] = Nil
      BY <3>1 DEF Dry
    <3>3. node'[n].topic_model_inc[m] = Nil
      BY <1>0, <2>3, <3>2
    <3>4. QED
      BY <2>1, <3>2, <3>3 DEF ShareIn, IncIn
  <2>4. QED
    BY <2>1, <2>2, <2>3
<1>3. CASE NodeMerge(n)
  <2> DEFINE one == One(Head(node[n].merger_queue).batch = b)
  <2>1. /\ TakenIn(node[n], b) = TakenIn(node'[n], b) + one
        /\ TakenIn(node'[n], b) \in Nat /\ one \in Nat
        /\ IncIn(node'[n], m, b) = IncIn(node[n], m, b) + one
    BY <1>3, NodeMergeCounts
  <2> HIDE DEF one
  <2>2. QED
    BY <1>0, <2>1 DEF ShareIn
<1>4. CASE NodeSignal(n)
  <2>1. TakenIn(node'[n], b) = TakenIn(node[n], b)
        /\ node'[n].topic_model_inc = node[n].topic_model_inc
    BY <1>4, NodeSignalCounts
  <2>2. QED
    BY <2>1 DEF ShareIn, IncIn
<1>5. CASE ReportBatches(n)
  <2>1. TakenIn(node'[n], b) = TakenIn(node[n], b)
        /\ node'[n].topic_model_inc = node[n].topic_model_inc
    BY <1>5, ReportCounts
  <2>2. QED
    BY <2>1 DEF ShareIn, IncIn
<1>6. CASE RetrieveModel(n)
  <2>1. TakenIn(node'[n], b) = TakenIn(node[n], b) /\ node'[n].topic_model_inc[m] = Nil
    BY <1>6, RetrieveCounts
  <2>2. node[n].topic_model_inc[m] = Nil
    BY <1>6 DEF Dry
  <2>3. QED
    BY <2>1, <2>2 DEF ShareIn, IncIn
<1>7. QED
  BY <1>1, <1>2, <1>3, <1>4, <1>5, <1>6 DEF NodeThread, NodeMergerThread, Service

LEMMA NodesStill ==
  ASSUME UNCHANGED <<schema, node, clients>>, NodesSteady,
         api.pc # "create" \/ api.nodes = {} \/ api' = api
  PROVE  NodesSteady'
<1>1. \A n \in Nodes : (NoDispose(node[n].tasks) \/ Dry(n))'
  BY DEF NodesSteady, Dry
<1>2. \A n \in clients : node[n].instance
  BY DEF NodesSteady
<1>3. ASSUME NEW n \in Nodes, NEW m \in Model, Present(m)', node'[n].instance
      PROVE  node'[n].topic_model[m] # Nil \/ (api'.pc = "create" /\ n \in api'.nodes)
  <2>1. node[n].topic_model[m] # Nil \/ (api.pc = "create" /\ n \in api.nodes)
    BY <1>3 DEF NodesSteady, Present
  <2>2. QED
    BY <2>1
<1>4. QED
  BY <1>1, <1>2, <1>3 DEF NodesSteady

LEMMA MasterStill ==
  ASSUME NetworkInv, MasterSteady, topic_model_inc' = topic_model_inc, merger' = merger,
         \/ internal_task_queue' = internal_task_queue
         \/ \E e \in Tasks : /\ e.type # "kDisposeModel"
                             /\ internal_task_queue' = Append(internal_task_queue, e)
  PROVE  MasterSteady'
<1>1. NoDispose(internal_task_queue) => NoDispose(internal_task_queue')
  BY DisposeAppend DEF NetworkInv, TypeOK, NetworkNodeTypeOK
<1>2. MasterDry' = MasterDry
  BY DEF MasterDry
<1>3. QED
  BY <1>1, <1>2 DEF MasterSteady

LEMMA MergerSteady ==
  ASSUME NetworkInv, MasterSteady, MergerThread
  PROVE  MasterSteady'
<1>0. internal_task_queue \in Seq(Tasks) /\ topic_model_inc \in [Model -> Counts \cup {Nil}]
      /\ merger \in [pc : {"idle", "run", "merge"}, increment : Increment \cup {Nil}]
  BY DEF NetworkInv, TypeOK, NetworkNodeTypeOK
<1>1. CASE MergerWake \/ MergerIdle
  <2>1. internal_task_queue' = internal_task_queue /\ topic_model_inc' = topic_model_inc
        /\ merger'.pc # "merge"
    BY <1>0, <1>1 DEF MergerWake, MergerIdle
  <2>2. MasterDry' = MasterDry
    BY <2>1 DEF MasterDry
  <2>3. QED
    BY <2>1, <2>2 DEF MasterSteady
<1>2. CASE MergerTask
  <2>1. /\ internal_task_queue # <<>> /\ internal_task_queue' = Tail(internal_task_queue)
        /\ merger' = merger
    BY <1>2 DEF MergerTask
  <2>2. NoDispose(internal_task_queue) => NoDispose(internal_task_queue')
    BY <1>0, <2>1, DisposeTail
  <2>3. ASSUME MasterDry PROVE MasterDry'
    <3>1. \A m \in Model : topic_model_inc[m] = Nil
      BY <2>3 DEF MasterDry
    <3>2. ASSUME NEW m \in Model PROVE topic_model_inc'[m] = Nil
      BY <1>0, <1>2, <3>1 DEF MergerTask
    <3>3. QED
      BY <3>2 DEF MasterDry
  <2>4. QED
    BY <2>1, <2>2, <2>3 DEF MasterSteady
<1>3. CASE MergerPop
  <2>1. internal_task_queue' = <<>>
    BY <1>3 DEF MergerPop
  <2>2. QED
    BY <2>1 DEF MasterSteady, NoDispose
<1>4. CASE MergerMerge
  <2>1. merger.pc = "merge" /\ internal_task_queue' = internal_task_queue
    BY <1>4 DEF MergerMerge
  <2>2. QED
    BY <2>1 DEF MasterSteady
<1>5. QED
  BY <1>1, <1>2, <1>3, <1>4 DEF MergerThread

\* A node steps, or a call gives it a task or a model.
LEMMA NodeTame ==
  ASSUME NodesSteady, clients \subseteq Nodes, NEW n \in Nodes,
         \A k \in Nodes : k # n => node'[k] = node[k],
         \A m \in Model : Present(m)' => Present(m) /\ topic_model[m] # Nil,
         clients' = clients,
         api' = api \/ (api.pc \notin {"create"} /\ api'.pc # "create"), Tame(n)
  PROVE  NodesSteady'
<1>1. ASSUME NEW k \in Nodes
      PROVE  /\ node'[k].instance = node[k].instance
             /\ \A m \in Model : Present(m)' /\ node[k].topic_model[m] # Nil => node'[k].topic_model[m] # Nil
             /\ NoDispose(node[k].tasks) => NoDispose(node'[k].tasks)
             /\ \/ NoDispose(node'[k].tasks)
                \/ \A m \in Model : node[k].topic_model_inc[m] = Nil => node'[k].topic_model_inc[m] = Nil
  BY DEF Tame
<1>2. \A k \in clients : node'[k].instance
  <2>1. ASSUME NEW k \in clients PROVE node'[k].instance
    <3>1. k \in Nodes /\ node[k].instance
      BY DEF NodesSteady
    <3>2. QED
      BY <1>1, <3>1
  <2>2. QED
    BY <2>1
<1>3. ASSUME NEW k \in Nodes, NEW m \in Model, Present(m)', node'[k].instance
      PROVE  node'[k].topic_model[m] # Nil \/ (api'.pc = "create" /\ k \in api'.nodes)
  <2>1. node[k].topic_model[m] # Nil \/ (api.pc = "create" /\ k \in api.nodes)
    BY <1>1, <1>3 DEF NodesSteady
  <2>2. QED
    BY <1>1, <1>3, <2>1
<1>4. ASSUME NEW k \in Nodes
      PROVE  \/ NoDispose(node'[k].tasks)
             \/ \A m \in Model : node'[k].topic_model_inc[m] = Nil
  <2>1. NoDispose(node[k].tasks) \/ \A m \in Model : node[k].topic_model_inc[m] = Nil
    BY DEF NodesSteady, Dry
  <2>2. QED
    BY <1>1, <2>1
<1>5. QED
  BY <1>2, <1>3, <1>4 DEF NodesSteady, Dry

\* A call that leaves the nodes alone.
LEMMA StillSteady ==
  ASSUME NetworkInv, SteadyInv, UNCHANGED <<schema, node, clients, topic_model_inc, merger>>,
         api.pc # "create" \/ api.nodes = {} \/ api' = api,
         \/ internal_task_queue' = internal_task_queue
         \/ \E e \in Tasks : /\ e.type # "kDisposeModel"
                             /\ internal_task_queue' = Append(internal_task_queue, e),
         CallSteady'
  PROVE  SteadyInv'
BY NodesStill, MasterStill DEF SteadyInv

LEMMA CallsSteady ==
  ASSUME NetworkInv, FlowInv, OneModel, Steady, SteadyInv, ApiCall
  PROVE  SteadyInv'
<1>1. api \in Api /\ api.pc = "ready" /\ \E name \in CallNames : Call(name)
  BY DEF ApiCall, Reconfigure, CreateModel, RecreateModel, DisposeModel, OverwriteTopicModel, AddBatch,
     InvokePhiRegularizers, InvokeIteration, WaitIdle, Call, NetworkInv, TypeOK, CallNames
<1>2. CallSteady /\ NodesSteady /\ MasterSteady
  BY DEF SteadyInv
<1>3. \A e \in NodeSets : ~Reconfigure(e)
  BY DEF Steady, Reconfigure, Call
<1>4. ASSUME NEW m \in Model, CreateModel(m) PROVE SteadyInv'
  <2>1. /\ api' = [api EXCEPT !.pc = "create", !.nodes = clients, !.model = m]
        /\ node' = node /\ clients' = clients /\ topic_model_inc' = topic_model_inc
        /\ merger' = merger /\ internal_task_queue' = internal_task_queue
    BY <1>4 DEF CreateModel
  <2>2. api'.pc = "create" /\ api'.nodes = clients
    BY <1>1, <2>1 DEF Api
  <2>3. \A n \in Nodes : node[n].instance => n \in clients
    BY DEF FlowInv, HolderInv
  <2>4. NodesSteady'
    <3>1. \A n \in clients : node[n].instance
      BY <1>2 DEF NodesSteady
    <3>2. \A n \in Nodes : (NoDispose(node[n].tasks) \/ Dry(n))'
      BY <1>2, <2>1 DEF NodesSteady, Dry
    <3>3. QED
      BY <2>1, <2>2, <2>3, <3>1, <3>2 DEF NodesSteady
  <2>5. MasterSteady'
    BY <1>2, <2>1, MasterStill
  <2>6. QED
    BY <2>2, <2>4, <2>5 DEF SteadyInv, CallSteady
<1>5. ASSUME NEW m \in Model, DisposeModel(m) PROVE SteadyInv'
  <2>1. /\ api' = [api EXCEPT !.pc = "dispose", !.nodes = clients, !.model = m]
        /\ node' = node /\ clients' = clients /\ topic_model_inc' = topic_model_inc
        /\ merger' = merger /\ schema' = [schema EXCEPT ![m] = "absent"]
    BY <1>5 DEF DisposeModel, clear_model_config
  <2>2. api'.pc = "dispose"
    BY <1>1, <2>1 DEF Api
  <2>3. schema \in [Model -> ModelStatus]
    BY DEF NetworkInv, TypeOK, SchemaTypeOK
  <2>4. \A k \in Model : ~Present(k)'
    BY <2>1, <2>3 DEF OneModel, Present
  <2>5. quiet
    <3>1. "DisposeModel" \in Calls
      BY <1>5 DEF DisposeModel, Call
    <3>2. "DisposeModel" \in QuietCalls
      BY <3>1, NetworkAssumption
    <3>3. QED
      BY <1>5, <3>2 DEF DisposeModel, Call
  <2>6. MasterDry /\ merger.pc # "merge"
    BY <2>5 DEF FlowInv, QuietInv
  <2>7. MasterSteady'
    BY <2>1, <2>6 DEF MasterSteady, MasterDry
  <2>8. NodesSteady'
    <3>1. \A n \in clients : node[n].instance
      BY <1>2 DEF NodesSteady
    <3>2. \A n \in Nodes : (NoDispose(node[n].tasks) \/ Dry(n))'
      BY <1>2, <2>1 DEF NodesSteady, Dry
    <3>3. QED
      BY <2>1, <2>4, <3>1, <3>2 DEF NodesSteady
  <2>9. QED
    BY <2>2, <2>7, <2>8 DEF SteadyInv, CallSteady
<1>6. ASSUME \/ \E m \in Model : OverwriteTopicModel(m)
             \/ InvokePhiRegularizers
      PROVE  SteadyInv'
  <2>1. /\ quiet /\ quiet' = quiet
        /\ UNCHANGED <<schema, node, clients, topic_model_inc, merger, internal_task_queue>>
        /\ api' = [api EXCEPT !.pc = "refresh", !.nodes = clients]
    <3>1. CASE InvokePhiRegularizers
      BY <3>1, Zenon DEF InvokePhiRegularizers, Call, Steady
    <3>2. ASSUME NEW m \in Model, OverwriteTopicModel(m)
          PROVE  /\ quiet /\ quiet' = quiet
                 /\ UNCHANGED <<schema, node, clients, topic_model_inc, merger, internal_task_queue>>
                 /\ api' = [api EXCEPT !.pc = "refresh", !.nodes = clients]
      BY <3>2, Zenon DEF OverwriteTopicModel, Call, Steady
    <3>3. QED
      BY <1>6, <3>1, <3>2
  <2>2. CallSteady'
    BY <1>1, <2>1 DEF CallSteady, Api
  <2>3. QED
    BY <1>1, <2>1, <2>2, StillSteady
<1>7. ASSUME \/ \E b \in Batch : AddBatch(b)
             \/ \E n \in IterationCounts : InvokeIteration(n)
             \/ \E m \in Model : RecreateModel(m)
             \/ WaitIdle
      PROVE  SteadyInv'
  <2>1. /\ UNCHANGED <<schema, node, clients, topic_model_inc, merger, internal_task_queue>>
        /\ api'.pc \in {"ready", "create", "add", "wait.poll"}
    BY <1>1, <1>7 DEF RecreateModel, AddBatch, InvokeIteration, WaitIdle, mergerVars, Goto, Api
  <2>2. CallSteady'
    BY <2>1 DEF CallSteady
  <2>3. QED
    BY <1>1, <2>1, <2>2, StillSteady
<1>8. QED
  BY <1>3, <1>4, <1>5, <1>6, <1>7 DEF ApiCall

LEMMA ForceTame ==
  ASSUME NetworkInv, NodeForce
  PROVE  /\ NextNode \in Nodes /\ Tame(NextNode)
         /\ \A k \in Nodes : k # NextNode => node'[k] = node[k]
<1>0. /\ TypeOK /\ node \in [Nodes -> NodeState] /\ api.nodes # {}
  BY DEF NetworkInv, TypeOK, NetworkNodeTypeOK, NodeForce, NodesLeft
<1> DEFINE n == NextNode
           e == Task(IF api.pc = "wait.push" THEN "kForcePushTopicModelIncrement"
                     ELSE "kForcePullTopicModel", Nil)
<1>1. n \in Nodes /\ node[n] \in NodeState
  BY <1>0, NextNodeOK
<1>2. node' = [node EXCEPT ![n].tasks = Append(node[n].tasks, e)]
  BY <1>0, <1>1 DEF NodeForce
<1>3. e \in Tasks /\ e.type # "kDisposeModel"
  BY DEF Task, Tasks, TaskTypes
<1>4. node[n].tasks \in Seq(Tasks)
  BY <1>1 DEF NodeState
<1> HIDE DEF n, e
<1>5. /\ \A k \in Nodes : k # n => node'[k] = node[k]
      /\ node'[n].tasks = Append(node[n].tasks, e)
      /\ node'[n].instance = node[n].instance /\ node'[n].topic_model = node[n].topic_model
      /\ node'[n].topic_model_inc = node[n].topic_model_inc
  BY <1>0, <1>1, <1>2 DEF NodeState
<1>6. NoDispose(node[n].tasks) => NoDispose(node'[n].tasks)
  BY <1>3, <1>4, <1>5, DisposeAppend
<1>7. Tame(n)
  BY <1>5, <1>6 DEF Tame
<1>8. QED
  BY <1>1, <1>5, <1>7 DEF n

LEMMA NodeStepsSteady ==
  ASSUME NetworkInv, FlowInv, OneModel, SteadyInv, NodeSteps
  PROVE  SteadyInv'
<1>0. /\ api \in Api /\ TypeOK /\ node \in [Nodes -> NodeState] /\ CallFlow /\ CallInv
      /\ CallSteady /\ NodesSteady /\ MasterSteady
  BY CallFlowHolds DEF NetworkInv, TypeOK, NetworkNodeTypeOK, SteadyInv
<1> DEFINE n == NextNode
<1>1. ~ConnectClient /\ ~DisconnectClient /\ ~ConfigureClient
  BY <1>0 DEF ConnectClient, DisconnectClient, ConfigureClient, CallSteady
<1>2. api.nodes # {} /\ api.pc \in {"create", "dispose"}
  BY <1>1 DEF NodeSteps, CreateModelNode, DisposeModelNode, NodesLeft
<1>3. n \in Nodes /\ n \in api.nodes /\ node[n] \in NodeState /\ api.model \in Model
  BY <1>0, <1>2, NextNodeOK DEF CallInv
<1>4. UNCHANGED <<schema, clients, topic_model_inc, merger, internal_task_queue>>
  BY <1>1 DEF NodeSteps, CreateModelNode, DisposeModelNode, mergerVars
<1>5. MasterSteady'
  BY <1>0, <1>4, MasterStill
<1>6. \A k \in clients : node[k].instance
  BY <1>0 DEF NodesSteady
<1> HIDE DEF n
<1>7. CASE CreateModelNode
  <2>1. api.pc = "create" /\ n \in clients /\ node[n].instance
    <3>1. api.pc = "create"
      BY <1>7 DEF CreateModelNode
    <3>2. n \in clients
      BY <1>0, <1>3, <3>1 DEF CallFlow
    <3>3. QED
      BY <1>6, <3>1, <3>2
  <2>4. NewModel # Nil
    <3>1. NewModel \in TopicModel
      BY DEF NewModel, TopicModel, NoCounts, Counts
    <3>2. QED
      BY <3>1, NilIsNoModel
  <2>2. /\ node' = [node EXCEPT ![n].topic_model[api.model] = IF @ = Nil THEN NewModel ELSE @]
        /\ Replied
    BY <1>7, <2>1 DEF CreateModelNode, n
  <2>3. /\ \A k \in Nodes : k # n => node'[k] = node[k]
        /\ node'[n].topic_model[api.model] # Nil
        /\ node'[n].instance = node[n].instance /\ node'[n].tasks = node[n].tasks
        /\ node'[n].topic_model_inc = node[n].topic_model_inc
    BY <1>0, <1>3, <2>2, <2>4 DEF NodeState
  <2>5. api'.pc = "create" /\ api'.nodes = api.nodes \ {n}
    BY <1>0, <2>1, <2>2 DEF Replied, Api, n
  <2>6. ASSUME NEW k \in Nodes, NEW m \in Model, Present(m)', node'[k].instance
        PROVE  node'[k].topic_model[m] # Nil \/ (api'.pc = "create" /\ k \in api'.nodes)
    <3>1. m = api.model /\ Present(m)
      BY <1>3, <1>4, <2>6 DEF OneModel, Present
    <3>2. CASE k = n
      BY <2>3, <3>1, <3>2
    <3>3. CASE k # n
      <4>1. node[k].topic_model[m] # Nil \/ k \in api.nodes
        BY <1>0, <2>3, <2>6, <3>1, <3>3 DEF NodesSteady
      <4>2. QED
        BY <2>3, <2>5, <3>3, <4>1
    <3>4. QED
      BY <3>2, <3>3
  <2>7. \A k \in Nodes : /\ node'[k].tasks = node[k].tasks
                         /\ node'[k].topic_model_inc = node[k].topic_model_inc
                         /\ node'[k].instance = node[k].instance
    BY <2>3
  <2>8. \A k \in Nodes : (NoDispose(node[k].tasks) \/ Dry(k))'
    BY <1>0, <2>7 DEF NodesSteady, Dry
  <2>9. \A k \in clients' : node'[k].instance
    BY <1>0, <1>4, <1>6, <2>7 DEF TypeOK
  <2>10. NodesSteady'
    BY <2>6, <2>8, <2>9 DEF NodesSteady
  <2>11. QED
    BY <1>5, <2>5, <2>10 DEF SteadyInv, CallSteady
<1>8. CASE DisposeModelNode
  <2> DEFINE queue == IF node[n].instance THEN Append(node[n].tasks, Task("kDisposeModel", api.model))
                      ELSE node[n].tasks
  <2>1. api.pc = "dispose" /\ Replied /\ quiet /\ ~Present(api.model)
    BY <1>0, <1>8 DEF DisposeModelNode, CallFlow
  <2>2. node' = [node EXCEPT ![n].topic_model[api.model] = Nil, ![n].tasks = queue]
    BY <1>0, <1>3, <1>8 DEF DisposeModelNode, n, NodeState
  <2> HIDE DEF queue
  <2>3. /\ \A k \in Nodes : k # n => node'[k] = node[k]
        /\ node'[n].instance = node[n].instance
        /\ node'[n].topic_model_inc = node[n].topic_model_inc
    BY <1>0, <1>3, <2>2 DEF NodeState
  <2>4. \A k \in Nodes : /\ node'[k].topic_model_inc = node[k].topic_model_inc
                         /\ node'[k].instance = node[k].instance
    BY <2>3
  <2>5. \A k \in Nodes : Dry(k)'
    <3>1. \A k \in Nodes : Dry(k)
      BY <2>1 DEF FlowInv, QuietInv
    <3>2. QED
      BY <2>4, <3>1 DEF Dry
  <2>6. \A m \in Model : ~Present(m)'
    BY <1>3, <1>4, <2>1 DEF OneModel, Present
  <2>7. \A k \in clients' : node'[k].instance
    BY <1>0, <1>4, <1>6, <2>4 DEF TypeOK
  <2>8. NodesSteady'
    BY <2>5, <2>6, <2>7 DEF NodesSteady
  <2>9. api'.pc = "dispose"
    BY <1>0, <2>1 DEF Replied, Api
  <2>10. QED
    BY <1>5, <2>8, <2>9 DEF SteadyInv, CallSteady
<1>9. QED
  BY <1>1, <1>7, <1>8 DEF NodeSteps

LEMMA SteadyInvStep ==
  ASSUME NetworkInv, NetworkInv', FlowInv, FlowInv', OneModel, Steady, SteadyInv, [Next]_vars
  PROVE  SteadyInv'
<1>0. /\ api \in Api /\ clients \subseteq Nodes /\ node \in [Nodes -> NodeState]
      /\ BatchManagerTypeOK /\ CallSteady /\ NodesSteady /\ MasterSteady
  BY DEF NetworkInv, TypeOK, NetworkNodeTypeOK, SteadyInv
<1>1. CASE ApiCall
  BY <1>1, CallsSteady
<1>2. CASE NodeSteps
  BY <1>2, NodeStepsSteady
<1>3. CASE NodeForce
  <2>1. /\ NextNode \in Nodes /\ Tame(NextNode)
        /\ \A k \in Nodes : k # NextNode => node'[k] = node[k]
    BY <1>3, ForceTame
  <2>2. /\ UNCHANGED <<schema, clients, topic_model_inc, merger, internal_task_queue, quiet>>
        /\ api.pc \in {"refresh", "wait.push", "wait.nodes"}
        /\ api' = [api EXCEPT !.called = TRUE]
    BY <1>3 DEF NodeForce, Forcing, mergerVars
  <2>3. api'.pc = api.pc
    BY <1>0, <2>2 DEF Api
  <2>4. \A m \in Model : Present(m)' => Present(m) /\ topic_model[m] # Nil
    BY <2>2 DEF FlowInv, SchemaInv, Present
  <2>5. NodesSteady'
    BY <1>0, <2>1, <2>2, <2>3, <2>4, NodeTame
  <2>6. MasterSteady'
    BY <1>0, <2>2, MasterStill
  <2>7. QED
    BY <1>0, <2>2, <2>3, <2>5, <2>6 DEF SteadyInv, CallSteady
<1>4. CASE \/ NodeForceNoInstance \/ NodeForced \/ NodesDone
           \/ WaitTimeout \/ WaitProcessed \/ WaitIsIdle \/ WaitQueueNotEmpty \/ WaitPush
           \/ WaitPull \/ WaitPulled \/ InvokeAdd \/ WaitReturn
  <2>1. UNCHANGED <<schema, node, clients, topic_model_inc, merger>>
    BY <1>4 DEF NodeForceNoInstance, NodeForced, NodesDone, WaitTimeout, WaitProcessed, WaitIsIdle,
       WaitQueueNotEmpty, WaitPush, WaitPull, WaitPulled, InvokeAdd, WaitReturn, ForceTask, mergerVars
  <2>2. \/ internal_task_queue' = internal_task_queue
        \/ \E e \in Tasks : /\ e.type # "kDisposeModel"
                            /\ internal_task_queue' = Append(internal_task_queue, e)
    <3>1. ASSUME NEW type \in {"kForcePullTopicModel", "kForcePushTopicModelIncrement"}, ForceTask(type)
          PROVE  \E e \in Tasks : /\ e.type # "kDisposeModel"
                                  /\ internal_task_queue' = Append(internal_task_queue, e)
      BY <3>1 DEF ForceTask, Task, Tasks, TaskTypes
    <3>2. CASE WaitPush \/ WaitPull
      BY <3>1, <3>2 DEF WaitPush, WaitPull
    <3>3. CASE ~WaitPush /\ ~WaitPull
      BY <1>4, <3>3 DEF NodeForceNoInstance, NodeForced, NodesDone, WaitTimeout, WaitProcessed,
         WaitIsIdle, WaitQueueNotEmpty, WaitPulled, InvokeAdd, WaitReturn, mergerVars
    <3>4. QED
      BY <3>2, <3>3
  <2>3. /\ api.pc # "create" \/ api.nodes = {}
        /\ api'.pc \notin {"connect", "disconnect", "configure"}
        /\ api'.pc = "refresh" => quiet'
    <3>1. CASE NodeForceNoInstance \/ NodeForced
      <4>1. api.pc \in {"refresh", "wait.push", "wait.nodes"} /\ quiet' = quiet /\ Replied
        BY <3>1 DEF NodeForceNoInstance, NodeForced, Forcing
      <4>2. api'.pc = api.pc
        BY <1>0, <4>1 DEF Replied, Api
      <4>3. QED
        BY <1>0, <4>1, <4>2 DEF CallSteady
    <3>2. CASE NodesDone
      <4>1. /\ api.nodes = {}
            /\ \/ Return
               \/ api.pc = "wait.push" /\ Goto("wait.idle")
               \/ api.pc = "wait.nodes" /\ Goto("wait.done")
        BY <1>0, <3>2 DEF NodesDone, CallSteady
      <4>2. Return => api'.pc = "ready"
        BY DEF Return, Ready
      <4>3. \A pc \in {"wait.idle", "wait.done"} : Goto(pc) => api'.pc = pc
        BY <1>0 DEF Goto, Api
      <4>4. QED
        BY <4>1, <4>2, <4>3
    <3>3. CASE InvokeAdd
      <4>1. /\ api.pc = "add"
            /\ \/ \E s, k : api' = [api EXCEPT !.batches = s]
               \/ \E s, k : api' = [api EXCEPT !.batches = s, !.iterations = k]
               \/ Return
        BY <3>3, Zenon DEF InvokeAdd, At
      <4>2. Return => api'.pc = "ready"
        BY DEF Return, Ready
      <4>3. \A s, k : api' = [api EXCEPT !.batches = s] => api'.pc = api.pc
        BY <1>0 DEF Api
      <4>4. \A s, k : api' = [api EXCEPT !.batches = s, !.iterations = k] => api'.pc = api.pc
        BY <1>0 DEF Api
      <4>5. QED
        BY <4>1, <4>2, <4>3, <4>4
    <3>4. CASE \/ WaitTimeout \/ WaitProcessed \/ WaitIsIdle \/ WaitQueueNotEmpty \/ WaitPush
               \/ WaitPull \/ WaitPulled \/ WaitReturn
      <4>1. /\ api.pc \in {"wait.poll", "wait.idle", "wait.queue", "wait.forced", "wait.pulled",
                          "wait.done"}
            /\ \/ Return
               \/ \E pc \in {"wait.queue", "wait.idle", "wait.forced", "wait.pulled"} : Goto(pc)
               \/ \E pc \in {"wait.push", "wait.nodes"} :
                    api' = [api EXCEPT !.pc = pc, !.nodes = clients]
        BY <3>4, Zenon DEF WaitTimeout, WaitProcessed, WaitIsIdle, WaitQueueNotEmpty, WaitPush,
           WaitPull, WaitPulled, WaitReturn, At
      <4>2. Return => api'.pc = "ready"
        BY DEF Return, Ready
      <4>3. \A pc \in {"wait.queue", "wait.idle", "wait.forced", "wait.pulled"} :
              Goto(pc) => api'.pc = pc
        BY <1>0 DEF Goto, Api
      <4>4. \A pc \in {"wait.push", "wait.nodes"} :
              api' = [api EXCEPT !.pc = pc, !.nodes = clients] => api'.pc = pc
        BY <1>0 DEF Api
      <4>5. QED
        BY <4>1, <4>2, <4>3, <4>4
    <3>5. QED
      BY <1>4, <3>1, <3>2, <3>3, <3>4
  <2>4. CallSteady'
    BY <2>3 DEF CallSteady
  <2>5. QED
    BY <2>1, <2>2, <2>3, <2>4, StillSteady
<1>5. CASE MergerStep
  <2>1. UNCHANGED <<schema, node, clients, api, quiet>> /\ MergerThread
    BY <1>5 DEF MergerStep, apiVars
  <2>2. NodesSteady'
    BY <1>0, <2>1, NodesStill
  <2>3. MasterSteady'
    BY <1>0, <2>1, MergerSteady
  <2>4. QED
    BY <1>0, <2>1, <2>2, <2>3 DEF SteadyInv, CallSteady
<1>6. ASSUME NEW n \in Nodes, ServiceStep(n) \/ NodeStep(n) \/ Stop(n) \/ Restart(n)
      PROVE  SteadyInv'
  <2>1. UNCHANGED <<schema, clients, api, quiet, topic_model_inc, merger, internal_task_queue>>
        /\ \A k \in Nodes : k # n => node'[k] = node[k]
    <3>1. CASE Aside(n)
      BY <3>1, AsideUnchanged
    <3>2. CASE ServiceStep(n) /\ RequestBatches(n)
      BY <1>0, <3>2 DEF ServiceStep, RequestBatches, apiVars, mergerVars
    <3>3. CASE ServiceStep(n) /\ ReportBatches(n)
      BY <1>0, <3>3 DEF ServiceStep, ReportBatches, apiVars, mergerVars
    <3>4. QED
      BY <1>6, <3>1, <3>2, <3>3 DEF Aside
  <2>2. Tame(n)
    <3>1. CASE ServiceStep(n) \/ NodeStep(n)
      <4>1. NodeThread(n) \/ Service(n)
        BY <3>1 DEF ServiceStep, NodeStep
      <4>2. NodeInv(n)
        BY DEF NetworkInv
      <4>3. QED
        BY <1>0, <4>1, <4>2, ThreadTame
    <3>2. CASE Stop(n)
      BY <1>0, <3>2, StopKeeps DEF Tame
    <3>3. ~Restart(n)
      BY DEF Restart, Steady
    <3>4. QED
      BY <1>6, <3>1, <3>2, <3>3
  <2>3. \A m \in Model : Present(m)' => Present(m) /\ topic_model[m] # Nil
    BY <2>1 DEF FlowInv, SchemaInv, Present
  <2>4. NodesSteady'
    BY <1>0, <2>1, <2>2, <2>3, NodeTame
  <2>5. MasterSteady'
    BY <1>0, <2>1, MasterStill
  <2>6. QED
    BY <1>0, <2>1, <2>4, <2>5 DEF SteadyInv, CallSteady
<1>7. CASE UNCHANGED vars
  <2>1. UNCHANGED <<schema, node, clients, api, quiet, topic_model_inc, merger, internal_task_queue>>
    BY <1>7 DEF vars, mergerVars, apiVars
  <2>2. CallSteady'
    BY <1>0, <2>1 DEF CallSteady
  <2>3. QED
    BY <2>1, <2>2, StillSteady
<1>8. QED
  BY <1>1, <1>2, <1>3, <1>4, <1>5, <1>6, <1>7, OthersAre DEF Next, Others

LEMMA SteadyInvInit ==
  ASSUME Init
  PROVE  SteadyInv
<1>0. InitialNodes \subseteq Nodes /\ InitialModels \subseteq Model
  BY NetworkAssumption
<1>1. /\ clients = InitialNodes /\ api.pc = "ready" /\ internal_task_queue = <<>>
      /\ schema = [m \in Model |-> IF m \in InitialModels THEN "enabled" ELSE "absent"]
  BY DEF Init, NetworkNodeInit, Ready
<1>2. NewModel # Nil
  <2>1. NewModel \in TopicModel
    BY DEF NewModel, TopicModel, NoCounts, Counts
  <2>2. QED
    BY <2>1, NilIsNoModel
<1>3. NoDispose(<<>>)
  BY DEF NoDispose
<1>4. ASSUME NEW n \in Nodes, NEW m \in Model, Present(m), node[n].instance
      PROVE  node[n].topic_model[m] # Nil
  <2>1. m \in InitialModels /\ n \in InitialNodes
    BY <1>1, <1>4, InitCounts DEF Present
  <2>2. node[n].topic_model[m] = NewModel
    BY <2>1, InitCounts
  <2>3. QED
    BY <1>2, <2>2
<1>5. NodesSteady
  BY <1>0, <1>1, <1>3, <1>4, InitCounts DEF NodesSteady
<1>6. QED
  BY <1>1, <1>3, <1>5 DEF SteadyInv, CallSteady, MasterSteady

\* As long as nothing is pulled a node loses nothing: a node without the model has
\* no instance, and a model is regularized only after WaitIdle.
LEMMA AsideExact ==
  ASSUME IsFiniteSet(Nodes), NetworkInv, NetworkInv', FlowInv, OneModel, Steady, SteadyInv,
         ~quiet, NEW n \in Nodes, Aside(n), api.pc \notin {"wait.nodes", "wait.done"},
         NEW m \in Model, Present(m), NEW b \in Batch
  PROVE  Accounted(m, b)' = Accounted(m, b)
<1>0. /\ node \in [Nodes -> NodeState] /\ BatchManagerTypeOK /\ NodeInv(n) /\ HolderInv(n)
      /\ CallSteady /\ NodesSteady
  BY DEF NetworkInv, TypeOK, NetworkNodeTypeOK, FlowInv, SteadyInv
<1>1. api.pc \notin {"create", "refresh"}
  BY <1>0 DEF FlowInv, QuietInv, CallSteady
<1>2. SUFFICES ASSUME ~UpdateModel(n) PROVE ShareIn(node'[n], m, b) = ShareIn(node[n], m, b)
  BY AsideMoves
<1>3. ~Restart(n)
  BY DEF Restart, Steady
<1>4. CASE Stop(n)
  <2>1. TakenIn(node'[n], b) = TakenIn(node[n], b)
        /\ node'[n].topic_model_inc = node[n].topic_model_inc
    BY <1>0, <1>4, StopKeeps
  <2>2. QED
    BY <2>1 DEF ShareIn, IncIn
<1>5. CASE NodeThread(n) \/ (Service(n) /\ ~RequestBatches(n) /\ ~ReportBatches(n))
  <2>1. CASE node[n].instance
    <3>1. node[n].topic_model[m] # Nil
      BY <1>0, <1>1, <2>1 DEF NodesSteady
    <3>2. NoDispose(node[n].tasks) \/ Dry(n)
      BY <1>0 DEF NodesSteady
    <3>3. ~RetrieveModel(n)
      <4>1. ASSUME RetrieveModel(n) PROVE FALSE
        <5>1. node[n].merger = "pull"
          BY <4>1 DEF RetrieveModel
        <5>2. Forcing /\ node[n].merger = (IF api.pc = "wait.push" THEN "push" ELSE "pull")
          BY <5>1, ForceIsCalled
        <5>3. QED
          BY <1>1, <5>1, <5>2 DEF Forcing
      <4>2. QED
        BY <4>1
    <3>4. NodeThread(n) \/ (Service(n) /\ ~RequestBatches(n))
      BY <1>5
    <3>5. QED
      BY <1>0, <1>2, <3>1, <3>2, <3>3, <3>4, ThreadExact
  <2>2. CASE ~node[n].instance
    <3>1. ~Running(n)
      BY <2>2 DEF Running
    <3>2. ~NodeThread(n)
      BY <3>1, Zenon DEF NodeThread, LoaderThread, LoaderRequest, LoaderPush, LoaderFatal,
         LoaderAgain, ProcessorThread, ProcessorPop, ProcessorPush, ProcessorDone,
         NodeMergerThread, NodeTask, NodeMerge, NodeSignal
    <3>3. RequestBatchesReply(n)
      BY <1>2, <1>5, <3>1, <3>2, Zenon DEF Service, RetrieveModel
    <3>4. TakenIn(node'[n], b) = TakenIn(node[n], b)
          /\ node'[n].topic_model_inc = node[n].topic_model_inc
      BY <1>0, <3>3, ReplyCounts
    <3>5. QED
      BY <3>4 DEF ShareIn, IncIn
  <2>3. QED
    BY <2>1, <2>2
<1>6. QED
  BY <1>3, <1>4, <1>5, Zenon DEF Aside, NodeStep, ServiceStep

LEMMA SignalsAreSet ==
  ASSUME NetworkInv, MergerThread \/ (\E n \in Nodes : Aside(n)), ~sync'
  PROVE  sync' = sync
<1>1. CASE MergerThread
  BY <1>1 DEF MergerThread, MergerWake, MergerTask, MergerPop, MergerMerge, MergerIdle
<1>2. ASSUME NEW n \in Nodes, Aside(n) PROVE sync' = sync
  <2>1. sync' = sync \/ NodeSignal(n)
    BY <1>2, AsideUnchanged
  <2>2. ~NodeSignal(n)
    BY DEF NodeSignal
  <2>3. QED
    BY <2>1, <2>2
<1>3. QED
  BY <1>1, <1>2

LEMMA ExactInvStep ==
  ASSUME IsFiniteSet(Nodes), NetworkInv, NetworkInv', FlowInv, FlowInv', OneModel, Steady,
         SteadyInv, ExactInv, [Next]_vars
  PROVE  ExactInv'
<1> DEFINE Before == api.pc \notin Pulling \/ (api.pc = "wait.pulled" /\ ~sync)
<1>0. /\ QuietCreation /\ CallSteady /\ MasterSteady
  BY DEF Steady, SteadyInv
<1>1. SUFFICES ASSUME api'.pc \notin Pulling \/ (api'.pc = "wait.pulled" /\ ~sync'),
                      NEW m \in EnabledModels', NEW b \in Batch
               PROVE  Accounted(m, b)' = due'[m][b]
  BY DEF ExactInv
<1>2. m \in Model /\ (schema' = schema => m \in EnabledModels)
  BY <1>1 DEF EnabledModels
<1>3. CASE quiet'
  BY <1>2, <1>3, QuietCounts
<1>4. CASE ~quiet'
  <2>1. ASSUME schema' = schema, due' = due, Before, Accounted(m, b)' = Accounted(m, b)
        PROVE  Accounted(m, b)' = due'[m][b]
    <3>1. Accounted(m, b) = due[m][b]
      BY <1>2, <2>1 DEF ExactInv
    <3>2. QED
      BY <2>1, <3>1
  <2>2. CASE Others
    <3>1. /\ UNCHANGED <<schema, due>>
          /\ api'.pc \notin Pulling \/ api'.pc = "wait.pulled" => api.pc \notin Pulling
          /\ api.pc \notin {"connect", "disconnect"} => Accounted(m, b)' = Accounted(m, b)
      BY <1>0, <1>2, <1>4, <2>2, CallsMove
    <3>2. QED
      BY <1>0, <1>1, <2>1, <3>1 DEF CallSteady
  <2>3. CASE InvokeAdd
    <3>1. schema' = schema /\ api.pc \notin Pulling
      BY <2>3 DEF InvokeAdd, At, Pulling
    <3>2. Accounted(m, b) = due[m][b] /\ m \in EnabledModels
      BY <1>2, <3>1 DEF ExactInv
    <3>3. \E one \in Nat : /\ Accounted(m, b)' = Accounted(m, b) + one
                           /\ due'[m][b] = due[m][b] + one
      BY <2>3, <3>2, AddDue
    <3>4. QED
      BY <3>2, <3>3
  <2>4. CASE WaitReturn
    <3>1. schema' = schema /\ quiet' = (quiet \/ EnabledModels # {})
      BY <2>4 DEF WaitReturn
    <3>2. QED
      BY <1>2, <1>4, <3>1
  <2>5. CASE MergerStep
    <3>1. UNCHANGED <<schema, due, api>> /\ MergerThread
      BY <2>5 DEF MergerStep, apiVars
    <3>2. api.pc = "wait.pulled" => ~sync'
      BY <1>1, <3>1 DEF Pulling
    <3>3. api.pc = "wait.pulled" => sync' = sync
      BY <3>1, <3>2, SignalsAreSet
    <3>4. Before
      BY <1>1, <3>1, <3>2, <3>3
    <3>5. m \in EnabledModels /\ topic_model[m] # Nil
      BY <1>2, <3>1 DEF EnabledModels, FlowInv, SchemaInv, Present
    <3>6. MasterDry \/ NoDispose(internal_task_queue)
      BY <1>0 DEF MasterSteady
    <3>7. Accounted(m, b)' = Accounted(m, b)
      BY <1>2, <2>5, <3>3, <3>5, <3>6, MergerMoves
    <3>8. QED
      BY <2>1, <3>1, <3>4, <3>7
  <2>6. ASSUME NEW n \in Nodes, ServiceStep(n) \/ NodeStep(n) \/ Stop(n) \/ Restart(n)
        PROVE  Accounted(m, b)' = due'[m][b]
    <3>1. UNCHANGED <<schema, due, api, quiet>>
      BY <2>6 DEF ServiceStep, NodeStep, Stop, Restart, apiVars
    <3>2. CASE Aside(n)
      <4>1. ~sync' => sync' = sync
        BY <3>2, SignalsAreSet
      <4>2. Before /\ api.pc \notin {"wait.nodes", "wait.done"}
        BY <1>1, <3>1, <4>1 DEF Pulling
      <4>3. Present(m)
        BY <1>2, <3>1 DEF EnabledModels, Present
      <4>4. Accounted(m, b)' = Accounted(m, b)
        BY <1>2, <1>4, <3>1, <3>2, <4>2, <4>3, AsideExact
      <4>5. QED
        BY <2>1, <3>1, <4>2, <4>4
    <3>3. CASE ServiceStep(n) /\ (RequestBatches(n) \/ ReportBatches(n))
      <4>1. Accounted(m, b)' = Accounted(m, b)
        BY <1>2, <3>3, RequestMoves, ReportMoves
      <4>2. sync' = sync
        BY <3>3 DEF ServiceStep
      <4>3. QED
        BY <1>1, <2>1, <3>1, <4>1, <4>2
    <3>4. QED
      BY <2>6, <3>2, <3>3 DEF Aside
  <2>7. CASE UNCHANGED vars
    <3>1. /\ UNCHANGED <<schema, due, api, sync>>
          /\ UNCHANGED <<tasks, topic_model_inc, merger, merger_queue, node>>
      BY <2>7 DEF vars, batchManagerVars, mergerVars, apiVars
    <3>2. Accounted(m, b)' = Accounted(m, b)
      BY <3>1, Unmoved
    <3>3. QED
      BY <1>1, <2>1, <3>1, <3>2
  <2>8. QED
    BY <2>2, <2>3, <2>4, <2>5, <2>6, <2>7, OthersAre DEF Next
<1>5. QED
  BY <1>3, <1>4

-----------------------------------------------------------------------------
(* The master's models count what is due.                                  *)
\* Where the steps of a call lead, but for InvokeAdd and the return of WaitIdle.
LEMMA OthersGo ==
  ASSUME api \in Api, Others
  PROVE  \/ api'.pc \in {"ready", "create", "dispose", "connect", "disconnect", "configure",
                         "refresh", "wait.poll", "wait.push", "wait.idle", "wait.queue",
                         "wait.forced"}
         \/ api'.pc = "add" /\ \E n \in IterationCounts : InvokeIteration(n)
         \/ api'.pc = "wait.pulled" /\ WaitPull
         \/ api'.pc = "wait.nodes" /\ WaitPulled
         \/ api'.pc \in {"wait.nodes", "wait.done"} /\ api.pc = "wait.nodes" /\ ~ApiCall
<1>1. CASE ApiCall
  <2>1. ASSUME NEW m \in Model, \/ CreateModel(m) \/ RecreateModel(m)
                                \/ DisposeModel(m) \/ OverwriteTopicModel(m)
        PROVE  api'.pc \in {"create", "dispose", "refresh"}
    <3>1. \/ api' = [api EXCEPT !.pc = "create", !.nodes = clients, !.model = m]
          \/ api' = [api EXCEPT !.pc = "dispose", !.nodes = clients, !.model = m]
          \/ api' = [api EXCEPT !.pc = "refresh", !.nodes = clients]
      BY <2>1, Zenon DEF CreateModel, RecreateModel, DisposeModel, OverwriteTopicModel
    <3>2. QED
      BY <3>1 DEF Api
  <2>2. InvokePhiRegularizers => api'.pc = "refresh"
    BY DEF InvokePhiRegularizers, Api
  <2>3. \A b \in Batch : AddBatch(b) => api'.pc = "ready"
    BY DEF AddBatch, Call
  <2>4. \A n \in IterationCounts : InvokeIteration(n) => api'.pc = "add"
    BY DEF InvokeIteration, Api
  <2>5. \A e \in NodeSets : Reconfigure(e) => api'.pc = "connect"
    BY DEF Reconfigure, Api
  <2>6. WaitIdle => api'.pc = "wait.poll"
    BY DEF WaitIdle, Goto, Api
  <2>7. \/ api'.pc \in {"ready", "create", "dispose", "connect", "refresh", "wait.poll"}
        \/ api'.pc = "add" /\ \E n \in IterationCounts : InvokeIteration(n)
    BY <1>1, <2>1, <2>2, <2>3, <2>4, <2>5, <2>6 DEF ApiCall
  <2>8. QED
    BY <2>7
<1>2. api.pc # "ready" => ~ApiCall
  BY DEF ApiCall, Reconfigure, CreateModel, RecreateModel, DisposeModel, OverwriteTopicModel, AddBatch,
     InvokePhiRegularizers, InvokeIteration, WaitIdle, Call
<1>3. CASE NodeSteps
  <2>1. /\ api.pc \in {"create", "dispose", "connect", "disconnect", "configure"}
        /\ Replied \/ Return
    BY <1>3, Zenon DEF NodeSteps, CreateModelNode, DisposeModelNode, ConnectClient,
       DisconnectClient, ConfigureClient
  <2>2. Replied => api'.pc = api.pc
    BY DEF Replied, Api
  <2>3. Return => api'.pc = "ready"
    BY DEF Return, Ready
  <2>4. QED
    BY <2>1, <2>2, <2>3
<1>4. CASE NodeForce \/ NodeForceNoInstance \/ NodeForced
  <2>1. /\ api.pc \in {"refresh", "wait.push", "wait.nodes"}
        /\ Replied \/ api' = [api EXCEPT !.called = TRUE]
    BY <1>4, Zenon DEF NodeForce, NodeForceNoInstance, NodeForced, Forcing
  <2>2. api'.pc = api.pc
    BY <2>1 DEF Replied, Api
  <2>3. QED
    BY <1>2, <2>1, <2>2
<1>5. CASE NodesDone
  <2>1. \/ api'.pc \in {"ready", "disconnect", "configure", "wait.idle"}
        \/ api.pc = "wait.nodes" /\ api'.pc = "wait.done"
    BY <1>5, DoneMoves
  <2>2. QED
    BY <1>2, <2>1
<1>6. CASE \/ WaitTimeout \/ WaitProcessed \/ WaitIsIdle \/ WaitQueueNotEmpty \/ WaitPush
           \/ WaitPull
  <2>1. \/ Return
        \/ \E pc \in {"wait.queue", "wait.idle", "wait.forced"} : Goto(pc)
        \/ api' = [api EXCEPT !.pc = "wait.push", !.nodes = clients]
        \/ WaitPull /\ Goto("wait.pulled")
    BY <1>6, Zenon DEF WaitTimeout, WaitProcessed, WaitIsIdle, WaitQueueNotEmpty, WaitPush,
       WaitPull
  <2>2. Return => api'.pc = "ready"
    BY DEF Return, Ready
  <2>3. \A pc \in {"wait.queue", "wait.idle", "wait.forced", "wait.pulled"} :
          Goto(pc) => api'.pc = pc
    BY DEF Goto, Api
  <2>4. api' = [api EXCEPT !.pc = "wait.push", !.nodes = clients] => api'.pc = "wait.push"
    BY DEF Api
  <2>5. QED
    BY <2>1, <2>2, <2>3, <2>4
<1>7. CASE WaitPulled
  <2>1. api'.pc = "wait.nodes"
    BY <1>7 DEF WaitPulled, Api
  <2>2. QED
    BY <1>7, <2>1
<1>8. QED
  BY <1>1, <1>3, <1>4, <1>5, <1>6, <1>7, Zenon DEF Others

LEMMA OthersPublish ==
  ASSUME NetworkInv, Others, Published'
  PROVE  Published /\ topic_model' = topic_model
<1>1. api \in Api
  BY DEF NetworkInv, TypeOK
<1>2. ~WaitPull \/ api'.pc # "wait.pulled"
  BY DEF WaitPull, ForceTask, Published
<1>3. \/ WaitPulled
      \/ api.pc = "wait.nodes" /\ ~ApiCall
  BY <1>1, <1>2, OthersGo DEF Published
<1>4. CASE WaitPulled
  BY <1>4 DEF WaitPulled, At, Published, mergerVars
<1>5. CASE api.pc = "wait.nodes" /\ ~ApiCall
  <2>1. topic_model' = topic_model
    BY <1>5, Zenon DEF Others, NodeForce, NodeForceNoInstance, NodeForced, NodesDone, NodeSteps,
       CreateModelNode, DisposeModelNode, ConnectClient, DisconnectClient, ConfigureClient,
       WaitTimeout, WaitProcessed, WaitIsIdle, WaitQueueNotEmpty, WaitPush, WaitPull, WaitPulled,
       mergerVars
  <2>2. QED
    BY <1>5, <2>1 DEF Published
<1>6. QED
  BY <1>3, <1>4, <1>5

\* What the master pulls is all that is due: nodes and queues are empty by then.
LEMMA PullsAll ==
  ASSUME IsFiniteSet(Nodes), NetworkInv, FlowInv, OneModel, ExactInv, MergerTask,
         Head(internal_task_queue).type = "kForcePullTopicModel",
         NEW m \in EnabledModels, NEW x \in Batch, due[m][x] > 0
  PROVE  topic_model'[m].n_wt = due[m]
<1> DEFINE task == Head(internal_task_queue)
<1>0. /\ topic_model_inc \in [Model -> Counts \cup {Nil}] /\ due \in [Model -> Counts]
      /\ internal_task_queue \in Seq(Tasks) /\ m \in Model /\ Present(m)
      /\ topic_model \in [Model -> TopicModel \cup {Nil}]
  BY DEF NetworkInv, TypeOK, NetworkNodeTypeOK, EnabledModels, Present
<1>1. internal_task_queue # <<>>
  BY DEF MergerTask
<1>2. 1 \in 1..Len(internal_task_queue) /\ task = internal_task_queue[1]
  BY <1>0, <1>1
<1>3. api.pc = "wait.pulled" /\ ~sync
  BY <1>2 DEF NetworkInv, MasterInv
<1>4. /\ tasks = <<>> /\ merger_queue = <<>> /\ merger.pc # "merge"
      /\ \A n \in Nodes : Idle(n) /\ Dry(n)
  BY <1>0, <1>3 DEF FlowInv, DrainInv, Merged, IsEverythingProcessed
<1>5. \A b \in Batch : due[m][b] = CountIn(topic_model_inc[m], b)
  <2>1. SUFFICES ASSUME NEW b \in Batch PROVE due[m][b] = CountIn(topic_model_inc[m], b)
    OBVIOUS
  <2>2. Accounted(m, b) = CountIn(topic_model_inc[m], b)
    BY <1>0, <1>4, NothingLeft
  <2>3. due[m][b] = Accounted(m, b)
    BY <1>3 DEF ExactInv
  <2>4. QED
    BY <2>2, <2>3
<1>6. topic_model_inc[m] # Nil
  <2>1. CountIn(Nil, x) = 0
    BY DEF CountIn
  <2>2. due[m][x] # 0
    BY <1>0 DEF Counts
  <2>3. QED
    BY <1>5, <2>1, <2>2
<1>7. topic_model_inc[m] = due[m]
  <2>1. topic_model_inc[m] \in [Batch -> Nat] /\ due[m] \in [Batch -> Nat]
    BY <1>0, <1>6 DEF Counts
  <2>2. \A b \in Batch : due[m][b] = topic_model_inc[m][b]
    BY <1>5, <1>6 DEF CountIn
  <2>3. QED
    BY <2>1, <2>2
<1>8. m \in Pulled
  <2>1. topic_model[m] # Nil
    BY <1>0 DEF FlowInv, SchemaInv
  <2>2. QED
    BY <1>0, <1>6, <2>1 DEF Pulled, OneModel
<1>9. topic_model' = [k \in Model |-> IF k \in Pulled
                        THEN [n_wt |-> topic_model_inc[k], edition |-> 0] ELSE topic_model[k]]
  BY DEF MergerTask
<1>10. QED
  BY <1>0, <1>7, <1>8, <1>9

LEMMA PublishedInvStep ==
  ASSUME IsFiniteSet(Nodes), NetworkInv, NetworkInv', FlowInv, FlowInv', OneModel, QuietCreation,
         ExactInv, PublishedInv, [Next]_vars
  PROVE  PublishedInv'
<1>1. SUFFICES ASSUME Published', NEW m \in EnabledModels', NEW x \in Batch, due'[m][x] > 0
               PROVE  topic_model'[m].n_wt = due'[m]
  BY DEF PublishedInv
<1>2. m \in Model /\ (schema' = schema => m \in EnabledModels)
  BY <1>1 DEF EnabledModels
<1>3. ASSUME UNCHANGED <<schema, due>>, topic_model' = topic_model, Published
      PROVE  topic_model'[m].n_wt = due'[m]
  BY <1>1, <1>2, <1>3 DEF PublishedInv
<1>4. ~quiet'
  <2>1. ASSUME quiet' PROVE FALSE
    <3>1. due'[m][x] = 0
      BY <1>2, <2>1, QuietCounts
    <3>2. QED
      BY <1>1, <3>1
  <2>2. QED
    BY <2>1
<1>5. CASE Others
  <2>1. Published /\ topic_model' = topic_model
    BY <1>1, <1>5, OthersPublish
  <2>2. UNCHANGED <<schema, due>>
    BY <1>4, <1>5, CallsMove
  <2>3. QED
    BY <1>3, <2>1, <2>2
<1>6. ~InvokeAdd /\ ~WaitReturn
  <2>1. Return => ~Published'
    BY DEF Return, Ready, Published
  <2>2. ASSUME InvokeAdd PROVE FALSE
    <3>1. api \in Api
      BY DEF NetworkInv, TypeOK
    <3>2. /\ api.pc = "add"
          /\ \/ \E s, k : api' = [api EXCEPT !.batches = s]
             \/ \E s, k : api' = [api EXCEPT !.batches = s, !.iterations = k]
             \/ Return
      BY <2>2, Zenon DEF InvokeAdd, At
    <3>3. \A s, k : api' = [api EXCEPT !.batches = s] => api'.pc = "add"
      BY <3>1, <3>2 DEF Api
    <3>4. \A s, k : api' = [api EXCEPT !.batches = s, !.iterations = k] => api'.pc = "add"
      BY <3>1, <3>2 DEF Api
    <3>5. QED
      BY <1>1, <2>1, <3>2, <3>3, <3>4 DEF Published
  <2>3. ~WaitReturn
    BY <1>1, <2>1 DEF WaitReturn
  <2>4. QED
    BY <2>2, <2>3
<1>7. CASE MergerStep
  <2>1. UNCHANGED <<schema, due, api>> /\ MergerThread
    BY <1>7 DEF MergerStep, apiVars
  <2>2. CASE MergerTask /\ Head(internal_task_queue).type = "kForcePullTopicModel"
    BY <1>1, <1>2, <2>1, <2>2, PullsAll
  <2>3. CASE ~(MergerTask /\ Head(internal_task_queue).type = "kForcePullTopicModel")
    <3>1. /\ topic_model' = topic_model
          /\ sync' = sync \/ (MergerTask /\ Head(internal_task_queue).type
                                              = "kForcePushTopicModelIncrement")
      BY <2>1, <2>3 DEF MergerThread, MergerWake, MergerTask, MergerPop, MergerMerge, MergerIdle
    <3>2. ASSUME MergerTask,
                 Head(internal_task_queue).type = "kForcePushTopicModelIncrement"
          PROVE  api.pc = "wait.forced"
      <4>1. internal_task_queue \in Seq(Tasks) /\ internal_task_queue # <<>>
        BY <3>2 DEF MergerTask, NetworkInv, TypeOK, NetworkNodeTypeOK
      <4>2. 1 \in 1..Len(internal_task_queue)
            /\ Head(internal_task_queue) = internal_task_queue[1]
        BY <4>1
      <4>3. QED
        BY <3>2, <4>2 DEF NetworkInv, MasterInv
    <3>3. Published
      BY <1>1, <2>1, <3>1, <3>2 DEF Published
    <3>4. QED
      BY <1>3, <2>1, <3>1, <3>3
  <2>4. QED
    BY <2>2, <2>3
<1>8. ASSUME NEW n \in Nodes, ServiceStep(n) \/ NodeStep(n) \/ Stop(n) \/ Restart(n)
      PROVE  topic_model'[m].n_wt = due'[m]
  <2>1. UNCHANGED <<schema, due, api>>
    BY <1>8 DEF ServiceStep, NodeStep, Stop, Restart, apiVars
  <2>2. topic_model' = topic_model
    BY <1>8, Zenon DEF ServiceStep, NodeStep, Stop, Restart, Service, RequestBatches,
       RequestBatchesReply, ReportBatches, UpdateModel, RetrieveModel, mergerVars
  <2>3. sync' = sync \/ NodeSignal(n)
    BY <1>8, Zenon DEF ServiceStep, NodeStep, NodeThread, Stop, Restart
  <2>4. NodeSignal(n) => api.pc # "wait.pulled"
    <3>1. ASSUME NodeSignal(n) PROVE api.pc # "wait.pulled"
      <4>1. node[n].merger \in {"push", "pull"}
        BY <3>1 DEF NodeSignal
      <4>2. Forcing
        BY <4>1, ForceIsCalled
      <4>3. QED
        BY <4>2 DEF Forcing
    <3>2. QED
      BY <3>1
  <2>5. Published
    BY <1>1, <2>1, <2>3, <2>4 DEF Published
  <2>6. QED
    BY <1>3, <2>1, <2>2, <2>5
<1>9. CASE UNCHANGED vars
  <2>1. UNCHANGED <<schema, due, api, sync, topic_model>>
    BY <1>9 DEF vars, mergerVars, apiVars
  <2>2. Published
    BY <1>1, <2>1 DEF Published
  <2>3. QED
    BY <1>3, <2>1, <2>2
<1>10. QED
  BY <1>5, <1>6, <1>7, <1>8, <1>9, OthersAre DEF Next

LEMMA ExactInit ==
  ASSUME IsFiniteSet(Nodes), Init
  PROVE  SteadyInv /\ ExactInv /\ PublishedInv
<1>1. SteadyInv
  BY SteadyInvInit
<1>2. ExactInv
  <2>1. SUFFICES ASSUME NEW m \in EnabledModels, NEW b \in Batch
                 PROVE  due[m][b] = Accounted(m, b)
    BY DEF ExactInv
  <2>2. m \in Model
    BY DEF EnabledModels
  <2>3. QED
    BY <2>2, InitAccounts
<1>3. PublishedInv
  BY DEF Init, Ready, Published, PublishedInv
<1>4. QED
  BY <1>1, <1>2, <1>3

ExactlyOnce == SteadyInv /\ ExactInv /\ PublishedInv

LEMMA ExactlyOnceStep ==
  ASSUME IsFiniteSet(Nodes), NetworkInv, NetworkInv', FlowInv, FlowInv', OneModel, Steady,
         ExactlyOnce, [Next]_vars
  PROVE  ExactlyOnce'
BY SteadyInvStep, ExactInvStep, PublishedInvStep DEF ExactlyOnce, Steady

\* While no node comes back empty or is connected anew, and models are regularized or
\* overwritten only after WaitIdle, what is accounted for is what was added, and
\* WaitIdle publishes all of it.
THEOREM NetworkExactlyOnce ==
  ASSUME IsFiniteSet(Nodes), OneModel, Steady
  PROVE  Spec => []ExactlyOnce
<1>0. QuietCreation
  BY DEF Steady
<1>1. Init => ExactlyOnce
  BY ExactInit DEF ExactlyOnce
<1>2. NetworkInv /\ NetworkInv' /\ FlowInv /\ FlowInv' /\ ExactlyOnce /\ [Next]_vars => ExactlyOnce'
  BY ExactlyOnceStep
<1>3. Spec => []NetworkInv
  BY NetworkInvariant
<1>4. Spec => []FlowInv
  BY <1>0, FlowInvariant
<1>5. QED
  BY <1>1, <1>2, <1>3, <1>4, PTL DEF Spec

\* No task is lost on its way over the network, in whatever order threads and nodes take
\* their steps and whichever node stops for good (RequestBatches, ReportBatches, UpdateModel).
THEOREM NetworkConservation ==
  ASSUME IsFiniteSet(Nodes), OneModel, Steady
  PROVE  Spec => []Conservation
<1>1. ExactlyOnce => Conservation
  BY DEF ExactlyOnce, ExactInv, Conservation
<1>2. QED
  BY <1>1, NetworkExactlyOnce, PTL

\* When WaitIdle returns true the master's model counts every batch as often as it was
\* added since the WaitIdle before (MasterComponent::WaitIdle of network modus operandi).
THEOREM NetworkWaitIdle ==
  ASSUME IsFiniteSet(Nodes), OneModel, Steady
  PROVE  Spec => []WaitIdleComplete
<1>1. ExactlyOnce => WaitIdleComplete
  BY DEF ExactlyOnce, PublishedInv, Published, WaitIdleComplete
<1>2. QED
  BY <1>1, NetworkExactlyOnce, PTL

-----------------------------------------------------------------------------
(* Master and nodes keep the batch manager's contract.                     *)
\* A batch that is marked is on a node.
TrackedInv ==
  \A m \in Model : Present(m) => \A b \in in_progress[m] : \E n \in Nodes : Held(n, b) > 0

\* A node that has the model keeps a batch until it reports it.
LEMMA ThreadHolds ==
  ASSUME node \in [Nodes -> NodeState], NEW n \in Nodes, NodeInv(n), HolderInv(n),
         OneModel, NEW m \in Model, NEW b \in Batch,
         NodeThread(n) \/ (Service(n) /\ ~RequestBatches(n) /\ ~ReportBatches(n)),
         node[n].topic_model[m] # Nil
  PROVE  HeldIn(node'[n], b) = HeldIn(node[n], b)
<1>1. CASE LoaderThread(n) \/ ProcessorThread(n) \/ RequestBatchesReply(n)
  <2>1. node'[n].reported = node[n].reported
    BY <1>1, BesideOK, Zenon DEF Beside
  <2>2. TakenIn(node'[n], b) = TakenIn(node[n], b)
    <3>1. CASE LoaderThread(n)
      BY <3>1, LoaderCounts
    <3>2. CASE ProcessorThread(n)
      BY <3>2, ProcessorCounts
    <3>3. CASE RequestBatchesReply(n)
      BY <3>3, ReplyCounts
    <3>4. QED
      BY <1>1, <3>1, <3>2, <3>3
  <2>3. QED
    BY <2>1, <2>2 DEF HeldIn
<1>2. CASE NodeTask(n)
  <2>1. TakenIn(node'[n], b) = TakenIn(node[n], b) /\ node'[n].reported = node[n].reported
    BY <1>2, NodeTaskCounts, Zenon
  <2>2. QED
    BY <2>1 DEF HeldIn
<1>3. CASE NodeMerge(n)
  BY <1>3, NodeMergeCounts
<1>4. CASE NodeSignal(n)
  <2>1. TakenIn(node'[n], b) = TakenIn(node[n], b) /\ node'[n].reported = node[n].reported
    BY <1>4, NodeSignalCounts
  <2>2. QED
    BY <2>1 DEF HeldIn
<1>5. CASE UpdateModel(n)
  <2>1. TakenIn(node'[n], b) = TakenIn(node[n], b) /\ node'[n].reported = node[n].reported
    BY <1>5, UpdateCounts
  <2>2. QED
    BY <2>1 DEF HeldIn
<1>6. CASE RetrieveModel(n)
  <2>1. TakenIn(node'[n], b) = TakenIn(node[n], b) /\ node'[n].reported = node[n].reported
    BY <1>6, RetrieveCounts
  <2>2. QED
    BY <2>1 DEF HeldIn
<1>7. QED
  BY <1>1, <1>2, <1>3, <1>4, <1>5, <1>6 DEF NodeThread, NodeMergerThread, Service

LEMMA AsideHolds ==
  ASSUME NetworkInv, FlowInv, OneModel, Steady, SteadyInv, ~quiet, NEW n \in Nodes, Aside(n),
         NEW m \in Model, Present(m), NEW b \in Batch
  PROVE  HeldIn(node'[n], b) = HeldIn(node[n], b)
<1>0. node \in [Nodes -> NodeState] /\ NodeInv(n) /\ HolderInv(n) /\ NodesSteady
  BY DEF NetworkInv, TypeOK, NetworkNodeTypeOK, FlowInv, SteadyInv
<1>1. api.pc # "create"
  BY DEF FlowInv, QuietInv
<1>2. ~Restart(n)
  BY DEF Restart, Steady
<1>3. CASE Stop(n)
  BY <1>0, <1>3, StopKeeps
<1>4. CASE NodeThread(n) \/ (Service(n) /\ ~RequestBatches(n) /\ ~ReportBatches(n))
  <2>1. CASE node[n].instance
    <3>1. node[n].topic_model[m] # Nil
      BY <1>0, <1>1, <2>1 DEF NodesSteady
    <3>2. QED
      BY <1>0, <1>4, <3>1, ThreadHolds
  <2>2. CASE ~node[n].instance
    <3>1. ~Running(n)
      BY <2>2 DEF Running
    <3>2. ~NodeThread(n)
      BY <3>1, Zenon DEF NodeThread, LoaderThread, LoaderRequest, LoaderPush, LoaderFatal,
         LoaderAgain, ProcessorThread, ProcessorPop, ProcessorPush, ProcessorDone,
         NodeMergerThread, NodeTask, NodeMerge, NodeSignal
    <3>3. RequestBatchesReply(n) \/ UpdateModel(n)
      BY <1>4, <3>1, <3>2, Zenon DEF Service, RetrieveModel
    <3>4. TakenIn(node'[n], b) = TakenIn(node[n], b) /\ node'[n].reported = node[n].reported
      BY <1>0, <3>3, ReplyCounts, UpdateCounts
    <3>5. QED
      BY <3>4 DEF HeldIn
  <2>3. QED
    BY <2>1, <2>2
<1>5. QED
  BY <1>2, <1>3, <1>4, Zenon DEF Aside, NodeStep, ServiceStep

\* No step of a call takes a batch from a node.
LEMMA CallsHold ==
  ASSUME NetworkInv, FlowInv, Steady, SteadyInv, ~quiet', Others
  PROVE  UNCHANGED <<schema, batchManagerVars>>
         /\ \A n \in Nodes, b \in Batch : Held(n, b)' = Held(n, b)
<1>1. CASE NodeForce
  <2>1. PICK s : Gives(NextNode, s) /\ s # NoInstance
    BY <1>1, ForceGives
  <2>2. NextNode \in Nodes
    BY <1>1, ForceGives
  <2>3. QED
    BY <2>1, <2>2, GivenCounts DEF SameFlow
<1>2. ~NodeSteps
  <2>1. ASSUME NodeSteps PROVE FALSE
    <3>1. /\ api.pc \in {"create", "dispose", "connect", "disconnect", "configure"}
          /\ quiet' = quiet
      BY <2>1, Zenon DEF NodeSteps, CreateModelNode, DisposeModelNode, ConnectClient,
         DisconnectClient, ConfigureClient
    <3>2. QED
      BY <3>1 DEF FlowInv, QuietInv, SteadyInv, CallSteady
  <2>2. QED
    BY <2>1
<1>3. CASE ~NodeForce
  <2>1. UNCHANGED <<schema, batchManagerVars, node>>
    <3>1. ASSUME NEW m \in Model, CreateModel(m) \/ DisposeModel(m) PROVE FALSE
      <4>1. /\ "CreateModel" \in Calls => "CreateModel" \in QuietCalls
            /\ "DisposeModel" \in Calls => "DisposeModel" \in QuietCalls
        BY NetworkAssumption DEF Steady, QuietCreation
      <4>2. QED
        BY <3>1, <4>1 DEF CreateModel, DisposeModel, Call
    <3>2. CASE ApiCall
      <4>1. \/ \E endpoints \in NodeSets : Reconfigure(endpoints)
            \/ \E m \in Model : RecreateModel(m) \/ OverwriteTopicModel(m)
            \/ \E b \in Batch : AddBatch(b)
            \/ InvokePhiRegularizers
            \/ \E n \in IterationCounts : InvokeIteration(n)
            \/ WaitIdle
        BY <3>1, <3>2 DEF ApiCall
      <4>2. QED
        BY <4>1, Zenon DEF Reconfigure, RecreateModel, OverwriteTopicModel, AddBatch, InvokePhiRegularizers,
           InvokeIteration, WaitIdle
    <3>3. CASE ~ApiCall
      BY <1>2, <1>3, <3>3, Zenon DEF Others, NodeForceNoInstance, NodeForced, NodesDone,
         WaitTimeout, WaitProcessed, WaitIsIdle, WaitQueueNotEmpty, WaitPush, WaitPull, WaitPulled
    <3>4. QED
      BY <3>2, <3>3
  <2>2. QED
    BY <2>1 DEF Held
<1>4. QED
  BY <1>1, <1>3

LEMMA TrackedInvStep ==
  ASSUME NetworkInv, NetworkInv', FlowInv, FlowInv', OneModel, Steady, SteadyInv, TrackedInv,
         [Next]_vars
  PROVE  TrackedInv'
<1>0. /\ node \in [Nodes -> NodeState] /\ node' \in [Nodes -> NodeState] /\ BatchManagerTypeOK
      /\ in_progress \in [Model -> SUBSET Batch] /\ in_progress' \in [Model -> SUBSET Batch]
  BY DEF NetworkInv, TypeOK, NetworkNodeTypeOK, BatchManagerTypeOK
<1>1. SUFFICES ASSUME NEW m \in Model, Present(m)', NEW b \in in_progress'[m]
               PROVE  \E n \in Nodes : Held(n, b)' > 0
  BY DEF TrackedInv
<1>2. b \in Batch
  BY <1>0, <1>1
<1>3. ~quiet'
  BY <1>1 DEF FlowInv, QuietInv
<1>4. ASSUME schema' = schema, in_progress' = in_progress,
             \A n \in Nodes : Held(n, b)' = Held(n, b)
      PROVE  \E n \in Nodes : Held(n, b)' > 0
  <2>1. Present(m) /\ b \in in_progress[m]
    BY <1>1, <1>4 DEF Present
  <2>2. PICK n \in Nodes : Held(n, b) > 0
    BY <2>1 DEF TrackedInv
  <2>3. QED
    BY <1>4, <2>2
<1>5. CASE Others
  <2>1. UNCHANGED <<schema, batchManagerVars>>
        /\ \A n \in Nodes, c \in Batch : Held(n, c)' = Held(n, c)
    BY <1>3, <1>5, CallsHold
  <2>2. QED
    BY <1>2, <1>4, <2>1 DEF batchManagerVars
<1>6. CASE InvokeAdd \/ WaitReturn \/ MergerStep \/ UNCHANGED vars
  <2>1. UNCHANGED <<schema, in_progress, node>>
    BY <1>6, Zenon DEF InvokeAdd, Add, WaitReturn, MergerStep, vars, batchManagerVars
  <2>2. QED
    BY <1>4, <2>1 DEF Held
<1>7. ASSUME NEW n \in Nodes, ServiceStep(n) \/ NodeStep(n) \/ Stop(n) \/ Restart(n)
      PROVE  \E k \in Nodes : Held(k, b)' > 0
  <2>1. UNCHANGED <<schema, quiet>> /\ \A k \in Nodes : k # n => node'[k] = node[k]
    <3>1. CASE Aside(n)
      BY <3>1, AsideUnchanged
    <3>2. CASE ServiceStep(n) /\ RequestBatches(n)
      BY <1>0, <3>2 DEF ServiceStep, RequestBatches, apiVars
    <3>3. CASE ServiceStep(n) /\ ReportBatches(n)
      BY <1>0, <3>3 DEF ServiceStep, ReportBatches, apiVars
    <3>4. QED
      BY <1>7, <3>1, <3>2, <3>3 DEF Aside
  <2>2. ASSUME in_progress' = in_progress, HeldIn(node'[n], b) = HeldIn(node[n], b)
        PROVE  \E k \in Nodes : Held(k, b)' > 0
    <3>1. \A k \in Nodes : Held(k, b)' = Held(k, b)
      BY <2>1, <2>2 DEF Held
    <3>2. QED
      BY <1>4, <2>1, <2>2, <3>1
  <2>3. CASE Aside(n)
    <3>1. in_progress' = in_progress
      BY <2>3, AsideUnchanged DEF batchManagerVars
    <3>2. Present(m)
      BY <1>1, <2>1 DEF Present
    <3>3. HeldIn(node'[n], b) = HeldIn(node[n], b)
      BY <1>2, <1>3, <2>1, <2>3, <3>2, AsideHolds
    <3>4. QED
      BY <2>2, <3>1, <3>3
  <2>4. CASE ServiceStep(n) /\ RequestBatches(n)
    <3>1. PICK i \in 1..Len(tasks) :
            /\ NextTask(i) /\ tasks[i] \in Batch
            /\ HeldIn(node'[n], b) = HeldIn(node[n], b) + One(tasks[i] = b)
      BY <1>0, <1>2, <2>4, RequestCounts
    <3>2. HeldIn(node[n], b) \in Nat
      BY <1>0, <1>2, HeldInType
    <3>3. CASE tasks[i] = b
      <4>1. HeldIn(node'[n], b) > 0
        BY <3>1, <3>2, <3>3 DEF One
      <4>2. QED
        BY <4>1 DEF Held
    <3>4. CASE tasks[i] # b
      <4>1. b \in in_progress[m]
        BY <1>0, <1>1, <3>1, <3>4 DEF NextTask
      <4>2. Present(m)
        BY <1>1, <2>1 DEF Present
      <4>3. PICK k \in Nodes : Held(k, b) > 0
        BY <4>1, <4>2 DEF TrackedInv
      <4>4. HeldIn(node'[n], b) = HeldIn(node[n], b)
        BY <3>1, <3>2, <3>4 DEF One
      <4>5. Held(k, b)' = Held(k, b)
        BY <2>1, <4>4 DEF Held
      <4>6. QED
        BY <4>3, <4>5
    <3>5. QED
      BY <3>3, <3>4
  <2>5. CASE ServiceStep(n) /\ ReportBatches(n)
    <3>1. HeldIn(node[n], b) = HeldIn(node'[n], b) + One(node[n].reported = b)
      BY <1>0, <1>2, <2>5, ReportCounts
    <3>2. in_progress' = [k \in Model |-> in_progress[k] \ {node[n].reported}]
      BY <2>5 DEF ReportBatches, DoneForAll
    <3>3. b \in in_progress[m] /\ b # node[n].reported
      BY <1>1, <3>2
    <3>4. HeldIn(node'[n], b) \in Nat
      BY <1>0, <1>2, HeldInType
    <3>5. HeldIn(node'[n], b) = HeldIn(node[n], b)
      BY <3>1, <3>3, <3>4 DEF One
    <3>6. Present(m)
      BY <1>1, <2>1 DEF Present
    <3>7. PICK k \in Nodes : Held(k, b) > 0
      BY <3>3, <3>6 DEF TrackedInv
    <3>8. Held(k, b)' = Held(k, b)
      BY <2>1, <3>5 DEF Held
    <3>9. QED
      BY <3>7, <3>8
  <2>6. QED
    BY <1>7, <2>3, <2>4, <2>5 DEF Aside
<1>8. QED
  BY <1>5, <1>6, <1>7, OthersAre DEF Next

-----------------------------------------------------------------------------
\* The arguments of InvokeIteration and the batches are bounded.
Bounded ==
  /\ IsFiniteSet(Batch)
  /\ \E k \in IterationCounts : \A n \in IterationCounts : n <= k

MostIterations == Max(IterationCounts)

\* What one call of InvokeIteration adds at most.
Quota == MostIterations * Cardinality(Batch)

\* Each call has added at most its quota; what the call under way has still to add fits.
BoundInv ==
  /\ calls <= MaxCalls
  /\ Len(tasks) <= calls * Quota
  /\ api.pc = "add" =>
       /\ api.iterations > 0
       /\ Len(tasks) + Cardinality(api.batches) + (api.iterations - 1) * Cardinality(Batch)
            <= calls * Quota

LEMMA MostIterationsIs ==
  ASSUME Bounded
  PROVE  MostIterations \in Nat /\ \A n \in IterationCounts : n \in Nat /\ n <= MostIterations
<1>1. IterationCounts \subseteq Nat
  BY NetworkAssumption
<1>2. \E k \in IterationCounts : \A n \in IterationCounts : k >= n
  BY <1>1 DEF Bounded
<1>3. MostIterations \in IterationCounts /\ \A n \in IterationCounts : MostIterations >= n
  BY <1>2, Zenon DEF MostIterations, Max
<1>4. QED
  BY <1>1, <1>3

\* Cardinalities of sets of batches are numbers that behave.
LEMMA SetsOfBatches ==
  ASSUME Bounded, NEW S \in SUBSET Batch
  PROVE  /\ Cardinality(Batch) \in Nat
         /\ Cardinality(S) \in Nat /\ Cardinality(S) <= Cardinality(Batch)
         /\ \A b \in S : Cardinality(S \ {b}) = Cardinality(S) - 1 /\ Cardinality(S) > 0
<1>1. IsFiniteSet(S) /\ Cardinality(S) <= Cardinality(Batch)
  BY FS_Subset DEF Bounded
<1>2. Cardinality(S) \in Nat /\ Cardinality(Batch) \in Nat
  BY <1>1, FS_CardinalityType DEF Bounded
<1>3. ASSUME NEW b \in S
      PROVE  Cardinality(S \ {b}) = Cardinality(S) - 1 /\ Cardinality(S) > 0
  <2>1. Cardinality(S \ {b}) = Cardinality(S) - 1
    BY <1>1, FS_RemoveElement
  <2>2. Cardinality(S) # 0
    BY <1>1, FS_EmptySet
  <2>3. QED
    BY <1>2, <2>1, <2>2
<1>4. QED
  BY <1>1, <1>2, <1>3

\* One repetition, or one call, less.
LEMMA Repetitions ==
  ASSUME NEW n \in Nat, NEW c \in Nat, n > 0
  PROVE  (n - 1) * c \in Nat /\ (n - 1) * c + c = n * c
OBVIOUS

LEMMA OneCallMore ==
  ASSUME NEW n \in Nat, NEW c \in Nat
  PROVE  n * c \in Nat /\ (n + 1) * c = n * c + c
OBVIOUS

\* Multiplication is monotone.
LEMMA Fewer ==
  ASSUME NEW n \in Nat, NEW k \in Nat, NEW c \in Nat, n <= k
  PROVE  n * c <= k * c
OBVIOUS

\* A step that lengthens neither the list nor the call.
LEMMA BoundKept ==
  ASSUME Bounded, NetworkInv, BoundInv, tasks' \in Seq(Batch), Len(tasks') <= Len(tasks),
         calls' = calls \/ (calls < MaxCalls /\ calls' = calls + 1),
         api'.pc # "add" \/ UNCHANGED <<api, calls>>
  PROVE  BoundInv'
<1> DEFINE C == Cardinality(Batch)
           q == calls * Quota
           r == (api.iterations - 1) * C
           t == Cardinality(api.batches)
<1>1. /\ calls \in Nat /\ MaxCalls \in Nat /\ Quota \in Nat /\ C \in Nat
      /\ Len(tasks) \in Nat /\ Len(tasks') \in Nat
  BY MostIterationsIs, SetsOfBatches, NetworkAssumption
  DEF NetworkInv, TypeOK, BatchManagerTypeOK, Quota
<1>2. q \in Nat /\ (calls + 1) * Quota = q + Quota
  BY <1>1, OneCallMore
<1>3. calls' <= MaxCalls
  BY <1>1 DEF BoundInv
<1>4. Len(tasks') <= calls' * Quota
  <2>1. Len(tasks) <= q
    BY DEF BoundInv
  <2>2. calls' * Quota = q \/ calls' * Quota = q + Quota
    BY <1>2
  <2> HIDE DEF q
  <2>3. QED
    BY <1>1, <1>2, <2>1, <2>2
<1>5. ASSUME api'.pc = "add"
      PROVE  /\ api'.iterations > 0
             /\ Len(tasks') + Cardinality(api'.batches) + (api'.iterations - 1) * C <= calls' * Quota
  <2>1. UNCHANGED <<api, calls>> /\ api.pc = "add"
    BY <1>5
  <2>2. api.iterations > 0 /\ Len(tasks) + t + r <= q
    BY <2>1 DEF BoundInv
  <2>3. t \in Nat /\ r \in Nat
    <3>1. api.batches \in SUBSET Batch /\ api.iterations \in Nat
      BY DEF NetworkInv, TypeOK, Api
    <3>2. QED
      BY <1>1, <2>2, <3>1, SetsOfBatches, Repetitions
  <2>4. api'.iterations > 0 /\ Cardinality(api'.batches) = t /\ (api'.iterations - 1) * C = r
        /\ calls' * Quota = q
    BY <2>1, <2>2
  <2> HIDE DEF t, r, q, C
  <2>5. Len(tasks') + t + r <= q
    BY <1>1, <1>2, <2>2, <2>3
  <2>6. QED
    BY <2>4, <2>5
<1>6. QED
  BY <1>3, <1>4, <1>5 DEF BoundInv

LEMMA IterationBound ==
  ASSUME Bounded, NetworkInv, NetworkInv', BoundInv, NEW n \in IterationCounts, InvokeIteration(n)
  PROVE  BoundInv'
<1> DEFINE C == Cardinality(Batch)
           q == calls * Quota
           r == (n - 1) * C
           t == Cardinality(disk)
<1>1. /\ api'.pc = "add" /\ api'.batches = disk /\ api'.iterations = n /\ n > 0
      /\ calls < MaxCalls /\ calls' = calls + 1 /\ tasks' = tasks
  <2>1. /\ api' = [api EXCEPT !.pc = "add", !.batches = disk, !.iterations = n] /\ n > 0
        /\ calls < MaxCalls /\ calls' = calls + 1 /\ tasks' = tasks
    BY Zenon DEF InvokeIteration, Call, batchManagerVars
  <2>2. api \in Api
    BY DEF NetworkInv, TypeOK
  <2>3. QED
    BY <2>1, <2>2 DEF Api
<1>2. /\ calls \in Nat /\ MaxCalls \in Nat /\ MostIterations \in Nat /\ C \in Nat
      /\ n \in Nat /\ n <= MostIterations /\ Len(tasks) \in Nat
  BY MostIterationsIs, SetsOfBatches, NetworkAssumption
  DEF NetworkInv, TypeOK, BatchManagerTypeOK
<1>3. Quota \in Nat
  BY <1>2 DEF Quota
<1>4. q \in Nat /\ (calls + 1) * Quota = q + Quota
  BY <1>2, <1>3, OneCallMore
<1>5. t \in Nat /\ t <= C
  BY SetsOfBatches DEF NetworkInv, TypeOK
<1>6. r \in Nat /\ r + C <= Quota
  <2>1. r \in Nat /\ r + C = n * C
    BY <1>1, <1>2, Repetitions
  <2>2. n * C <= MostIterations * C
    BY <1>2, Fewer
  <2>3. QED
    BY <2>1, <2>2 DEF Quota
<1>7. Len(tasks) <= q
  BY DEF BoundInv
<1>8. Cardinality(api'.batches) = t /\ (api'.iterations - 1) * C = r /\ calls' * Quota = q + Quota
  BY <1>1, <1>4
<1>9. calls' <= MaxCalls /\ api'.iterations > 0
  BY <1>1, <1>2
<1> HIDE DEF q, r, t, C
<1>10. Len(tasks') <= q + Quota /\ Len(tasks') + t + r <= q + Quota
  BY <1>1, <1>2, <1>3, <1>4, <1>5, <1>6, <1>7
<1>11. QED
  BY <1>8, <1>9, <1>10 DEF BoundInv, C

LEMMA AddBound ==
  ASSUME Bounded, NetworkInv, BoundInv, InvokeAdd
  PROVE  BoundInv' /\ Min(api.batches) \in Batch /\ Len(tasks) < calls * Quota
<1> DEFINE C == Cardinality(Batch)
           q == calls * Quota
           r == (api.iterations - 1) * C
           t == Cardinality(api.batches)
           b == Min(api.batches)
           rest == api.batches \ {b}
<1>1. /\ api.pc = "add" /\ calls' = calls /\ tasks' = Append(tasks, b)
      /\ \/ rest # {} /\ api' = [api EXCEPT !.batches = rest]
         \/ /\ rest = {} /\ api.iterations > 1
            /\ api' = [api EXCEPT !.batches = disk, !.iterations = @ - 1]
         \/ rest = {} /\ api.iterations = 1 /\ Return
  BY Zenon DEF InvokeAdd, At, Add
<1>2. /\ api \in Api /\ api.batches \in SUBSET Batch /\ api.batches # {}
      /\ api.iterations \in Nat /\ disk \in SUBSET Batch
      /\ tasks \in Seq(Batch) /\ Len(tasks) \in Nat /\ calls \in Nat
  BY <1>1 DEF NetworkInv, TypeOK, CallInv, Api, BatchManagerTypeOK
<1>3. b \in api.batches /\ b \in Batch
  <2>1. api.batches \in SUBSET Nat
    BY <1>2, BatchAssumption
  <2>2. QED
    BY <1>2, <2>1, MinIsIn
<1>4. /\ t \in Nat /\ t > 0 /\ Cardinality(rest) = t - 1
      /\ Cardinality(disk) \in Nat /\ Cardinality(disk) <= C /\ C \in Nat
  BY <1>2, <1>3, SetsOfBatches
<1>5. Quota \in Nat
  BY <1>4, MostIterationsIs DEF Quota
<1>6. q \in Nat
  BY <1>2, <1>5, OneCallMore
<1>7. calls <= MaxCalls /\ api.iterations > 0 /\ Len(tasks) + t + r <= q
  BY <1>1 DEF BoundInv
<1>8. r \in Nat /\ r + C = api.iterations * C
  BY <1>2, <1>4, <1>7, Repetitions
<1>9. Len(tasks') = Len(tasks) + 1
  BY <1>1, <1>2, <1>3, PushOne
<1>10. Len(tasks) < q /\ Len(tasks') <= q
  <2> HIDE DEF q, r, t
  <2>1. QED
    BY <1>2, <1>4, <1>6, <1>7, <1>8, <1>9
<1>11. api'.pc = "add" =>
         /\ api'.iterations > 0
         /\ Len(tasks') + Cardinality(api'.batches) + (api'.iterations - 1) * C <= q
  <2>1. CASE rest # {} /\ api' = [api EXCEPT !.batches = rest]
    <3>1. api'.batches = rest /\ api'.iterations = api.iterations
      BY <1>2, <2>1 DEF Api
    <3>2. Cardinality(api'.batches) = t - 1 /\ (api'.iterations - 1) * C = r
      BY <1>4, <3>1
    <3> HIDE DEF q, r, t, C
    <3>3. Len(tasks') + (t - 1) + r <= q
      BY <1>2, <1>4, <1>6, <1>7, <1>8, <1>9
    <3>4. QED
      BY <1>7, <3>1, <3>2, <3>3
  <2>2. CASE /\ rest = {} /\ api.iterations > 1
             /\ api' = [api EXCEPT !.batches = disk, !.iterations = @ - 1]
    <3>1. api'.batches = disk /\ api'.iterations = api.iterations - 1
      BY <1>2, <2>2 DEF Api
    <3> DEFINE p == (api'.iterations - 1) * C
               g == Cardinality(disk)
    <3>2. p \in Nat /\ p + C = r
      <4>1. PICK n \in Nat : n = api.iterations - 1 /\ n > 0
        BY <1>2, <2>2
      <4>2. (n - 1) * C \in Nat /\ (n - 1) * C + C = n * C
        BY <1>4, <4>1, Repetitions
      <4>3. QED
        BY <3>1, <4>1, <4>2
    <3>3. Cardinality(api'.batches) = g /\ g \in Nat /\ g <= C
      BY <1>4, <3>1
    <3>4. api'.iterations > 0
      BY <1>2, <2>2, <3>1
    <3> HIDE DEF q, r, t, C, p, g
    <3>5. Len(tasks') + g + p <= q
      BY <1>2, <1>4, <1>6, <1>7, <1>8, <1>9, <3>2, <3>3
    <3>6. QED
      BY <3>3, <3>4, <3>5 DEF p
  <2>3. CASE Return
    BY <2>3 DEF Return, Ready
  <2>4. QED
    BY <1>1, <2>1, <2>2, <2>3
<1>12. BoundInv'
  BY <1>1, <1>7, <1>10, <1>11 DEF BoundInv
<1>13. QED
  BY <1>3, <1>10, <1>12

\* No other step lengthens the list or begins an iteration.
LEMMA OthersShorten ==
  ASSUME NetworkInv, NetworkInv', [Next]_vars, ~InvokeAdd,
         \A n \in IterationCounts : ~InvokeIteration(n)
  PROVE  /\ Len(tasks') <= Len(tasks)
         /\ calls' = calls \/ (calls < MaxCalls /\ calls' = calls + 1)
         /\ api'.pc # "add" \/ UNCHANGED <<api, calls>>
<1>0. /\ api \in Api /\ tasks \in Seq(Batch) /\ Len(tasks) \in Nat
      /\ node \in [Nodes -> NodeState] /\ BatchManagerTypeOK
  BY DEF NetworkInv, TypeOK, NetworkNodeTypeOK, BatchManagerTypeOK
<1>1. CASE Others
  <2>1. tasks' = tasks
    BY <1>1, Zenon
    DEF Others, ApiCall, Reconfigure, CreateModel, RecreateModel, DisposeModel, ForgetModel, OverwriteTopicModel,
        AddBatch, InvokePhiRegularizers, InvokeIteration, WaitIdle, NodeForce, NodeForceNoInstance,
        NodeForced, NodesDone, NodeSteps, CreateModelNode, DisposeModelNode, ConnectClient,
        DisconnectClient, ConfigureClient, WaitTimeout, WaitProcessed, WaitIsIdle,
        WaitQueueNotEmpty, WaitPush, WaitPull, WaitPulled, batchManagerVars
  <2>2. calls' = calls \/ (calls < MaxCalls /\ calls' = calls + 1)
    BY <1>1, Zenon
    DEF Others, ApiCall, Reconfigure, CreateModel, RecreateModel, DisposeModel, OverwriteTopicModel,
        AddBatch, InvokePhiRegularizers, InvokeIteration, WaitIdle, NodeForce, NodeForceNoInstance,
        NodeForced, NodesDone, NodeSteps, CreateModelNode, DisposeModelNode, ConnectClient,
        DisconnectClient, ConfigureClient, WaitTimeout, WaitProcessed, WaitIsIdle,
        WaitQueueNotEmpty, WaitPush, WaitPull, WaitPulled, Call, At, NodesLeft
  <2>3. api'.pc # "add"
    BY <1>0, <1>1, OthersGo
  <2>4. QED
    BY <1>0, <2>1, <2>2, <2>3
<1>2. CASE WaitReturn
  BY <1>0, <1>2 DEF WaitReturn, At, Return, Ready, batchManagerVars
<1>3. CASE MergerStep \/ UNCHANGED vars
  <2>1. UNCHANGED <<tasks, api, calls>>
    BY <1>3, Zenon DEF MergerStep, vars, batchManagerVars, apiVars
  <2>2. QED
    BY <1>0, <2>1
<1>4. ASSUME NEW n \in Nodes, ServiceStep(n) \/ NodeStep(n) \/ Stop(n) \/ Restart(n)
      PROVE  Len(tasks') <= Len(tasks) /\ UNCHANGED <<api, calls>>
  <2>1. UNCHANGED <<api, calls>>
    BY <1>4 DEF ServiceStep, NodeStep, Stop, Restart, apiVars
  <2>2. CASE Aside(n)
    <3>1. tasks' = tasks
      BY <2>2, AsideUnchanged DEF batchManagerVars
    <3>2. QED
      BY <1>0, <2>1, <3>1
  <2>3. CASE ServiceStep(n) /\ RequestBatches(n)
    <3>1. PICK i \in 1..Len(tasks) : tasks' = RemoveAt(tasks, i)
      BY <2>3 DEF RequestBatches, NextTask
    <3>2. Len(tasks') = Len(tasks) - 1
      BY <1>0, <3>1, RemoveAtElements
    <3>3. QED
      BY <1>0, <2>1, <3>2
  <2>4. CASE ServiceStep(n) /\ ReportBatches(n)
    <3>1. tasks' = tasks
      BY <2>4 DEF ReportBatches, DoneForAll
    <3>2. QED
      BY <1>0, <2>1, <3>1
  <2>5. QED
    BY <1>4, <2>2, <2>3, <2>4 DEF Aside
<1>5. QED
  BY <1>1, <1>2, <1>3, <1>4, OthersAre DEF Next

LEMMA BoundStep ==
  ASSUME Bounded, NetworkInv, NetworkInv', BoundInv, [Next]_vars
  PROVE  BoundInv'
<1>1. CASE InvokeAdd
  BY <1>1, AddBound
<1>2. CASE \E n \in IterationCounts : InvokeIteration(n)
  BY <1>2, IterationBound
<1>3. CASE ~InvokeAdd /\ \A n \in IterationCounts : ~InvokeIteration(n)
  <2>1. tasks' \in Seq(Batch)
    BY DEF NetworkInv, TypeOK, BatchManagerTypeOK
  <2>2. QED
    BY <1>3, <2>1, OthersShorten, BoundKept
<1>4. QED
  BY <1>1, <1>2, <1>3

-----------------------------------------------------------------------------
\* What is out, as the refinement mapping defines it, and what the batch manager says.
HandedNow == [b \in Batch |-> [m \in Model |-> Handed(b, m)]]

MarkedNow == [b \in Batch |-> [m \in Model |-> IF b \in in_progress[m] THEN 1 ELSE 0]]

LEMMA HandedIs ==
  ASSUME IsFiniteSet(Nodes), NetworkInv, FlowInv, TrackedInv, NEW b \in Batch, NEW m \in Model
  PROVE  Handed(b, m) = IF b \in in_progress[m] THEN 1 ELSE 0
<1>1. CASE ~Present(m)
  <2>1. Handed(b, m) = 0
    BY <1>1 DEF Handed, GetModelNames, Present
  <2>2. in_progress[m] = {}
    BY <1>1 DEF FlowInv, SchemaInv
  <2>3. QED
    BY <2>1, <2>2
<1>2. CASE Present(m)
  <2> DEFINE f == [n \in Nodes |-> Held(n, b)]
             none == [n \in Nodes |-> 0]
  <2>1. f \in [Nodes -> Nat] /\ none \in [Nodes -> Nat]
    <3>1. \A n \in Nodes : Held(n, b) \in Nat
      BY HeldInType DEF Held, NetworkInv, TypeOK, NetworkNodeTypeOK
    <3>2. QED
      BY <3>1
  <2>2. Handed(b, m) = Total(f)
    <3>1. m \in GetModelNames
      BY <1>2 DEF GetModelNames, Present
    <3>2. [n \in Nodes |-> Taken(n, b) + One(node[n].reported = b)] = f
      BY TakenOf DEF Held, HeldIn
    <3>3. QED
      BY <3>1, <3>2 DEF Handed
  <2>3. \A n \in Nodes : /\ f[n] <= One(b \in in_progress[m])
                         /\ \A k \in Nodes \ {n} : f[n] = 0 \/ f[k] = 0
    BY <1>2 DEF FlowInv, MarkInv
  <2>4. b \in in_progress[m] => \E n \in Nodes : f[n] > 0
    BY <1>2 DEF TrackedInv
  <2> HIDE DEF f
  <2>5. CASE b \in in_progress[m]
    <3>1. PICK n \in Nodes : f[n] > 0
      BY <2>4, <2>5
    <3>2. f[n] = 1 /\ \A k \in Nodes \ {n} : f[k] = none[k]
      <4>1. f[n] <= 1 /\ \A k \in Nodes \ {n} : f[n] = 0 \/ f[k] = 0
        BY <2>3, <2>5 DEF One
      <4>2. QED
        BY <2>1, <3>1, <4>1
    <3>3. Total(f) + none[n] = Total(none) + f[n]
      BY <2>1, <3>2, TotalAt
    <3>4. Total(none) = 0 /\ Total(f) \in Nat
      BY <2>1, TotalNone, TotalType
    <3>5. Total(f) = 1
      BY <3>2, <3>3, <3>4
    <3>6. QED
      BY <2>2, <2>5, <3>5
  <2>6. CASE b \notin in_progress[m]
    <3>1. \A n \in Nodes : f[n] = 0
      BY <2>1, <2>3, <2>6 DEF One
    <3>2. Total(f) = 0
      BY <2>1, <3>1, TotalNone
    <3>3. QED
      BY <2>2, <2>6, <3>2
  <2>7. QED
    BY <2>5, <2>6
<1>3. QED
  BY <1>1, <1>2

LEMMA HandedIsMarked ==
  IsFiniteSet(Nodes) /\ NetworkInv /\ FlowInv /\ TrackedInv => HandedNow = MarkedNow
<1>1. ASSUME IsFiniteSet(Nodes), NetworkInv, FlowInv, TrackedInv
      PROVE  HandedNow = MarkedNow
  <2>1. \A b \in Batch, m \in Model : Handed(b, m) = IF b \in in_progress[m] THEN 1 ELSE 0
    BY <1>1, HandedIs
  <2>2. QED
    BY <2>1 DEF HandedNow, MarkedNow
<1>2. QED
  BY <1>1

\* The initial states map to initial states.
LEMMA TrackingInit ==
  ASSUME Init, NetworkInv, HandedNow = MarkedNow
  PROVE  Tracking!Init
<1>1. SchemaTypeOK /\ BatchManagerInit
  BY DEF Init, NetworkInv, TypeOK
<1>2. HandedNow = [b \in Batch |-> [m \in Model |-> 0]]
  BY <1>1 DEF MarkedNow, BatchManagerInit
<1>3. QED
  BY <1>1, <1>2
  DEF Tracking!Init, Tracking!SchemaTypeOK, Tracking!ModelStatus, SchemaTypeOK, ModelStatus,
      Tracking!BatchManagerInit, BatchManagerInit, HandedNow

\* RequestBatches: the batch taken was marked for no model and is for every one of the
\* schema.
LEMMA RequestHandsOut ==
  ASSUME NetworkInv, HandedNow = MarkedNow, HandedNow' = MarkedNow', NEW i \in 1..Len(tasks),
         NextTask(i), UNCHANGED schema
  PROVE  Tracking!HandOut(i)
<1>1. tasks \in Seq(Batch) /\ in_progress \in [Model -> SUBSET Batch]
  BY DEF NetworkInv, TypeOK, BatchManagerTypeOK
<1>2. PICK c \in Batch : c = tasks[i]
  BY <1>1
<1>3. /\ \A m \in Model : c \notin in_progress[m]
      /\ in_progress' = [m \in Model |-> IF m \in GetModelNames
                                         THEN in_progress[m] \cup {c} ELSE in_progress[m]]
  BY <1>2 DEF NextTask, Selectable
<1>4. HandedNow' = [HandedNow EXCEPT ![c] = [m \in Model |-> IF m \in GetModelNames
                                                            THEN @[m] + 1 ELSE @[m]]]
  <2> DEFINE new == [HandedNow EXCEPT ![c] = [m \in Model |-> IF m \in GetModelNames
                                                              THEN @[m] + 1 ELSE @[m]]]
  <2>1. ASSUME NEW b \in Batch PROVE MarkedNow'[b] = new[b]
    <3>1. MarkedNow'[b] = [m \in Model |-> IF b \in in_progress'[m] THEN 1 ELSE 0]
      BY DEF MarkedNow
    <3>2. MarkedNow[b] = [m \in Model |-> IF b \in in_progress[m] THEN 1 ELSE 0]
      BY DEF MarkedNow
    <3>3. CASE b = c
      <4>1. new[b] = [m \in Model |-> IF m \in GetModelNames
                                      THEN HandedNow[c][m] + 1 ELSE HandedNow[c][m]]
        BY <3>3 DEF HandedNow
      <4>2. ASSUME NEW m \in Model
            PROVE  (IF b \in in_progress'[m] THEN 1 ELSE 0)
                     = (IF m \in GetModelNames THEN HandedNow[c][m] + 1 ELSE HandedNow[c][m])
        <5>1. HandedNow[c][m] = 0
          BY <1>3, <3>2, <3>3
        <5>2. b \in in_progress'[m] <=> m \in GetModelNames
          BY <1>3, <3>3
        <5>3. QED
          BY <5>1, <5>2
      <4>3. QED
        BY <3>1, <4>1, <4>2
    <3>4. CASE b # c
      <4>1. new[b] = MarkedNow[b]
        BY <3>4 DEF HandedNow
      <4>2. \A m \in Model : b \in in_progress'[m] <=> b \in in_progress[m]
        BY <1>3, <3>4
      <4>3. QED
        BY <3>1, <3>2, <4>1, <4>2
    <3>5. QED
      BY <3>3, <3>4
  <2>2. new = [b \in Batch |-> new[b]] /\ MarkedNow' = [b \in Batch |-> MarkedNow'[b]]
    BY DEF HandedNow, MarkedNow
  <2> HIDE DEF new
  <2>3. MarkedNow' = new
    BY <2>1, <2>2
  <2>4. QED
    BY <2>3 DEF new
<1>5. Tracking!NextTask(i)
  <2>1. Tracking!RemoveAt(tasks, i) = RemoveAt(tasks, i)
    BY Zenon DEF Tracking!RemoveAt, RemoveAt
  <2>2. QED
    BY <2>1, Zenon
    DEF Tracking!NextTask, Tracking!Selectable, Tracking!GetModelNames, NextTask, Selectable,
        GetModelNames
<1>6. Tracking!GetModelNames = GetModelNames
  BY DEF Tracking!GetModelNames, GetModelNames
<1>7. HandedNow' = [HandedNow EXCEPT ![tasks[i]] =
                      [m \in Model |-> IF m \in Tracking!GetModelNames
                                       THEN @[m] + 1 ELSE @[m]]]
  BY <1>2, <1>4, <1>6, Zenon
<1>8. QED
  BY <1>5, <1>7, Zenon DEF Tracking!HandOut, HandedNow

\* ReportBatches: the batch was out for the model and is marked for no other.
LEMMA NodeReports ==
  ASSUME NetworkInv, FlowInv, OneModel, HandedNow = MarkedNow, HandedNow' = MarkedNow',
         NEW n \in Nodes, ReportBatches(n), UNCHANGED schema
  PROVE  \/ \E b \in Batch, m \in Model : Tracking!Report(b, m)
         \/ UNCHANGED <<tasks, in_progress>>
<1>0. /\ node \in [Nodes -> NodeState] /\ in_progress \in [Model -> SUBSET Batch]
      /\ DoneForAll(node[n].reported) /\ node[n].merger = "report" /\ HolderInv(n)
  BY DEF NetworkInv, TypeOK, NetworkNodeTypeOK, BatchManagerTypeOK, FlowInv, ReportBatches
<1>1. PICK c \in Batch : c = node[n].reported
  <2>1. node[n].reported \in Batch \cup {Nil} /\ node[n].reported # Nil
    BY <1>0 DEF HolderInv, NodeState
  <2>2. QED
    BY <2>1
<1>2. in_progress' = [m \in Model |-> in_progress[m] \ {c}] /\ tasks' = tasks
  BY <1>0, <1>1 DEF DoneForAll
<1>3. CASE \A m \in Model : ~Present(m)
  <2>1. \A m \in Model : in_progress[m] = {}
    BY <1>3 DEF FlowInv, SchemaInv
  <2>2. QED
    BY <1>0, <1>2, <2>1
<1>4. CASE \E m \in Model : Present(m)
  <2>1. PICK k \in Model : Present(k)
    BY <1>4
  <2>2. c \in in_progress[k]
    <3>1. Held(n, c) > 0
      <4>1. TakenIn(node[n], c) \in Nat
        BY <1>0, TakenInType
      <4>2. One(node[n].reported = c) = 1
        BY <1>1 DEF One
      <4>3. QED
        BY <4>1, <4>2 DEF Held, HeldIn
    <3>2. Held(n, c) <= One(c \in in_progress[k])
      BY <2>1 DEF FlowInv, MarkInv
    <3>3. Held(n, c) \in Nat
      BY <1>0, HeldInType DEF Held
    <3>4. QED
      BY <3>1, <3>2, <3>3 DEF One
  <2>3. \A m \in Model : m = k
    BY DEF OneModel
  <2>4. Done(c, k)
    BY <1>0, <1>2, <2>3 DEF Done
  <2>5. HandedNow' = [HandedNow EXCEPT ![c][k] = @ - 1] /\ HandedNow[c][k] = 1
    <3> DEFINE new == [HandedNow EXCEPT ![c][k] = @ - 1]
    <3>1. MarkedNow[c][k] = 1
      BY <2>2 DEF MarkedNow
    <3>2. ASSUME NEW b \in Batch, NEW m \in Model PROVE MarkedNow'[b][m] = new[b][m]
      <4>1. MarkedNow'[b][m] = (IF b \in in_progress'[m] THEN 1 ELSE 0)
            /\ MarkedNow[b][m] = (IF b \in in_progress[m] THEN 1 ELSE 0)
        BY DEF MarkedNow
      <4>2. m = k
        BY <2>3
      <4>3. CASE b = c
        <5>1. new[b][m] = HandedNow[c][k] - 1
          BY <4>2, <4>3 DEF HandedNow
        <5>2. b \notin in_progress'[m]
          BY <1>2, <4>3
        <5>3. QED
          BY <3>1, <4>1, <5>1, <5>2
      <4>4. CASE b # c
        <5>1. new[b][m] = HandedNow[b][m]
          BY <4>4 DEF HandedNow
        <5>2. b \in in_progress'[m] <=> b \in in_progress[m]
          BY <1>2, <4>4
        <5>3. QED
          BY <4>1, <5>1, <5>2
      <4>5. QED
        BY <4>3, <4>4
    <3>3. /\ new = [b \in Batch |-> [m \in Model |-> new[b][m]]]
          /\ MarkedNow' = [b \in Batch |-> [m \in Model |-> MarkedNow'[b][m]]]
      <4>1. ASSUME NEW b \in Batch PROVE new[b] = [m \in Model |-> new[b][m]]
        BY DEF HandedNow
      <4>2. new = [b \in Batch |-> new[b]]
        BY DEF HandedNow
      <4>3. MarkedNow' = [b \in Batch |-> [m \in Model |-> MarkedNow'[b][m]]]
        BY DEF MarkedNow
      <4> HIDE DEF new
      <4>4. QED
        BY <4>1, <4>2, <4>3
    <3> HIDE DEF new
    <3>4. MarkedNow' = new
      BY <3>2, <3>3
    <3>5. QED
      BY <3>1, <3>4 DEF new
  <2>6. Tracking!Report(c, k)
    BY <2>4, <2>5 DEF Tracking!Report, Tracking!Done, Done, HandedNow
  <2>7. QED
    BY <2>6
<1>5. QED
  BY <1>3, <1>4

-----------------------------------------------------------------------------
\* InvokeIteration queues a task: the list has room.
LEMMA AddTracks ==
  ASSUME Bounded, NetworkInv, BoundInv, HandedNow' = HandedNow, InvokeAdd
  PROVE  \E b \in Batch : Tracking!AddTask(b)
<1>1. PICK b \in Batch : b = Min(api.batches)
  BY AddBound
<1>2. Add(b) /\ UNCHANGED schema
  BY <1>1, Zenon DEF InvokeAdd
<1>3. Len(tasks) < MaxCalls * Cardinality(Batch) * Max(IterationCounts)
  <2> DEFINE C == Cardinality(Batch)
             K == MostIterations
  <2>1. /\ C \in Nat /\ K \in Nat /\ calls \in Nat /\ MaxCalls \in Nat /\ calls <= MaxCalls
        /\ Len(tasks) \in Nat
    BY MostIterationsIs, SetsOfBatches, NetworkAssumption
    DEF NetworkInv, TypeOK, BatchManagerTypeOK, BoundInv
  <2>2. Len(tasks) < calls * (K * C)
    BY AddBound DEF Quota
  <2>3. K * C \in Nat /\ MaxCalls * (K * C) = MaxCalls * C * K
    BY <2>1
  <2> DEFINE one == K * C
             now == calls * one
             most == MaxCalls * one
             all == MaxCalls * C * K
  <2>4. now <= most
    BY <2>1, <2>3, Fewer
  <2>5. now \in Nat /\ most \in Nat
    BY <2>1, <2>3, OneCallMore
  <2>6. Len(tasks) < now /\ all = most
    BY <2>2, <2>3
  <2> HIDE DEF one, now, most, all
  <2>7. Len(tasks) < all
    BY <2>1, <2>4, <2>5, <2>6
  <2>8. QED
    BY <2>7 DEF all, K, C, MostIterations
<1>4. Tracking!AddTask(b)
  BY <1>2, <1>3, Zenon DEF Tracking!AddTask, Tracking!Add, Add, HandedNow
<1>5. QED
  BY <1>4

\* Models come and go; the other steps of a call leave the batch manager alone.
LEMMA CallsTrack ==
  ASSUME NetworkInv, FlowInv, HandedNow = MarkedNow, HandedNow' = MarkedNow', Others
  PROVE  Tracking!QuietNext \/ UNCHANGED <<schema, tasks, in_progress>>
<1>1. ASSUME UNCHANGED in_progress
      PROVE  HandedNow' = HandedNow
  BY <1>1 DEF MarkedNow
<1>2. ASSUME NEW m \in Model, CreateModel(m)
      PROVE  Tracking!QuietNext
  <2>1. Tracking!set_model_config(m, "enabled") /\ UNCHANGED <<tasks, in_progress>>
    BY <1>2
    DEF CreateModel, set_model_config, Tracking!set_model_config, ModelStatus,
        Tracking!ModelStatus, batchManagerVars
  <2>2. Tracking!SetModel(m, "enabled")
    BY <1>1, <2>1, Zenon DEF Tracking!SetModel, HandedNow
  <2>3. "enabled" \in Tracking!ModelStatus
    BY DEF Tracking!ModelStatus
  <2>4. QED
    BY <2>2, <2>3, Zenon DEF Tracking!QuietNext, Tracking!Work
<1>3. ASSUME NEW m \in Model, DisposeModel(m)
      PROVE  Tracking!QuietNext
  <2>1. quiet
    BY <1>3, NetworkAssumption DEF DisposeModel, Call
  <2>2. in_progress \in [Model -> SUBSET Batch] /\ in_progress[m] = {}
    BY <2>1 DEF FlowInv, QuietInv, NetworkInv, TypeOK, BatchManagerTypeOK
  <2>3. Tracking!clear_model_config(m) /\ UNCHANGED <<tasks, in_progress>>
    BY <1>3, <2>2
    DEF DisposeModel, ForgetModel, clear_model_config, Tracking!clear_model_config
  <2>4. Tracking!ClearModel(m)
    BY <1>1, <2>3, Zenon DEF Tracking!ClearModel, HandedNow
  <2>5. QED
    BY <2>4, Zenon DEF Tracking!QuietNext, Tracking!Work
<1>4. CASE \A m \in Model : ~CreateModel(m) /\ ~DisposeModel(m)
  BY <1>4, Zenon
  DEF Others, ApiCall, Reconfigure, RecreateModel, OverwriteTopicModel, AddBatch, InvokePhiRegularizers,
      InvokeIteration, WaitIdle, NodeForce, NodeForceNoInstance, NodeForced, NodesDone,
      NodeSteps, CreateModelNode, DisposeModelNode, ConnectClient, DisconnectClient,
      ConfigureClient, WaitTimeout, WaitProcessed, WaitIsIdle, WaitQueueNotEmpty, WaitPush,
      WaitPull, WaitPulled, batchManagerVars
<1>5. QED
  BY <1>2, <1>3, <1>4

\* Every step maps to a step of QuietNext or to a stutter.
LEMMA TrackingStep ==
  ASSUME Bounded, OneModel, NetworkInv, FlowInv, BoundInv, HandedNow = MarkedNow,
         HandedNow' = MarkedNow', [Next]_vars
  PROVE  [Tracking!QuietNext]_(Tracking!trackingVars)
<1>0. node \in [Nodes -> NodeState] /\ BatchManagerTypeOK
  BY DEF NetworkInv, TypeOK, NetworkNodeTypeOK
<1>1. ASSUME UNCHANGED <<schema, tasks, in_progress>>
      PROVE  UNCHANGED Tracking!trackingVars
  <2>1. HandedNow' = HandedNow
    BY <1>1 DEF MarkedNow
  <2>2. QED
    BY <1>1, <2>1, Zenon DEF Tracking!trackingVars, HandedNow
<1>2. CASE Others
  BY <1>1, <1>2, CallsTrack
<1>3. CASE InvokeAdd
  <2>1. HandedNow' = HandedNow
    <3>1. UNCHANGED in_progress
      BY <1>3, Zenon DEF InvokeAdd, Add
    <3>2. QED
      BY <3>1 DEF MarkedNow
  <2>2. \E b \in Batch : Tracking!AddTask(b)
    BY <1>3, <2>1, AddTracks
  <2>3. QED
    BY <2>2, Zenon DEF Tracking!QuietNext, Tracking!Work
<1>4. CASE WaitReturn \/ MergerStep \/ UNCHANGED vars
  <2>1. UNCHANGED <<schema, tasks, in_progress>>
    BY <1>4, Zenon DEF WaitReturn, MergerStep, vars, batchManagerVars
  <2>2. QED
    BY <1>1, <2>1
<1>5. ASSUME NEW n \in Nodes, ServiceStep(n) \/ NodeStep(n) \/ Stop(n) \/ Restart(n)
      PROVE  [Tracking!QuietNext]_(Tracking!trackingVars)
  <2>1. CASE Aside(n)
    <3>1. UNCHANGED <<schema, tasks, in_progress>>
      BY <2>1, AsideUnchanged DEF batchManagerVars
    <3>2. QED
      BY <1>1, <3>1
  <2>2. CASE ServiceStep(n) /\ RequestBatches(n)
    <3>1. UNCHANGED schema
      BY <2>2 DEF ServiceStep
    <3>2. PICK i \in 1..Len(tasks) : NextTask(i)
      BY <2>2 DEF RequestBatches
    <3>3. Tracking!HandOut(i)
      BY <3>1, <3>2, RequestHandsOut
    <3>4. QED
      BY <3>3, Zenon DEF Tracking!QuietNext, Tracking!Work
  <2>3. CASE ServiceStep(n) /\ ReportBatches(n)
    <3>1. UNCHANGED schema
      BY <2>3 DEF ServiceStep
    <3>2. \/ \E b \in Batch, m \in Model : Tracking!Report(b, m)
          \/ UNCHANGED <<tasks, in_progress>>
      BY <2>3, <3>1, NodeReports
    <3>3. CASE \E b \in Batch, m \in Model : Tracking!Report(b, m)
      BY <3>3, Zenon DEF Tracking!QuietNext, Tracking!Work
    <3>4. CASE UNCHANGED <<tasks, in_progress>>
      BY <1>1, <3>1, <3>4
    <3>5. QED
      BY <3>2, <3>3, <3>4
  <2>4. QED
    BY <1>5, <2>1, <2>2, <2>3 DEF Aside
<1>6. QED
  BY <1>2, <1>3, <1>4, <1>5, OthersAre DEF Next

LEMMA TrackedInit ==
  ASSUME Bounded, Init
  PROVE  TrackedInv /\ BoundInv
<1>1. TrackedInv
  BY DEF Init, BatchManagerInit, TrackedInv
<1>2. BoundInv
  <2>1. calls = 0 /\ Len(tasks) = 0 /\ api.pc # "add"
    BY DEF Init, BatchManagerInit, Ready
  <2>2. Quota \in Nat
    BY MostIterationsIs, SetsOfBatches DEF Quota
  <2>3. 0 * Quota = 0
    BY <2>2
  <2>4. QED
    BY <2>1, <2>3, NetworkAssumption DEF BoundInv
<1>3. QED
  BY <1>1, <1>2

\* Master and nodes keep their side of the batch manager's contract: a batch that
\* RequestBatches hands out is reported by ReportBatches exactly once, by the node that took
\* it, and models are removed only when nothing is out.  What is proved of BatchTracking for
\* quiet callers holds of the master component with its nodes.
THEOREM NetworkImplementsTracking ==
  ASSUME IsFiniteSet(Nodes), OneModel, Steady, Bounded
  PROVE  Spec => ImplementsTracking
<1>0. QuietCreation
  BY DEF Steady
<1>1. Init => TrackedInv /\ BoundInv
  BY TrackedInit
<1>2. NetworkInv /\ NetworkInv' /\ FlowInv /\ FlowInv' /\ SteadyInv /\ TrackedInv /\ [Next]_vars
        => TrackedInv'
  BY TrackedInvStep
<1>3. NetworkInv /\ NetworkInv' /\ BoundInv /\ [Next]_vars => BoundInv'
  BY BoundStep
<1>4. ExactlyOnce => SteadyInv
  BY DEF ExactlyOnce
<1>5. NetworkInv /\ FlowInv /\ TrackedInv => HandedNow = MarkedNow
  BY HandedIsMarked
<1>6. Init /\ NetworkInv /\ HandedNow = MarkedNow => Tracking!Init
  BY TrackingInit
<1>7. NetworkInv /\ FlowInv /\ BoundInv /\ HandedNow = MarkedNow /\ (HandedNow = MarkedNow)'
        /\ [Next]_vars => [Tracking!QuietNext]_(Tracking!trackingVars)
  BY TrackingStep
<1>8. Spec => []NetworkInv
  BY NetworkInvariant
<1>9. Spec => []FlowInv
  BY <1>0, FlowInvariant
<1>10. Spec => []ExactlyOnce
  BY NetworkExactlyOnce
<1>11. QED
  BY <1>1, <1>2, <1>3, <1>4, <1>5, <1>6, <1>7, <1>8, <1>9, <1>10, PTL
  DEF Spec, ImplementsTracking, Tracking!QuietSpec
=============================================================================
