---------------------------- MODULE NetworkNode ----------------------------
(***************************************************************************)
(* Network modus operandi, the threads: RemoteDataLoader of                *)
(* core/data_loader.cc, a processor and the merger of each node; the       *)
(* master's core/master_component_service_impl.cc and its merger           *)
(* (core/merger.cc with and without a master_component_service).           *)
(*                                                                         *)
(* An RPC has no deadline: the caller waits until the reply arrives.  The  *)
(* request is handled in one step at any time after it was sent, also when *)
(* its sender has stopped meanwhile; the reply arrives in the same step.   *)
(* LocalInstance has the details of what a node's processors do.           *)
(***************************************************************************)
EXTENDS BatchManager

CONSTANTS Nodes,                   \* endpoints of node controllers, ordered
          ProcessorQueueMaxSize,   \* config.processor_queue_max_size()
          Unreadable               \* batches whose file can not be parsed

ASSUME NetworkNodeAssumption ==
  /\ Nodes \subseteq Nat
  /\ ProcessorQueueMaxSize \in Nat \ {0}

VARIABLES topic_model,             \* the master's merger: topic_model_,
          topic_model_inc,         \*   topic_model_inc_,
          merger_queue,            \*   the queue of increments pushed by nodes,
          internal_task_queue,     \*   its tasks,
          merger,                  \*   and its thread
          node,                    \* the instances of the node controllers
          sync                     \* the sync_event of the call in progress

mergerVars == <<topic_model, topic_model_inc, merger_queue, internal_task_queue, merger>>

Counts == [Batch -> Nat]
NoCounts == [b \in Batch |-> 0]

\* A topic model: how often each batch is counted, and the call that replaced
\* it by a regularized or overwritten one (0: none).
TopicModel == [n_wt : Counts, edition : Nat]
NewModel == [n_wt |-> NoCounts, edition |-> 0]

ASSUME NilIsNoModel == Nil \notin TopicModel \cup Counts

TaskTypes == {"kDisposeModel", "kForcePullTopicModel", "kForcePushTopicModelIncrement"}
Task(type, m) == [type |-> type, model |-> m]
Tasks == [type : TaskTypes, model : Model \cup {Nil}]

NodeState ==
  [up : BOOLEAN, instance : BOOLEAN,                      \* process, instance_
   topic_model : [Model -> TopicModel \cup {Nil}],
   topic_model_inc : [Model -> Counts \cup {Nil}],
   loader : {"poll", "request", "answered"}, want : Nat, batches : Seq(Batch),
   processor_queue : Seq(Batch),
   batch : Batch \cup {Nil}, todo : SUBSET Model,         \* the processor's
   merger_queue : Seq([batch : Batch, model : Model]),
   merger : {"run", "report", "push", "pull"}, reported : Batch \cup {Nil},
   models : SUBSET Model, tasks : Seq(Tasks)]

NoInstance ==
  [up |-> TRUE, instance |-> FALSE,
   topic_model |-> [m \in Model |-> Nil], topic_model_inc |-> [m \in Model |-> Nil],
   loader |-> "poll", want |-> 0, batches |-> <<>>, processor_queue |-> <<>>,
   batch |-> Nil, todo |-> {}, merger_queue |-> <<>>,
   merger |-> "run", reported |-> Nil, models |-> {}, tasks |-> <<>>]

Increment == [model : Model, n_wt : Counts]

NetworkNodeTypeOK ==
  /\ topic_model \in [Model -> TopicModel \cup {Nil}]
  /\ topic_model_inc \in [Model -> Counts \cup {Nil}]
  /\ merger_queue \in Seq(Increment)
  /\ internal_task_queue \in Seq(Tasks)
  /\ merger \in [pc : {"idle", "run", "merge"}, increment : Increment \cup {Nil}]
  /\ node \in [Nodes -> NodeState]
  /\ sync \in BOOLEAN

\* Nodes in the set `connected' have an instance with the given models.
NetworkNodeInit(connected, models) ==
  LET existing == [m \in Model |-> IF m \in models THEN NewModel ELSE Nil] IN
  /\ topic_model = existing
  /\ topic_model_inc = [m \in Model |-> Nil]
  /\ merger_queue = <<>> /\ internal_task_queue = <<>>
  /\ merger = [pc |-> "idle", increment |-> Nil]
  /\ node = [n \in Nodes |-> [NoInstance EXCEPT
               !.instance = n \in connected,
               !.topic_model = IF n \in connected THEN existing ELSE @]]
  /\ sync = FALSE

Plus(f, g) == [b \in Batch |-> f[b] + g[b]]

\* The accumulator of increments of model m after one more.
Accumulated(inc, n_wt) == IF inc = Nil THEN n_wt ELSE Plus(inc, n_wt)
-----------------------------------------------------------------------------
(* A node.  RemoteDataLoader::ThreadFunction: ask the master for as many   *)
(* batches as the processor queue has room for, read and queue them.       *)
Running(n) == node[n].up /\ node[n].instance

LoaderRequest(n) ==
  /\ Running(n) /\ node[n].loader = "poll"
  /\ Len(node[n].processor_queue) < ProcessorQueueMaxSize
  /\ node' = [node EXCEPT ![n].loader = "request",
                ![n].want = ProcessorQueueMaxSize - Len(node[n].processor_queue)]

LoaderPush(n) ==
  /\ Running(n) /\ node[n].loader = "answered"
  /\ node[n].batches # <<>>
  /\ Head(node[n].batches) \notin Unreadable
  /\ node' = [node EXCEPT ![n].processor_queue = Append(@, Head(node[n].batches)),
                          ![n].batches = Tail(@)]

\* LoadBatch throws; it never returns nullptr, the case that would report the
\* batch as failed.  The exception leaves the loop: LOG(FATAL) stops the node.
LoaderFatal(n) ==
  /\ Running(n) /\ node[n].loader = "answered"
  /\ node[n].batches # <<>>
  /\ Head(node[n].batches) \in Unreadable
  /\ node' = [node EXCEPT ![n].up = FALSE]

LoaderAgain(n) ==
  /\ Running(n) /\ node[n].loader = "answered"
  /\ node[n].batches = <<>>
  /\ node' = [node EXCEPT ![n].loader = "poll", ![n].want = 0]

LoaderThread(n) ==
  LoaderRequest(n) \/ LoaderPush(n) \/ LoaderFatal(n) \/ LoaderAgain(n)

(* A processor: an increment for each model of the schema at that moment.  *)
ProcessorPop(n) ==
  /\ Running(n) /\ node[n].batch = Nil
  /\ node[n].processor_queue # <<>>
  /\ node' = [node EXCEPT ![n].processor_queue = Tail(@),
                ![n].batch = Head(node[n].processor_queue),
                ![n].todo = {m \in Model : node[n].topic_model[m] # Nil}]

ProcessorPush(n) ==
  /\ Running(n) /\ node[n].todo # {}
  /\ LET m == Min(node[n].todo) IN
     node' = [node EXCEPT ![n].todo = @ \ {m},
                ![n].merger_queue = Append(@, [batch |-> node[n].batch, model |-> m])]

ProcessorDone(n) ==
  /\ Running(n) /\ node[n].batch # Nil /\ node[n].todo = {}
  /\ node' = [node EXCEPT ![n].batch = Nil]

ProcessorThread(n) == ProcessorPop(n) \/ ProcessorPush(n) \/ ProcessorDone(n)

(* The node's merger: tasks first, then one increment, then its callback.  *)
NodeTask(n) ==
  LET task == Head(node[n].tasks) IN
  /\ Running(n) /\ node[n].merger = "run"
  /\ node[n].tasks # <<>>
  /\ \/ /\ task.type = "kDisposeModel"
        /\ node' = [node EXCEPT ![n].tasks = Tail(@),
                                ![n].topic_model_inc[task.model] = Nil]
     \/ /\ task.type = "kForcePushTopicModelIncrement"
        /\ node' = [node EXCEPT ![n].merger = "push",
             ![n].models = {m \in Model : node[n].topic_model_inc[m] # Nil}]
     \/ /\ task.type = "kForcePullTopicModel"
        /\ node' = [node EXCEPT ![n].merger = "pull",
             ![n].models = {m \in Model : node[n].topic_model[m] # Nil}]

NodeMerge(n) ==
  LET inc == Head(node[n].merger_queue)
      one == [NoCounts EXCEPT ![inc.batch] = 1]
  IN
  /\ Running(n) /\ node[n].merger = "run"
  /\ node[n].tasks = <<>> /\ node[n].merger_queue # <<>>
  /\ node' = [node EXCEPT ![n].merger_queue = Tail(@), ![n].merger = "report",
                ![n].reported = inc.batch,
                ![n].topic_model_inc[inc.model] =
                  IF node[n].topic_model[inc.model] = Nil THEN @ ELSE Accumulated(@, one)]

NodeMergerThread(n) == NodeTask(n) \/ NodeMerge(n)

\* The task is done: the handler of the node controller replies.
NodeSignal(n) ==
  /\ Running(n) /\ node[n].merger \in {"push", "pull"}
  /\ node[n].models = {}
  /\ node' = [node EXCEPT ![n].merger = "run", ![n].tasks = Tail(@)]
  /\ sync' = TRUE
-----------------------------------------------------------------------------
(* MasterComponentServiceImpl.  RequestBatches takes one batch after       *)
(* another; the sender may have stopped.                                   *)
RequestBatches(n) ==
  /\ node[n].loader = "request"
  /\ Len(node[n].batches) < node[n].want
  /\ \E i \in 1..Len(tasks) :
       /\ NextTask(i)
       /\ node' = [node EXCEPT ![n].batches = Append(@, tasks[i])]
  /\ UNCHANGED mergerVars

RequestBatchesReply(n) ==
  /\ node[n].loader = "request"
  /\ Len(node[n].batches) = node[n].want \/ NoTask
  /\ node' = [node EXCEPT ![n].loader = "answered"]
  /\ UNCHANGED <<batchManagerVars, mergerVars>>

\* Mutant of ReportBatches: the report is lost, and the node goes on.
ReportBatchesLost(n) ==
  /\ node[n].merger = "report"
  /\ node' = [node EXCEPT ![n].merger = "run", ![n].reported = Nil]
  /\ UNCHANGED <<batchManagerVars, mergerVars>>

\* The batch is done for every model, whichever model the increment was of.
ReportBatches(n) ==
  /\ node[n].merger = "report"
  /\ DoneForAll(node[n].reported)
  /\ node' = [node EXCEPT ![n].merger = "run", ![n].reported = Nil]
  /\ UNCHANGED mergerVars

\* Mutant of UpdateModel: the node keeps what it has pushed.
UpdateModelKeep(n) ==
  /\ node[n].merger = "push" /\ node[n].models # {}
  /\ LET m == Min(node[n].models) IN
     /\ merger_queue' =
          Append(merger_queue, [model |-> m, n_wt |-> node[n].topic_model_inc[m]])
     /\ node' = [node EXCEPT ![n].models = IF node[n].up THEN @ \ {m} ELSE {}]
  /\ UNCHANGED <<batchManagerVars, topic_model, topic_model_inc, internal_task_queue, merger>>

\* PushTopicModelIncrement calls it for each model; a stopped node has at most
\* one call under way.
UpdateModel(n) ==
  /\ node[n].merger = "push" /\ node[n].models # {}
  /\ LET m == Min(node[n].models) IN
     /\ merger_queue' =
          Append(merger_queue, [model |-> m, n_wt |-> node[n].topic_model_inc[m]])
     /\ node' = [node EXCEPT ![n].models = IF node[n].up THEN @ \ {m} ELSE {},
                             ![n].topic_model_inc[m] = Nil]
  /\ UNCHANGED <<batchManagerVars, topic_model, topic_model_inc, internal_task_queue, merger>>

\* Mutant of RetrieveModel: answers with the increment instead of the model.
RetrieveIncrement(n) ==
  /\ Running(n) /\ node[n].merger = "pull" /\ node[n].models # {}
  /\ LET m == Min(node[n].models) IN
     node' = [node EXCEPT ![n].models = @ \ {m},
                ![n].topic_model[m] = [n_wt |-> topic_model_inc[m], edition |-> 0],
                ![n].topic_model_inc[m] = Nil]
  /\ UNCHANGED <<batchManagerVars, mergerVars>>

\* PullTopicModel calls it for each model and drops the node's increment.  The
\* master has every model its nodes have.
RetrieveModel(n) ==
  /\ Running(n) /\ node[n].merger = "pull" /\ node[n].models # {}
  /\ LET m == Min(node[n].models) IN
     node' = [node EXCEPT ![n].models = @ \ {m},
                ![n].topic_model[m] = topic_model[m], ![n].topic_model_inc[m] = Nil]
  /\ UNCHANGED <<batchManagerVars, mergerVars>>

Service(n) ==
  \/ RequestBatches(n) \/ RequestBatchesReply(n) \/ ReportBatches(n)
  \/ UpdateModel(n) \/ RetrieveModel(n)
-----------------------------------------------------------------------------
(* The master's merger.  is_idle_ is true exactly in "idle"; waking up for *)
(* nothing is no step.                                                     *)
MergerWake ==
  /\ merger.pc = "idle"
  /\ internal_task_queue # <<>> \/ merger_queue # <<>>
  /\ merger' = [merger EXCEPT !.pc = "run"]
  /\ UNCHANGED <<topic_model, topic_model_inc, merger_queue, internal_task_queue, sync>>

\* PullTopicModel visits the models in order and returns at the first without
\* an increment.
Pulled == {m \in Model : /\ topic_model[m] # Nil
                         /\ \A k \in Model : k <= m /\ topic_model[k] # Nil =>
                                               topic_model_inc[k] # Nil}

MergerTask ==
  LET task == Head(internal_task_queue) IN
  /\ merger.pc = "run"
  /\ internal_task_queue # <<>>
  /\ internal_task_queue' = Tail(internal_task_queue)
  /\ \/ /\ task.type = "kDisposeModel"
        /\ topic_model_inc' = [topic_model_inc EXCEPT ![task.model] = Nil]
        /\ UNCHANGED <<topic_model, sync>>
     \/ /\ task.type = "kForcePushTopicModelIncrement"       \* no service: no-op
        /\ sync' = TRUE
        /\ UNCHANGED <<topic_model, topic_model_inc>>
     \/ /\ task.type = "kForcePullTopicModel"
        /\ topic_model' = [m \in Model |-> IF m \in Pulled
                             THEN [n_wt |-> topic_model_inc[m], edition |-> 0]
                             ELSE topic_model[m]]
        /\ topic_model_inc' = [m \in Model |-> IF m \in Pulled THEN Nil ELSE topic_model_inc[m]]
        /\ sync' = TRUE
  /\ UNCHANGED <<merger_queue, merger>>

MergerPop ==
  /\ merger.pc = "run"
  /\ internal_task_queue = <<>> /\ merger_queue # <<>>
  /\ merger' = [pc |-> "merge", increment |-> Head(merger_queue)]
  /\ merger_queue' = Tail(merger_queue)
  /\ UNCHANGED <<topic_model, topic_model_inc, internal_task_queue, sync>>

MergerMerge ==
  LET m == merger.increment.model IN
  /\ merger.pc = "merge"
  /\ topic_model_inc' =
       [topic_model_inc EXCEPT ![m] = IF topic_model[m] = Nil THEN @
                                      ELSE Accumulated(@, merger.increment.n_wt)]
  /\ merger' = [pc |-> "run", increment |-> Nil]
  /\ UNCHANGED <<topic_model, merger_queue, internal_task_queue, sync>>

MergerIdle ==
  /\ merger.pc = "run"
  /\ internal_task_queue = <<>> /\ merger_queue = <<>>
  /\ merger' = [merger EXCEPT !.pc = "idle"]
  /\ UNCHANGED <<topic_model, topic_model_inc, merger_queue, internal_task_queue, sync>>

MergerThread == MergerWake \/ MergerTask \/ MergerPop \/ MergerMerge \/ MergerIdle
=============================================================================
