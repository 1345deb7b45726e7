---------------------------- MODULE NetworkMode ----------------------------
(***************************************************************************)
(* A master component in network modus operandi: core/master_component.cc  *)
(* with NetworkClientCollection, and the handlers of                       *)
(* core/node_controller_service_impl.cc that it calls.  One thread calls   *)
(* the API; a call goes to one node after another and waits for each.      *)
(***************************************************************************)
EXTENDS NetworkNode

CONSTANTS MayStop, MayRestart,     \* nodes that may stop, and come back
          Calls, QuietCalls,       \* API calls made, made only when quiet
          MaxCalls,                \* bound on the number of calls
          IterationCounts,         \* arguments of InvokeIteration
          NodeSets,                \* config.node_connect_endpoint() of Reconfigure
          InitialNodes,            \* nodes connected when the run starts
          InitialModels,           \* models that exist then
          InitialDisk              \* batches on the disk then

CallNames == {"Reconfigure", "CreateModel", "DisposeModel", "AddBatch", "InvokeIteration",
              "WaitIdle", "Timeout", "InvokePhiRegularizers", "OverwriteTopicModel"}

ASSUME NetworkAssumption ==
  /\ Calls \subseteq CallNames /\ QuietCalls \subseteq Calls
  /\ {"DisposeModel", "Reconfigure"} \cap Calls \subseteq QuietCalls
  /\ MaxCalls \in Nat /\ IterationCounts \subseteq Nat
  /\ NodeSets \subseteq SUBSET Nodes /\ InitialNodes \subseteq Nodes
  /\ InitialModels \subseteq Model /\ InitialDisk \subseteq Batch

VARIABLES disk,                    \* batches in config.disk_path()
          clients,                 \* NetworkClientCollection::clients_
          api,                     \* the thread that calls the master component
          calls,                   \* calls made so far (bounded by MaxCalls)
          due,                     \* ghost: tasks added for m since the last WaitIdle
          quiet                    \* ghost: WaitIdle returned true (without models it
                                   \* does not wait), no iteration since

apiVars == <<disk, clients, api, calls, due, quiet>>
vars == <<schema, batchManagerVars, mergerVars, node, sync, apiVars>>

Api == [pc : {"ready", "create", "dispose", "connect", "disconnect", "configure", "add",
              "refresh", "wait.poll", "wait.push", "wait.idle", "wait.queue", "wait.forced",
              "wait.pulled", "wait.nodes", "wait.done"},
        nodes : SUBSET Nodes, drop : SUBSET Nodes, called : BOOLEAN,
        model : Model \cup {Nil}, batches : SUBSET Batch, iterations : Nat]

Ready == [pc |-> "ready", nodes |-> {}, drop |-> {}, called |-> FALSE,
          model |-> Nil, batches |-> {}, iterations |-> 0]

TypeOK ==
  /\ SchemaTypeOK /\ BatchManagerTypeOK /\ NetworkNodeTypeOK
  /\ disk \subseteq Batch /\ clients \subseteq Nodes
  /\ api \in Api /\ calls \in Nat /\ quiet \in BOOLEAN
  /\ due \in [Model -> Counts]

Init ==
  /\ schema = [m \in Model |-> IF m \in InitialModels THEN "enabled" ELSE "absent"]
  /\ BatchManagerInit
  /\ NetworkNodeInit(InitialNodes, InitialModels)
  /\ disk = InitialDisk /\ clients = InitialNodes
  /\ api = Ready /\ calls = 0
  /\ due = [m \in Model |-> NoCounts]
  /\ quiet = TRUE

-----------------------------------------------------------------------------
Call(name) ==
  /\ api.pc = "ready"
  /\ name \in Calls
  /\ name \in QuietCalls => quiet
  /\ calls < MaxCalls
  /\ calls' = calls + 1

At(pc) == api.pc = pc /\ UNCHANGED calls

Goto(pc) == api' = [api EXCEPT !.pc = pc]

Return == api' = Ready

\* for_each_client: go on with the first of the nodes that are left, which has
\* replied.
NextNode == Min(api.nodes)

NodesLeft == At(api.pc) /\ api.nodes # {} /\ node[NextNode].up

Replied == api' = [api EXCEPT !.nodes = @ \ {NextNode}, !.called = FALSE]

(* ForcePull- and ForcePushTopicModel- of the node controller: a task for  *)
(* the merger of its instance, if it has one.                              *)
Forcing == api.pc \in {"refresh", "wait.push", "wait.nodes"}

NodeForce ==
  LET type == IF api.pc = "wait.push" THEN "kForcePushTopicModelIncrement"
              ELSE "kForcePullTopicModel"
  IN
  /\ Forcing /\ NodesLeft /\ ~api.called
  /\ node[NextNode].instance
  /\ node' = [node EXCEPT ![NextNode].tasks = Append(@, Task(type, Nil))]
  /\ api' = [api EXCEPT !.called = TRUE]
  /\ sync' = FALSE
  /\ UNCHANGED <<schema, batchManagerVars, mergerVars, disk, clients, due, quiet>>

NodeForceNoInstance ==
  /\ Forcing /\ NodesLeft /\ ~api.called
  /\ ~node[NextNode].instance
  /\ Replied
  /\ UNCHANGED <<schema, batchManagerVars, mergerVars, node, sync, disk, clients, due, quiet>>

NodeForced ==
  /\ Forcing /\ NodesLeft /\ api.called
  /\ sync
  /\ Replied
  /\ UNCHANGED <<schema, batchManagerVars, mergerVars, node, sync, disk, clients, due, quiet>>

(* CreateOrReconfigureModel: the master's instance, then each node.  An    *)
(* instance that has the model keeps it.                                   *)
CreateModel(m) ==
  /\ Call("CreateModel")
  /\ schema[m] = "absent"
  /\ topic_model' = [topic_model EXCEPT ![m] = NewModel]
  /\ set_model_config(m, "enabled")
  /\ api' = [api EXCEPT !.pc = "create", !.nodes = clients, !.model = m]
  /\ UNCHANGED <<batchManagerVars, topic_model_inc, merger_queue, internal_task_queue, merger,
                 node, sync, disk, clients, due, quiet>>

\* A model that the master has is created on the nodes that have lost it.
RecreateModel(m) ==
  /\ Call("CreateModel")
  /\ schema[m] # "absent"
  /\ api' = [api EXCEPT !.pc = "create", !.nodes = clients, !.model = m]
  /\ UNCHANGED <<schema, batchManagerVars, mergerVars, node, sync, disk, clients, due, quiet>>

\* A node without an instance refuses (VerifyCurrentState): the call throws.
CreateModelNode ==
  /\ api.pc = "create" /\ NodesLeft
  /\ IF node[NextNode].instance
     THEN /\ node' = [node EXCEPT
               ![NextNode].topic_model[api.model] = IF @ = Nil THEN NewModel ELSE @]
          /\ Replied
     ELSE Return /\ UNCHANGED node
  /\ UNCHANGED <<schema, batchManagerVars, mergerVars, sync, disk, clients, due, quiet>>

(* DisposeModel: schema, merger and batch manager of the master's          *)
(* instance, then each node's.                                             *)
DisposeModel(m) ==
  /\ Call("DisposeModel")
  /\ schema[m] # "absent"
  /\ clear_model_config(m)
  /\ topic_model' = [topic_model EXCEPT ![m] = Nil]
  /\ internal_task_queue' = Append(internal_task_queue, Task("kDisposeModel", m))
  /\ ForgetModel(m)
  /\ api' = [api EXCEPT !.pc = "dispose", !.nodes = clients, !.model = m]
  /\ due' = [due EXCEPT ![m] = NoCounts]
  /\ UNCHANGED <<topic_model_inc, merger_queue, merger, node, sync, disk, clients, quiet>>

DisposeModelNode ==
  /\ api.pc = "dispose" /\ NodesLeft
  /\ node' = [node EXCEPT
       ![NextNode].topic_model[api.model] = Nil,
       ![NextNode].tasks = IF node[NextNode].instance
                           THEN Append(@, Task("kDisposeModel", api.model)) ELSE @]
  /\ Replied
  /\ UNCHANGED <<schema, batchManagerVars, mergerVars, sync, disk, clients, due, quiet>>

(* InvokePhiRegularizers, OverwriteTopicModel: a new model on the master,  *)
(* then every node pulls it.                                               *)
InvokePhiRegularizers ==
  /\ Call("InvokePhiRegularizers")
  /\ topic_model' = [m \in Model |->
       IF m \in GetModelNames /\ topic_model[m] # Nil
       THEN [topic_model[m] EXCEPT !.edition = calls'] ELSE topic_model[m]]
  /\ api' = [api EXCEPT !.pc = "refresh", !.nodes = clients]
  /\ UNCHANGED <<schema, batchManagerVars, topic_model_inc, merger_queue, internal_task_queue,
                 merger, node, sync, disk, clients, due, quiet>>

\* Mutant of OverwriteTopicModel: the nodes are not told.
OverwriteTopicModelLocally(m) ==
  /\ Call("OverwriteTopicModel")
  /\ topic_model[m] # Nil
  /\ topic_model' = [topic_model EXCEPT ![m] = [n_wt |-> NoCounts, edition |-> calls']]
  /\ UNCHANGED <<schema, batchManagerVars, topic_model_inc, merger_queue, internal_task_queue,
                 merger, node, sync, api, disk, clients, due, quiet>>

OverwriteTopicModel(m) ==
  /\ Call("OverwriteTopicModel")
  /\ topic_model[m] # Nil
  /\ topic_model' = [topic_model EXCEPT ![m] = [n_wt |-> NoCounts, edition |-> calls']]
  /\ api' = [api EXCEPT !.pc = "refresh", !.nodes = clients]
  /\ UNCHANGED <<schema, batchManagerVars, topic_model_inc, merger_queue, internal_task_queue,
                 merger, node, sync, disk, clients, due, quiet>>

(* AddBatch saves the batch, InvokeIteration adds every batch on the disk. *)
AddBatch(b) ==
  /\ Call("AddBatch")
  /\ b \notin disk
  /\ disk' = disk \cup {b}
  /\ UNCHANGED <<schema, batchManagerVars, mergerVars, node, sync, clients, api, due, quiet>>

InvokeIteration(n) ==
  /\ Call("InvokeIteration")
  /\ n > 0 /\ disk # {}
  /\ api' = [api EXCEPT !.pc = "add", !.batches = disk, !.iterations = n]
  /\ quiet' = FALSE
  /\ UNCHANGED <<schema, batchManagerVars, mergerVars, node, sync, disk, clients, due>>

InvokeAdd ==
  LET b == Min(api.batches)
      rest == api.batches \ {b}
  IN
  /\ At("add")
  /\ Add(b)
  /\ due' = [m \in Model |-> IF m \in EnabledModels
                             THEN [due[m] EXCEPT ![b] = @ + 1] ELSE due[m]]
  /\ \/ rest # {} /\ api' = [api EXCEPT !.batches = rest]
     \/ /\ rest = {} /\ api.iterations > 1
        /\ api' = [api EXCEPT !.batches = disk, !.iterations = @ - 1]
     \/ rest = {} /\ api.iterations = 1 /\ Return
  /\ UNCHANGED <<schema, mergerVars, node, sync, disk, clients, quiet>>

(* Reconfigure: connect the new endpoints, disconnect the obsolete ones,   *)
(* then CreateOrReconfigureInstance on every client.                       *)
Reconfigure(endpoints) ==
  /\ Call("Reconfigure")
  /\ api' = [api EXCEPT !.pc = "connect", !.nodes = endpoints \ clients,
                        !.drop = clients \ endpoints]
  /\ UNCHANGED <<schema, batchManagerVars, mergerVars, node, sync, disk, clients, due, quiet>>

\* DisposeInstance of the node controller.  ~Instance joins the threads: each
\* one stops at the top of its loop, the merger after emptying its queue.
AtRest(n) ==
  /\ node[n].loader = "poll" /\ node[n].batch = Nil
  /\ node[n].merger = "run" /\ node[n].merger_queue = <<>> /\ node[n].tasks = <<>>

ConnectClient ==
  /\ api.pc = "connect" /\ NodesLeft
  /\ AtRest(NextNode)
  /\ node' = [node EXCEPT ![NextNode] = NoInstance]
  /\ clients' = clients \cup {NextNode}
  /\ Replied
  /\ UNCHANGED <<schema, batchManagerVars, mergerVars, sync, disk, due, quiet>>

DisconnectClient ==
  /\ api.pc = "disconnect" /\ NodesLeft
  /\ AtRest(NextNode)
  /\ node' = [node EXCEPT ![NextNode] = NoInstance]
  /\ clients' = clients \ {NextNode}
  /\ Replied
  /\ UNCHANGED <<schema, batchManagerVars, mergerVars, sync, disk, due, quiet>>

\* An existing instance keeps its models; a new one has none.
ConfigureClient ==
  /\ api.pc = "configure" /\ NodesLeft
  /\ node' = [node EXCEPT ![NextNode].instance = TRUE]
  /\ Replied
  /\ UNCHANGED <<schema, batchManagerVars, mergerVars, sync, disk, clients, due, quiet>>

(* WaitIdle.                                                               *)
WaitIdle ==
  /\ Call("WaitIdle")
  /\ Goto("wait.poll")
  /\ UNCHANGED <<schema, batchManagerVars, mergerVars, node, sync, disk, clients, due, quiet>>

\* Also behind the push of the nodes, when the time is used up whatever the
\* merger does.
WaitTimeout ==
  /\ "Timeout" \in Calls
  /\ \/ At("wait.poll") /\ ~IsEverythingProcessed
     \/ At("wait.idle")
  /\ Return
  /\ UNCHANGED <<schema, batchManagerVars, mergerVars, node, sync, disk, clients, due, quiet>>

\* Mutant of WaitProcessed: waits for the list of tasks only.
WaitTaken ==
  /\ At("wait.poll")
  /\ tasks = <<>>
  /\ api' = [api EXCEPT !.pc = "wait.push", !.nodes = clients]
  /\ UNCHANGED <<schema, batchManagerVars, mergerVars, node, sync, disk, clients, due, quiet>>

WaitProcessed ==
  /\ At("wait.poll")
  /\ IsEverythingProcessed
  /\ api' = [api EXCEPT !.pc = "wait.push", !.nodes = clients]
  /\ UNCHANGED <<schema, batchManagerVars, mergerVars, node, sync, disk, clients, due, quiet>>

\* Merger::WaitIdle reads is_idle_ and then the queue.
WaitIsIdle ==
  /\ At("wait.idle")
  /\ merger.pc = "idle"
  /\ Goto("wait.queue")
  /\ UNCHANGED <<schema, batchManagerVars, mergerVars, node, sync, disk, clients, due, quiet>>

WaitQueueNotEmpty ==
  /\ At("wait.queue")
  /\ merger_queue # <<>>
  /\ Goto("wait.idle")
  /\ UNCHANGED <<schema, batchManagerVars, mergerVars, node, sync, disk, clients, due, quiet>>

ForceTask(type) ==
  /\ internal_task_queue' = Append(internal_task_queue, Task(type, Nil))
  /\ sync' = FALSE

WaitPush ==
  /\ At("wait.queue")
  /\ merger_queue = <<>>
  /\ ForceTask("kForcePushTopicModelIncrement")
  /\ Goto("wait.forced")
  /\ UNCHANGED <<schema, batchManagerVars, topic_model, topic_model_inc, merger_queue, merger,
                 node, disk, clients, due, quiet>>

WaitPull ==
  /\ At("wait.forced")
  /\ sync
  /\ ForceTask("kForcePullTopicModel")
  /\ Goto("wait.pulled")
  /\ UNCHANGED <<schema, batchManagerVars, topic_model, topic_model_inc, merger_queue, merger,
                 node, disk, clients, due, quiet>>

WaitPulled ==
  /\ At("wait.pulled")
  /\ sync
  /\ api' = [api EXCEPT !.pc = "wait.nodes", !.nodes = clients]
  /\ UNCHANGED <<schema, batchManagerVars, mergerVars, node, sync, disk, clients, due, quiet>>

\* Every node has replied: the call goes on.
NodesDone ==
  /\ At(api.pc) /\ api.nodes = {}
  /\ \/ api.pc \in {"create", "dispose", "refresh", "configure"} /\ Return
     \/ api.pc = "connect" /\ api' = [api EXCEPT !.pc = "disconnect", !.nodes = api.drop]
     \/ api.pc = "disconnect" /\ api' = [api EXCEPT !.pc = "configure", !.nodes = clients]
     \/ api.pc = "wait.push" /\ Goto("wait.idle")
     \/ api.pc = "wait.nodes" /\ Goto("wait.done")
  /\ UNCHANGED <<schema, batchManagerVars, mergerVars, node, sync, disk, clients, due, quiet>>

WaitReturn ==
  /\ At("wait.done")
  /\ Return
  /\ due' = [m \in Model |-> NoCounts]
  /\ quiet' = (quiet \/ EnabledModels # {})
  /\ UNCHANGED <<schema, batchManagerVars, mergerVars, node, sync, disk, clients>>

-----------------------------------------------------------------------------
ApiCall ==
  \/ \E endpoints \in NodeSets : Reconfigure(endpoints)
  \/ \E m \in Model : \/ CreateModel(m) \/ RecreateModel(m)
                     \/ DisposeModel(m) \/ OverwriteTopicModel(m)
  \/ \E b \in Batch : AddBatch(b)
  \/ InvokePhiRegularizers
  \/ \E n \in IterationCounts : InvokeIteration(n)
  \/ WaitIdle

\* The rest of a call that has begun.
ApiThread ==
  \/ NodeForce \/ NodeForceNoInstance \/ NodeForced \/ NodesDone
  \/ CreateModelNode \/ DisposeModelNode
  \/ ConnectClient \/ DisconnectClient \/ ConfigureClient
  \/ InvokeAdd
  \/ WaitTimeout \/ WaitProcessed \/ WaitIsIdle \/ WaitQueueNotEmpty \/ WaitPush
  \/ WaitPull \/ WaitPulled \/ WaitReturn

MergerStep ==
  /\ MergerThread
  /\ UNCHANGED <<schema, batchManagerVars, node, apiVars>>

ServiceStep(n) ==
  /\ Service(n)
  /\ UNCHANGED <<schema, sync, apiVars>>

NodeThread(n) ==
  \/ (LoaderThread(n) \/ ProcessorThread(n) \/ NodeMergerThread(n)) /\ UNCHANGED sync
  \/ NodeSignal(n)

NodeStep(n) ==
  /\ NodeThread(n)
  /\ UNCHANGED <<schema, batchManagerVars, mergerVars, apiVars>>

\* A node's process ends; requests it has sent may still be handled.
Stop(n) ==
  /\ n \in MayStop
  /\ node[n].up
  /\ node' = [node EXCEPT ![n].up = FALSE]
  /\ UNCHANGED <<schema, batchManagerVars, mergerVars, sync, apiVars>>

\* It is started again, and the master's channel to it reconnects.
Restart(n) ==
  /\ n \in MayRestart
  /\ ~node[n].up
  /\ node' = [node EXCEPT ![n] = NoInstance]
  /\ UNCHANGED <<schema, batchManagerVars, mergerVars, sync, apiVars>>

Next ==
  \/ ApiCall
  \/ ApiThread
  \/ MergerStep
  \/ \E n \in Nodes : ServiceStep(n) \/ NodeStep(n) \/ Stop(n) \/ Restart(n)

Spec == Init /\ [][Next]_vars

\* Threads that wait poll or are woken; a request that was sent is handled.  No
\* node has to stop, and no call is ever owed.
FairSpec ==
  /\ Spec
  /\ WF_vars(ApiThread)
  /\ WF_vars(MergerStep)
  /\ \A n \in Nodes :
       /\ WF_vars((RequestBatches(n) \/ RequestBatchesReply(n)) /\ ServiceStep(n))
       /\ WF_vars((ReportBatches(n) \/ UpdateModel(n) \/ RetrieveModel(n)) /\ ServiceStep(n))
       /\ WF_vars(LoaderThread(n) /\ NodeStep(n))
       /\ WF_vars(ProcessorThread(n) /\ NodeStep(n))
       /\ WF_vars((NodeMergerThread(n) \/ NodeSignal(n)) /\ NodeStep(n))
=============================================================================
