----------------------------- MODULE NodeService -----------------------------
(***************************************************************************)
(* NodeControllerServiceImpl (core/node_controller_service_impl.cc) as a   *)
(* MasterProxy calls it: a node controller that hosts one master component *)
(* or one instance.  Requests wait for lock_ in any order, also those whose*)
(* caller has given up.  The node lives in the process of the callers, as  *)
(* in the tests, so that it shares their MasterComponentManager.           *)
(***************************************************************************)
EXTENDS TemplateManager, Sequences

CONSTANTS Nodes, Clients           \* node controllers; threads that call them

ASSUME ServiceAssumption ==
  Thread = Nodes \cup Clients /\ Nodes \cap Clients = {} /\ Nil \notin Thread \cup Int

VARIABLES master_, instance_,      \* per node: id of the component, BOOLEAN
          working,                 \* per node: the component has batches to process
          handler,                 \* per node: the request that holds lock_
          rpc,                     \* per client: the calls it has to make
          late                     \* requests whose caller does not wait any more

nodeVars == <<master_, instance_, working, handler>>
serviceVars == <<nodeVars, rpc, late>>

Methods == {"DisposeInstance", "DisposeMasterComponent", "CreateMasterComponent",
            "CreateModel", "InvokeIteration", "WaitIdle"}

Handler == [pc : {"free", "begin", "erased", "creating", "created"},
            method : Methods \cup {Nil}, from : Clients \cup {Nil}, id : Nat \cup {Nil}]

Free == [pc |-> "free", method |-> Nil, from |-> Nil, id |-> Nil]

Rpc == [node : Nodes \cup {Nil}, methods : Seq(Methods),
        state : {"sent", "serving", "done", "still", "error", "unanswered"}]

NoRpc == [node |-> Nil, methods |-> <<>>, state |-> "sent"]

Calling(n, methods) == [node |-> n, methods |-> methods, state |-> "sent"]

ServiceInit ==
  /\ master_ = [n \in Nodes |-> Nil]
  /\ instance_ = [n \in Nodes |-> FALSE]
  /\ working = [n \in Nodes |-> FALSE]
  /\ handler = [n \in Nodes |-> Free]
  /\ rpc = [c \in Clients |-> NoRpc]
  /\ late = [n \in Nodes |-> [m \in Methods |-> 0]]

HasCall(c) == rpc[c].methods # <<>>

-----------------------------------------------------------------------------
\* A thread of the server takes lock_ for a request.
Begin(m, c) == [pc |-> "begin", method |-> m, from |-> c, id |-> Nil]

Accept(n, c) ==
  /\ handler[n].pc = "free"
  /\ HasCall(c) /\ rpc[c].node = n /\ rpc[c].state = "sent"
  /\ handler' = [handler EXCEPT ![n] = Begin(Head(rpc[c].methods), c)]
  /\ rpc' = [rpc EXCEPT ![c].state = "serving"]
  /\ UNCHANGED <<managerVars, master_, instance_, working, late>>

AcceptLate(n, m) ==
  /\ handler[n].pc = "free"
  /\ late[n][m] > 0
  /\ handler' = [handler EXCEPT ![n] = Begin(m, Nil)]
  /\ late' = [late EXCEPT ![n][m] = @ - 1]
  /\ UNCHANGED <<managerVars, master_, instance_, working, rpc>>

Handles(n, m, pc) == handler[n].pc = pc /\ handler[n].method = m

\* response.send or response.Error, and the lock is released.
Reply(n, answer) ==
  /\ rpc' = IF handler[n].from = Nil THEN rpc
            ELSE [rpc EXCEPT ![handler[n].from].state = answer]
  /\ handler' = [handler EXCEPT ![n] = Free]
  /\ UNCHANGED late

DisposeInstance(n) ==
  /\ Handles(n, "DisposeInstance", "begin")
  /\ instance_' = [instance_ EXCEPT ![n] = FALSE]
  /\ Reply(n, "done")
  /\ UNCHANGED <<managerVars, master_, working>>

DisposeMasterComponentNone(n) ==
  /\ Handles(n, "DisposeMasterComponent", "begin")
  /\ master_[n] = Nil
  /\ Reply(n, "done")
  /\ UNCHANGED <<managerVars, master_, instance_, working>>

\* Mutant of DisposeMasterComponentErase: master_.reset() only.
DisposeMasterComponentKeep(n) ==
  /\ Handles(n, "DisposeMasterComponent", "begin")
  /\ master_[n] # Nil
  /\ handler' = [handler EXCEPT ![n].pc = "erased"]
  /\ UNCHANGED <<managerVars, master_, instance_, working, rpc, late>>

\* mcm.Erase(master_->id()): the service still refers to the object.
DisposeMasterComponentErase(n) ==
  /\ Handles(n, "DisposeMasterComponent", "begin")
  /\ master_[n] # Nil
  /\ Erase(master_[n])
  /\ handler' = [handler EXCEPT ![n].pc = "erased"]
  /\ UNCHANGED <<master_, instance_, working, rpc, late>>

\* master_.reset(): the destructor ends the iteration.
DisposeMasterComponentReset(n) ==
  /\ Handles(n, "DisposeMasterComponent", "erased")
  /\ master_' = [master_ EXCEPT ![n] = Nil]
  /\ working' = [working EXCEPT ![n] = FALSE]
  /\ Reply(n, "done")
  /\ UNCHANGED <<managerVars, instance_>>

CreateMasterComponentReconfigure(n) ==
  /\ Handles(n, "CreateMasterComponent", "begin")
  /\ master_[n] # Nil
  /\ Reply(n, "done")
  /\ UNCHANGED <<managerVars, master_, instance_, working>>

CreateMasterComponent(n) ==
  /\ Handles(n, "CreateMasterComponent", "begin")
  /\ master_[n] = Nil
  /\ Reserve(n, [kind |-> "hosted", node |-> n, owner |-> n])
  /\ handler' = [handler EXCEPT ![n].pc = "creating"]
  /\ UNCHANGED <<master_, instance_, working, rpc, late>>

CreateMasterComponentInsert(n) ==
  /\ Handles(n, "CreateMasterComponent", "creating")
  /\ Insert(n)
  /\ handler' = [handler EXCEPT ![n] =
       [pc |-> "created", method |-> @.method, from |-> @.from, id |-> building[n].id]]
  /\ UNCHANGED <<master_, instance_, working, rpc, late>>

\* master_ = mcm.Get(master_id)
CreateMasterComponentGet(n) ==
  /\ Handles(n, "CreateMasterComponent", "created")
  /\ master_' = [master_ EXCEPT
       ![n] = IF handler[n].id \in DOMAIN map_ THEN handler[n].id ELSE Nil]
  /\ Reply(n, "done")
  /\ UNCHANGED <<managerVars, instance_, working>>

\* VerifyCurrentState throws when the node hosts nothing, or both.
CreateModel(n) ==
  /\ Handles(n, "CreateModel", "begin")
  /\ Reply(n, IF instance_[n] = (master_[n] # Nil) THEN "error" ELSE "done")
  /\ UNCHANGED <<managerVars, master_, instance_, working>>

\* Without a master component the handler logs an error and reports success.
InvokeIteration(n) ==
  /\ Handles(n, "InvokeIteration", "begin")
  /\ working' = [working EXCEPT ![n] = (master_[n] # Nil)]
  /\ Reply(n, "done")
  /\ UNCHANGED <<managerVars, master_, instance_>>

\* Without a master component the handler sends no reply at all.
WaitIdle(n) ==
  /\ Handles(n, "WaitIdle", "begin")
  /\ Reply(n, CASE master_[n] = Nil -> "unanswered"
                [] master_[n] # Nil /\ working[n] -> "still"
                [] OTHER -> "done")
  /\ UNCHANGED <<managerVars, master_, instance_, working>>

Handle(n) ==
  \/ DisposeInstance(n) \/ DisposeMasterComponentNone(n)
  \/ DisposeMasterComponentErase(n) \/ DisposeMasterComponentReset(n)
  \/ CreateMasterComponentReconfigure(n) \/ CreateMasterComponent(n)
  \/ CreateMasterComponentInsert(n) \/ CreateMasterComponentGet(n)
  \/ CreateModel(n) \/ InvokeIteration(n) \/ WaitIdle(n)

\* The hosted component has processed its batches (LocalInstance).
Finish(n) ==
  /\ working[n]
  /\ working' = [working EXCEPT ![n] = FALSE]
  /\ UNCHANGED <<managerVars, master_, instance_, handler, rpc, late>>

\* A master component elsewhere connects to this node.
CreateOrReconfigureInstance(n) ==
  /\ handler[n].pc = "free"
  /\ instance_' = [instance_ EXCEPT ![n] = TRUE]
  /\ UNCHANGED <<managerVars, master_, working, handler, rpc, late>>
=============================================================================
