----------------------------- MODULE MasterProxy -----------------------------
(***************************************************************************)
(* MasterProxy (core/master_proxy.cc) and the C interface's calls that     *)
(* create, use and dispose of master components (c_interface.cc).  Several *)
(* threads call; an RPC may be lost, or time out with the request still    *)
(* waiting at the node or its reply on the way.                            *)
(***************************************************************************)
EXTENDS NodeService

CONSTANTS Calls,                   \* API calls that are made
          MaxCalls                 \* bound on their number

CallNames == {"CreateMasterComponent", "CreateMasterProxy", "Dispose", "CreateModel",
              "InvokeIteration", "WaitIdle", "WaitIdleTimeout", "Connect"}

ASSUME ProxyAssumption == Calls \subseteq CallNames /\ MaxCalls \in Nat

VARIABLES client,                  \* the API threads
          known,                   \* ghost: objects that the application was given
                                   \* and has not disposed of, by id
          calls                    \* API calls made (bounded by MaxCalls)

vars == <<managerVars, serviceVars, client, known, calls>>

Object == [kind : {"component", "proxy", "hosted"}, node : Nodes \cup {Nil}, owner : Thread]

\* A thread, and the shared_ptr that it holds in the middle of a call.
Client == [pc : {"ready", "create", "use", "destroy"}, id : Nat \cup {Nil},
           node : Nodes \cup {Nil}]

Ready == [pc |-> "ready", id |-> Nil, node |-> Nil]

TypeOK ==
  /\ map_ \in [DOMAIN map_ -> Object] /\ DOMAIN map_ \subseteq Nat /\ next_id_ \in Nat
  /\ building \in [Thread -> [id : Nat, object : Object] \cup {Nil}]
  /\ master_ \in [Nodes -> Nat \cup {Nil}] /\ instance_ \in [Nodes -> BOOLEAN]
  /\ working \in [Nodes -> BOOLEAN] /\ handler \in [Nodes -> Handler]
  /\ rpc \in [Clients -> Rpc]
  /\ late \in [Nodes -> [Methods -> Nat]]
  /\ client \in [Clients -> Client] /\ calls \in Nat
  /\ known \in [DOMAIN known -> Object]

Init ==
  /\ TemplateManagerInit /\ ServiceInit
  /\ client = [c \in Clients |-> Ready]
  /\ known = [i \in {} |-> Nil] /\ calls = 0

-----------------------------------------------------------------------------
Call(name) == name \in Calls /\ calls < MaxCalls /\ calls' = calls + 1

CallOf(c, name) == client[c].pc = "ready" /\ Call(name)

\* ArtmCreateMasterComponent: Create<MasterComponent>.
CreateMasterComponentLocally(c) ==
  /\ CallOf(c, "CreateMasterComponent")
  /\ Reserve(c, [kind |-> "component", node |-> Nil, owner |-> c])
  /\ client' = [client EXCEPT ![c].pc = "create"]
  /\ UNCHANGED <<serviceVars, known>>

\* Mutant of Construction: the node is not reset.
ConstructionUnreset(n) == Calling(n, <<"DisposeInstance", "CreateMasterComponent">>)

\* Mutant of Construction: calls the service for instances.
ConstructionInstance(n) ==
  Calling(n, <<"DisposeInstance", "DisposeMasterComponent", "CreateInstance">>)

\* The constructor resets the node before it creates the component there.
Construction(n) ==
  Calling(n, <<"DisposeInstance", "DisposeMasterComponent", "CreateMasterComponent">>)

\* ArtmCreateMasterProxy: Create<MasterProxy>, whose constructor makes RPCs.
CreateMasterProxy(c, n) ==
  /\ CallOf(c, "CreateMasterProxy")
  /\ Reserve(c, [kind |-> "proxy", node |-> n, owner |-> c])
  /\ client' = [client EXCEPT ![c].pc = "create", ![c].node = n]
  /\ rpc' = [rpc EXCEPT ![c] = Construction(n)]
  /\ UNCHANGED <<nodeVars, late, known>>

\* The call of the API returns.
Returning(c) ==
  /\ client' = [client EXCEPT ![c] = Ready]
  /\ rpc' = [rpc EXCEPT ![c] = NoRpc]

\* The object is constructed: the second half of Create, which returns the id.
CreateReturn(c) ==
  /\ client[c].pc = "create" /\ ~HasCall(c)
  /\ Insert(c)
  /\ known' = [i \in DOMAIN known \cup {building[c].id} |->
                 IF i = building[c].id THEN building[c].object ELSE known[i]]
  /\ Returning(c)
  /\ UNCHANGED <<nodeVars, late, calls>>

\* The last reference to a proxy is gone: ~MasterProxy.
Held(id, c) ==
  id \in DOMAIN map_ \/ \E other \in Clients \ {c} : client[other].id = id

Destroying(c, n) ==
  /\ client' = [client EXCEPT ![c] = [pc |-> "destroy", id |-> Nil, node |-> n]]
  /\ rpc' = [rpc EXCEPT ![c] = Calling(n, <<"DisposeMasterComponent">>)]

\* ArtmDisposeMasterComponent: Erase; a thread that is in a call of the object
\* keeps it, and then destroys it.
ArtmDisposeMasterComponent(c, id) ==
  /\ CallOf(c, "Dispose")
  /\ Erase(id)
  /\ known' = Restrict(known, DOMAIN known \ {id})
  /\ IF known[id].kind = "proxy" /\ \A other \in Clients : client[other].id # id
     THEN Destroying(c, known[id].node)
     ELSE Returning(c)
  /\ UNCHANGED <<nodeVars, late>>

\* A call through a proxy: Get, and one RPC.
Use(c, id, method) ==
  /\ CallOf(c, method)
  /\ known[id].kind = "proxy"
  /\ client' = [client EXCEPT ![c] = [pc |-> "use", id |-> id, node |-> known[id].node]]
  /\ rpc' = [rpc EXCEPT ![c] = Calling(known[id].node, <<method>>)]
  /\ UNCHANGED <<managerVars, nodeVars, late, known>>

-----------------------------------------------------------------------------
\* An RPC returns: go on with the next one.
Receive(c) ==
  /\ HasCall(c) /\ rpc[c].state = "done"
  /\ rpc' = [rpc EXCEPT ![c].methods = Tail(@), ![c].state = "sent"]
  /\ UNCHANGED <<managerVars, nodeVars, late, client, known, calls>>

\* The call of an existing object is over: release it.
Release(c) ==
  IF Held(client[c].id, c) THEN Returning(c) ELSE Destroying(c, client[c].node)

UseReturn(c) ==
  /\ client[c].pc = "use" /\ ~HasCall(c)
  /\ Release(c)
  /\ UNCHANGED <<managerVars, nodeVars, late, known, calls>>

DestroyReturn(c) ==
  /\ client[c].pc = "destroy" /\ ~HasCall(c)
  /\ Returning(c)
  /\ UNCHANGED <<managerVars, nodeVars, late, known, calls>>

\* WaitIdle sleeps and asks again ...
PollAgain(c) ==
  /\ HasCall(c) /\ rpc[c].state = "still"
  /\ rpc' = [rpc EXCEPT ![c].state = "sent"]
  /\ UNCHANGED <<managerVars, nodeVars, late, client, known, calls>>

\* ... unless its own timeout is over.
WaitIdleTimeout(c) ==
  /\ HasCall(c) /\ rpc[c].state = "still"
  /\ "WaitIdleTimeout" \in Calls
  /\ Release(c)
  /\ UNCHANGED <<managerVars, nodeVars, late, known, calls>>

\* rpc_error: a constructor gives up its object, a call releases it, and a
\* destructor ignores the error.
Fail(c) ==
  \/ /\ client[c].pc = "create"
     /\ Abandon(c) /\ Returning(c)
  \/ /\ client[c].pc = "use"
     /\ Release(c) /\ UNCHANGED managerVars
  \/ /\ client[c].pc = "destroy"
     /\ Returning(c) /\ UNCHANGED managerVars

Error(c) ==
  /\ HasCall(c) /\ rpc[c].state = "error"
  /\ Fail(c)
  /\ UNCHANGED <<nodeVars, late, known, calls>>

\* communication_timeout: the request is lost, still waiting, or being served,
\* or its reply is lost.
Timeout(c) ==
  /\ HasCall(c)
  /\ Fail(c)
  /\ \/ late' = late
     \/ /\ rpc[c].state = "sent"
        /\ late' = [late EXCEPT ![rpc[c].node][Head(rpc[c].methods)] = @ + 1]
  /\ handler' = [n \in Nodes |-> IF handler[n].from = c
                                 THEN [handler[n] EXCEPT !.from = Nil] ELSE handler[n]]
  /\ UNCHANGED <<master_, instance_, working, known, calls>>

TimeoutUnanswered(c) == rpc[c].state = "unanswered" /\ Timeout(c)

-----------------------------------------------------------------------------
ApiCall(c) ==
  \/ CreateMasterComponentLocally(c)
  \/ \E n \in Nodes : CreateMasterProxy(c, n)
  \/ \E id \in DOMAIN known :
       \/ ArtmDisposeMasterComponent(c, id)
       \/ \E method \in {"CreateModel", "InvokeIteration", "WaitIdle"} : Use(c, id, method)

ClientStep(c) ==
  \/ CreateReturn(c) \/ Receive(c) \/ UseReturn(c) \/ DestroyReturn(c)
  \/ PollAgain(c) \/ WaitIdleTimeout(c) \/ Error(c)

Connect(n) ==
  /\ Call("Connect") /\ CreateOrReconfigureInstance(n)
  /\ UNCHANGED <<client, known>>

NodeStep(n) ==
  /\ \/ Handle(n)
     \/ \E c \in Clients : Accept(n, c)
     \/ \E m \in Methods : AcceptLate(n, m)
  /\ UNCHANGED <<client, known, calls>>

Finished(n) == Finish(n) /\ UNCHANGED <<client, known, calls>>

Next ==
  \/ \E c \in Clients : ApiCall(c) \/ ClientStep(c) \/ Timeout(c)
  \/ \E n \in Nodes : NodeStep(n) \/ Finished(n) \/ Connect(n)

Spec == Init /\ [][Next]_vars

\* Threads go on; a timeout is counted on only where no reply will ever come.
FairSpec ==
  /\ Spec
  /\ \A c \in Clients : WF_vars(ClientStep(c)) /\ WF_vars(TimeoutUnanswered(c))
  /\ \A n \in Nodes : WF_vars(NodeStep(n)) /\ WF_vars(Finished(n))

-----------------------------------------------------------------------------
\* template_manager.h:60 "Create an object and returns its ID": what a client was
\* given is what the manager has under that id, until the client disposes of it,
\* though ids are taken and objects inserted in two locked sections by many
\* threads, the node's own included.
NothingLost ==
  \A i \in DOMAIN known : i \in DOMAIN map_ /\ map_[i] = known[i]

\* node_controller_service_impl.h "Currently node controller supports only one
\* Instance or MasterComponent per node": outside a handler the manager has
\* exactly the component that the node refers to; no reset leaves one behind.
HostedBy(n) == {i \in DOMAIN map_ : map_[i].kind = "hosted" /\ map_[i].node = n}

OneHosted ==
  \A n \in Nodes : handler[n].pc = "free" => HostedBy(n) = {master_[n]} \ {Nil}

\* c_interface.txt:78 "a new Master Component is started on the remote Node
\* Controller": the component that a proxy reaches was created after the proxy's
\* construction had begun (ids grow), and is no leftover of an earlier proxy whose
\* constructor failed or whose destructor's request was lost.  That the node has a
\* component at all is not promised: a reset that comes late takes it away.
ProxyFresh ==
  \A i \in DOMAIN known :
    known[i].kind = "proxy" => LET m == master_[known[i].node] IN m # Nil => m > i

\* Every call returns, without a timeout that would break a cycle of threads
\* waiting for the manager, the node's lock and each other.
CallsReturn == \A c \in Clients : client[c].pc # "ready" ~> client[c].pc = "ready"
=============================================================================
