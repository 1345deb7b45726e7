-------------------------- MODULE MasterProxyProofs --------------------------
(***************************************************************************)
(* Ids are unique, what is registered stays, a node has one component, and *)
(* the component that a proxy reaches is younger than the proxy.           *)
(***************************************************************************)
EXTENDS MasterProxy, FiniteSetTheorems, TLAPS

\* The ids in use are below next_id_ and used once.
IdsOK ==
  /\ next_id_ \in Nat \ {0}
  /\ building \in [Thread -> [id : Nat, object : Object] \cup {Nil}]
  /\ DOMAIN map_ \subseteq 0..(next_id_ - 1)
  /\ \A t \in Thread : building[t] # Nil =>
       building[t].id < next_id_ /\ building[t].id \notin DOMAIN map_
  /\ \A t, u \in Thread :
       building[t] # Nil /\ building[u] # Nil /\ t # u => building[t].id # building[u].id

\* Only a node constructs a hosted component, and only for itself.
BuildingOK ==
  /\ \A c \in Clients : building[c] # Nil => building[c].object.kind # "hosted"
  /\ \A n \in Nodes : building[n] # Nil =>
       building[n].object.kind = "hosted" /\ building[n].object.node = n

KnownOK ==
  /\ NothingLost
  /\ \A i \in DOMAIN known : known[i].kind # "hosted"

\* What the manager has for a node, at each point of its handler.
HostedOK ==
  \A n \in Nodes :
    /\ handler[n].pc \in {"free", "begin", "creating"} => HostedBy(n) = {master_[n]} \ {Nil}
    /\ handler[n].pc \in {"creating", "created"} => master_[n] = Nil
    /\ handler[n].pc = "erased" => HostedBy(n) = {}
    /\ handler[n].pc = "created" => handler[n].id # Nil /\ HostedBy(n) = {handler[n].id}

NodeTypeOK ==
  /\ master_ \in [Nodes -> Nat \cup {Nil}]
  /\ handler \in [Nodes -> Handler]

ManagerInv == IdsOK /\ BuildingOK /\ KnownOK /\ HostedOK /\ NodeTypeOK

ProxyInv == TypeOK /\ ManagerInv

-----------------------------------------------------------------------------
\* The manager: no id in the map is at or above next_id_, so the search for a
\* free one ends at once, and every id is new.
LEMMA FreeIdIsNext ==
  ASSUME IdsOK
  PROVE  FreeId = next_id_
<1>1. IsFiniteSet(DOMAIN map_)
  <2>1. IsFiniteSet(0..(next_id_ - 1))
    BY FS_Interval DEF IdsOK
  <2>2. QED BY <2>1, FS_Subset DEF IdsOK
<1>2. Cardinality(DOMAIN map_) \in Nat
  BY <1>1, FS_CardinalityType
<1>3. next_id_ \notin DOMAIN map_
  BY DEF IdsOK
<1>4. next_id_ \in next_id_..(next_id_ + Cardinality(DOMAIN map_))
  BY <1>2 DEF IdsOK
<1>5. \A j \in next_id_..(next_id_ - 1) : j \in DOMAIN map_
  BY DEF IdsOK
<1>6. \A i \in next_id_..(next_id_ + Cardinality(DOMAIN map_)) :
        (\A j \in next_id_..(i - 1) : j \in DOMAIN map_) => i = next_id_
  <2>1. SUFFICES ASSUME NEW i \in next_id_..(next_id_ + Cardinality(DOMAIN map_)),
                        \A j \in next_id_..(i - 1) : j \in DOMAIN map_,
                        i # next_id_
                 PROVE  FALSE
    OBVIOUS
  <2>2. next_id_ \in next_id_..(i - 1)
    BY <1>2, <2>1 DEF IdsOK
  <2>3. QED BY <1>3, <2>1, <2>2
<1>7. QED BY <1>3, <1>4, <1>5, <1>6 DEF FreeId

\* Create's first locked section.
LEMMA ReserveOK ==
  ASSUME IdsOK, NEW t \in Thread, NEW object \in Object, Reserve(t, object)
  PROVE  /\ IdsOK' /\ map_' = map_
         /\ building' = [building EXCEPT ![t] = [id |-> next_id_, object |-> object]]
<1>1. /\ next_id_' = next_id_ + 1 /\ map_' = map_
      /\ building' = [building EXCEPT ![t] = [id |-> next_id_, object |-> object]]
  BY FreeIdIsNext DEF Reserve
<1>2. next_id_ \in Nat /\ [id |-> next_id_, object |-> object] \in [id : Nat, object : Object]
  BY DEF IdsOK
<1>3. building' \in [Thread -> [id : Nat, object : Object] \cup {Nil}]
  BY <1>1, <1>2 DEF IdsOK
<1>4. \A u \in Thread : building[u] # Nil => building[u].id \in Nat
  BY DEF IdsOK
<1>5. \A u \in Thread : building'[u] # Nil =>
        building'[u].id < next_id_' /\ building'[u].id \notin DOMAIN map_'
  BY <1>1, <1>2, <1>4 DEF IdsOK
<1>6. \A u, v \in Thread :
        building'[u] # Nil /\ building'[v] # Nil /\ u # v => building'[u].id # building'[v].id
  BY <1>1, <1>2, <1>4 DEF IdsOK
<1>7. DOMAIN map_' \subseteq 0..(next_id_' - 1)
  BY <1>1, <1>2 DEF IdsOK
<1>8. next_id_' \in Nat \ {0}
  BY <1>1, <1>2 DEF IdsOK
<1>9. QED BY <1>1, <1>3, <1>5, <1>6, <1>7, <1>8 DEF IdsOK

\* Create's second locked section: nothing is there under the id.
LEMMA InsertOK ==
  ASSUME IdsOK, NEW t \in Thread, Insert(t)
  PROVE  /\ IdsOK' /\ building[t] # Nil
         /\ building' = [building EXCEPT ![t] = Nil]
         /\ building[t].id \notin DOMAIN map_ /\ building[t].id \in Nat
         /\ DOMAIN map_' = DOMAIN map_ \cup {building[t].id}
         /\ map_'[building[t].id] = building[t].object
         /\ \A i \in DOMAIN map_ : map_'[i] = map_[i]
<1>1. /\ building[t] # Nil /\ next_id_' = next_id_
      /\ building' = [building EXCEPT ![t] = Nil]
      /\ map_' = [i \in DOMAIN map_ \cup {building[t].id} |->
                    IF i \in DOMAIN map_ THEN map_[i] ELSE building[t].object]
  BY DEF Insert
<1>2. building[t].id \notin DOMAIN map_ /\ building[t].id \in Nat /\ building[t].id < next_id_
  BY <1>1 DEF IdsOK
<1>3. /\ DOMAIN map_' = DOMAIN map_ \cup {building[t].id}
      /\ map_'[building[t].id] = building[t].object
      /\ \A i \in DOMAIN map_ : map_'[i] = map_[i]
  BY <1>1, <1>2
<1>4. building' \in [Thread -> [id : Nat, object : Object] \cup {Nil}]
  BY <1>1 DEF IdsOK
<1>5. DOMAIN map_' \subseteq 0..(next_id_' - 1)
  BY <1>1, <1>2, <1>3 DEF IdsOK
<1>6. \A u \in Thread : building'[u] # Nil => u # t /\ building'[u] = building[u]
  BY <1>1 DEF IdsOK
<1>7. \A u \in Thread : building'[u] # Nil =>
        building'[u].id < next_id_' /\ building'[u].id \notin DOMAIN map_'
  BY <1>1, <1>3, <1>6 DEF IdsOK
<1>8. \A u, v \in Thread :
        building'[u] # Nil /\ building'[v] # Nil /\ u # v => building'[u].id # building'[v].id
  BY <1>6 DEF IdsOK
<1>9. QED BY <1>1, <1>2, <1>3, <1>4, <1>5, <1>7, <1>8 DEF IdsOK

LEMMA EraseOK ==
  ASSUME IdsOK, NEW id, Erase(id)
  PROVE  /\ IdsOK' /\ building' = building
         /\ DOMAIN map_' = DOMAIN map_ \ {id}
         /\ \A i \in DOMAIN map_ \ {id} : map_'[i] = map_[i]
<1>1. /\ map_' = [i \in DOMAIN map_ \ {id} |-> map_[i]]
      /\ next_id_' = next_id_ /\ building' = building
  BY DEF Erase, Restrict
<1>2. /\ DOMAIN map_' = DOMAIN map_ \ {id}
      /\ \A i \in DOMAIN map_ \ {id} : map_'[i] = map_[i]
  BY <1>1
<1>3. QED BY <1>1, <1>2 DEF IdsOK

LEMMA AbandonOK ==
  ASSUME IdsOK, NEW t \in Thread, Abandon(t)
  PROVE  IdsOK' /\ map_' = map_ /\ building' = [building EXCEPT ![t] = Nil]
<1>1. map_' = map_ /\ next_id_' = next_id_ /\ building' = [building EXCEPT ![t] = Nil]
  BY DEF Abandon
<1>2. building' \in [Thread -> [id : Nat, object : Object] \cup {Nil}]
  BY <1>1 DEF IdsOK
<1>3. \A u \in Thread : building'[u] # Nil => building'[u] = building[u]
  BY <1>1 DEF IdsOK
<1>4. QED BY <1>1, <1>2, <1>3 DEF IdsOK

-----------------------------------------------------------------------------
\* A step that leaves the manager and the components alone, and moves no handler
\* but from waiting to working or back.
LEMMA HarmlessOK ==
  ASSUME ManagerInv, NodeTypeOK', UNCHANGED <<managerVars, master_, known>>,
         \A n \in Nodes : \/ handler'[n].pc = handler[n].pc /\ handler'[n].id = handler[n].id
                          \/ /\ handler[n].pc \in {"free", "begin"}
                             /\ handler'[n].pc \in {"free", "begin"}
  PROVE  ManagerInv'
<1>1. map_' = map_ /\ next_id_' = next_id_ /\ building' = building
      /\ master_' = master_ /\ known' = known
  BY DEF managerVars
<1>2. IdsOK'
  BY <1>1 DEF ManagerInv, IdsOK
<1>3. BuildingOK'
  BY <1>1 DEF ManagerInv, BuildingOK
<1>4. KnownOK'
  BY <1>1 DEF ManagerInv, KnownOK, NothingLost
<1>5. \A n \in Nodes : HostedBy(n)' = HostedBy(n)
  BY <1>1 DEF HostedBy
<1>6. HostedOK'
  BY <1>1, <1>5 DEF ManagerInv, HostedOK
<1>7. QED BY <1>2, <1>3, <1>4, <1>6 DEF ManagerInv

\* A handler begins, or replies without having touched the manager.
LEMMA BeginType ==
  ASSUME NodeTypeOK, NEW n \in Nodes, master_' = master_,
         NEW h \in Handler, handler' = [handler EXCEPT ![n] = h]
  PROVE  NodeTypeOK'
BY DEF NodeTypeOK

LEMMA FreeType == Free \in Handler
BY DEF Free, Handler

LEMMA SimpleReplyOK ==
  ASSUME ManagerInv, NEW n \in Nodes, NEW answer, Reply(n, answer),
         handler[n].pc = "begin", UNCHANGED <<managerVars, master_, known>>
  PROVE  ManagerInv'
<1>1. handler' = [handler EXCEPT ![n] = Free]
  BY DEF Reply
<1>2. NodeTypeOK'
  BY <1>1, FreeType, BeginType DEF ManagerInv
<1>3. handler \in [Nodes -> Handler]
  BY DEF ManagerInv, NodeTypeOK
<1>4. \A m \in Nodes : \/ handler'[m].pc = handler[m].pc /\ handler'[m].id = handler[m].id
                       \/ /\ handler[m].pc \in {"free", "begin"}
                          /\ handler'[m].pc \in {"free", "begin"}
  BY <1>1, <1>3 DEF Free
<1>5. QED BY <1>2, <1>4, HarmlessOK

LEMMA AcceptOK ==
  ASSUME ManagerInv, NEW n \in Nodes, NEW m \in Methods, NEW c \in Clients \cup {Nil},
         handler[n].pc = "free", handler' = [handler EXCEPT ![n] = Begin(m, c)],
         UNCHANGED <<managerVars, master_, known>>
  PROVE  ManagerInv'
<1>1. Begin(m, c) \in Handler
  BY DEF Begin, Handler
<1>2. NodeTypeOK'
  BY <1>1, BeginType DEF ManagerInv
<1>3. handler \in [Nodes -> Handler]
  BY DEF ManagerInv, NodeTypeOK
<1>4. \A k \in Nodes : \/ handler'[k].pc = handler[k].pc /\ handler'[k].id = handler[k].id
                       \/ /\ handler[k].pc \in {"free", "begin"}
                          /\ handler'[k].pc \in {"free", "begin"}
  BY <1>3 DEF Begin
<1>5. QED BY <1>2, <1>4, HarmlessOK

\* The component leaves the manager; no client was given its id.
LEMMA DisposeEraseOK ==
  ASSUME ManagerInv, NEW n \in Nodes, DisposeMasterComponentErase(n), UNCHANGED known
  PROVE  ManagerInv'
<1>1. /\ handler[n].pc = "begin" /\ master_[n] # Nil /\ master_' = master_
      /\ Erase(master_[n]) /\ handler' = [handler EXCEPT ![n].pc = "erased"]
  BY DEF DisposeMasterComponentErase, Handles
<1>2. /\ IdsOK' /\ building' = building
      /\ DOMAIN map_' = DOMAIN map_ \ {master_[n]}
      /\ \A i \in DOMAIN map_ \ {master_[n]} : map_'[i] = map_[i]
  BY <1>1, EraseOK DEF ManagerInv
<1>3. HostedBy(n) = {master_[n]}
  BY <1>1 DEF ManagerInv, HostedOK
<1>4. master_[n] \in DOMAIN map_ /\ map_[master_[n]].kind = "hosted"
      /\ map_[master_[n]].node = n
  BY <1>3 DEF HostedBy
<1>5. master_[n] \notin DOMAIN known
  BY <1>4 DEF ManagerInv, KnownOK, NothingLost
<1>6. KnownOK'
  BY <1>2, <1>5 DEF ManagerInv, KnownOK, NothingLost
<1>7. handler \in [Nodes -> Handler]
  BY DEF ManagerInv, NodeTypeOK
<1>8. /\ handler'[n].pc = "erased"
      /\ \A m \in Nodes \ {n} : handler'[m] = handler[m]
  BY <1>1, <1>7
<1>9. NodeTypeOK'
  BY <1>1, <1>7 DEF ManagerInv, NodeTypeOK, Handler
<1>10. BuildingOK'
  BY <1>1, <1>2, <1>8 DEF ManagerInv, BuildingOK
<1>11. HostedBy(n)' = {} /\ \A m \in Nodes \ {n} : HostedBy(m)' = HostedBy(m)
  BY <1>2, <1>3, <1>4 DEF HostedBy
<1>12. HostedOK'
  BY <1>1, <1>8, <1>11 DEF ManagerInv, HostedOK
<1>13. QED BY <1>2, <1>6, <1>9, <1>10, <1>12 DEF ManagerInv

LEMMA DisposeResetOK ==
  ASSUME ManagerInv, NEW n \in Nodes, DisposeMasterComponentReset(n), UNCHANGED known
  PROVE  ManagerInv'
<1>1. /\ handler[n].pc = "erased" /\ master_' = [master_ EXCEPT ![n] = Nil]
      /\ handler' = [handler EXCEPT ![n] = Free]
      /\ map_' = map_ /\ next_id_' = next_id_ /\ building' = building /\ known' = known
  BY DEF DisposeMasterComponentReset, Handles, Reply, managerVars
<1>2. handler \in [Nodes -> Handler] /\ master_ \in [Nodes -> Nat \cup {Nil}]
  BY DEF ManagerInv, NodeTypeOK
<1>3. /\ handler'[n].pc = "free" /\ master_'[n] = Nil
      /\ \A m \in Nodes \ {n} : handler'[m] = handler[m] /\ master_'[m] = master_[m]
  BY <1>1, <1>2 DEF Free
<1>4. NodeTypeOK'
  BY <1>1, <1>2, FreeType DEF NodeTypeOK
<1>5. IdsOK' /\ KnownOK'
  BY <1>1 DEF ManagerInv, IdsOK, KnownOK, NothingLost
<1>6. BuildingOK'
  BY <1>1, <1>3 DEF ManagerInv, BuildingOK
<1>7. \A m \in Nodes : HostedBy(m)' = HostedBy(m)
  BY <1>1 DEF HostedBy
<1>8. HostedBy(n) = {}
  BY <1>1 DEF ManagerInv, HostedOK
<1>9. HostedOK'
  BY <1>3, <1>7, <1>8 DEF ManagerInv, HostedOK
<1>10. QED BY <1>4, <1>5, <1>6, <1>9 DEF ManagerInv

LEMMA CreateReserveOK ==
  ASSUME ManagerInv, NEW n \in Nodes, CreateMasterComponent(n), UNCHANGED known
  PROVE  ManagerInv'
<1> DEFINE object == [kind |-> "hosted", node |-> n, owner |-> n]
<1>1. /\ handler[n].pc = "begin" /\ master_[n] = Nil /\ master_' = master_
      /\ Reserve(n, object) /\ handler' = [handler EXCEPT ![n].pc = "creating"]
  BY DEF CreateMasterComponent, Handles
<1>2. object \in Object /\ n \in Thread
  BY ServiceAssumption DEF Object
<1>3. /\ IdsOK' /\ map_' = map_
      /\ building' = [building EXCEPT ![n] = [id |-> next_id_, object |-> object]]
  BY <1>1, <1>2, ReserveOK DEF ManagerInv
<1>4. /\ handler \in [Nodes -> Handler]
      /\ building \in [Thread -> [id : Nat, object : Object] \cup {Nil}]
  BY DEF ManagerInv, NodeTypeOK, IdsOK
<1>5. handler'[n].pc = "creating" /\ \A m \in Nodes \ {n} : handler'[m] = handler[m]
  BY <1>1, <1>4
<1>6. NodeTypeOK'
  BY <1>1, <1>4 DEF ManagerInv, NodeTypeOK, Handler
<1>7. KnownOK'
  BY <1>3 DEF ManagerInv, KnownOK, NothingLost
<1>8. /\ building'[n] = [id |-> next_id_, object |-> object]
      /\ \A t \in Thread \ {n} : building'[t] = building[t]
  BY <1>2, <1>3, <1>4
<1>9. BuildingOK'
  BY <1>5, <1>8, ServiceAssumption DEF ManagerInv, BuildingOK
<1>10. \A m \in Nodes : HostedBy(m)' = HostedBy(m)
  BY <1>3 DEF HostedBy
<1>11. HostedOK'
  BY <1>1, <1>5, <1>10 DEF ManagerInv, HostedOK
<1>12. QED BY <1>3, <1>6, <1>7, <1>9, <1>11 DEF ManagerInv

LEMMA CreateInsertOK ==
  ASSUME ManagerInv, NEW n \in Nodes, CreateMasterComponentInsert(n), UNCHANGED known
  PROVE  ManagerInv'
<1> DEFINE id == building[n].id
<1>1. /\ handler[n].pc = "creating" /\ master_' = master_ /\ Insert(n)
      /\ handler' = [handler EXCEPT ![n] =
           [pc |-> "created", method |-> @.method, from |-> @.from, id |-> id]]
  BY DEF CreateMasterComponentInsert, Handles
<1>2. n \in Thread
  BY ServiceAssumption
<1>3. /\ IdsOK' /\ building[n] # Nil /\ building' = [building EXCEPT ![n] = Nil]
      /\ id \notin DOMAIN map_ /\ id \in Nat
      /\ DOMAIN map_' = DOMAIN map_ \cup {id}
      /\ map_'[id] = building[n].object
      /\ \A i \in DOMAIN map_ : map_'[i] = map_[i]
  BY <1>1, <1>2, InsertOK DEF ManagerInv
<1>4. building[n].object.kind = "hosted" /\ building[n].object.node = n
  BY <1>3 DEF ManagerInv, BuildingOK
<1>5. /\ handler \in [Nodes -> Handler] /\ id # Nil
      /\ building \in [Thread -> [id : Nat, object : Object] \cup {Nil}]
  BY <1>3, ServiceAssumption DEF ManagerInv, NodeTypeOK, IdsOK
<1>6. /\ handler'[n].pc = "created" /\ handler'[n].id = id
      /\ \A m \in Nodes \ {n} : handler'[m] = handler[m]
  BY <1>1, <1>5
<1>7. NodeTypeOK'
  <2>1. [pc |-> "created", method |-> handler[n].method, from |-> handler[n].from, id |-> id]
          \in Handler
    BY <1>3, <1>5 DEF Handler
  <2>2. QED BY <1>1, <2>1, BeginType DEF ManagerInv
<1>8. KnownOK'
  BY <1>3 DEF ManagerInv, KnownOK, NothingLost
<1>9. \A t \in Thread : building'[t] = Nil \/ building'[t] = building[t]
  BY <1>2, <1>3, <1>5
<1>10. BuildingOK'
  BY <1>9, ServiceAssumption DEF ManagerInv, BuildingOK
<1>11. HostedBy(n) = {} /\ master_[n] = Nil
  BY <1>1 DEF ManagerInv, HostedOK
<1>12. HostedBy(n)' = {id}
  BY <1>3, <1>4, <1>11 DEF HostedBy
<1>13. \A m \in Nodes \ {n} : HostedBy(m)' = HostedBy(m)
  BY <1>3, <1>4 DEF HostedBy
<1>14. HostedOK'
  BY <1>1, <1>5, <1>6, <1>11, <1>12, <1>13 DEF ManagerInv, HostedOK
<1>15. QED BY <1>3, <1>7, <1>8, <1>10, <1>14 DEF ManagerInv

\* Nobody has erased the component meanwhile: Get finds it.
LEMMA CreateGetOK ==
  ASSUME ManagerInv, NEW n \in Nodes, CreateMasterComponentGet(n), UNCHANGED known
  PROVE  ManagerInv'
<1>1. /\ handler[n].pc = "created" /\ handler' = [handler EXCEPT ![n] = Free]
      /\ master_' = [master_ EXCEPT
           ![n] = IF handler[n].id \in DOMAIN map_ THEN handler[n].id ELSE Nil]
      /\ map_' = map_ /\ next_id_' = next_id_ /\ building' = building /\ known' = known
  BY DEF CreateMasterComponentGet, Handles, Reply, managerVars
<1>2. /\ handler \in [Nodes -> Handler] /\ master_ \in [Nodes -> Nat \cup {Nil}]
      /\ HostedBy(n) = {handler[n].id} /\ handler[n].id # Nil
  BY <1>1 DEF ManagerInv, NodeTypeOK, HostedOK
<1>3. handler[n].id \in DOMAIN map_ /\ handler[n].id \in Nat
  BY <1>2 DEF HostedBy, Handler
<1>4. /\ handler'[n].pc = "free" /\ master_'[n] = handler[n].id
      /\ \A m \in Nodes \ {n} : handler'[m] = handler[m] /\ master_'[m] = master_[m]
  BY <1>1, <1>2, <1>3 DEF Free
<1>5. NodeTypeOK'
  BY <1>1, <1>2, <1>3, FreeType DEF NodeTypeOK
<1>6. IdsOK' /\ KnownOK'
  BY <1>1 DEF ManagerInv, IdsOK, KnownOK, NothingLost
<1>7. BuildingOK'
  BY <1>1, <1>4 DEF ManagerInv, BuildingOK
<1>8. \A m \in Nodes : HostedBy(m)' = HostedBy(m)
  BY <1>1 DEF HostedBy
<1>9. HostedOK'
  BY <1>2, <1>4, <1>8 DEF ManagerInv, HostedOK
<1>10. QED BY <1>5, <1>6, <1>7, <1>9 DEF ManagerInv

LEMMA HandleOK ==
  ASSUME ManagerInv, NEW n \in Nodes, Handle(n), UNCHANGED known
  PROVE  ManagerInv'
<1>1. CASE DisposeInstance(n)
  BY <1>1, SimpleReplyOK DEF DisposeInstance, Handles
<1>2. CASE DisposeMasterComponentNone(n)
  BY <1>2, SimpleReplyOK DEF DisposeMasterComponentNone, Handles
<1>3. CASE DisposeMasterComponentErase(n)
  BY <1>3, DisposeEraseOK
<1>4. CASE DisposeMasterComponentReset(n)
  BY <1>4, DisposeResetOK
<1>5. CASE CreateMasterComponentReconfigure(n)
  BY <1>5, SimpleReplyOK DEF CreateMasterComponentReconfigure, Handles
<1>6. CASE CreateMasterComponent(n)
  BY <1>6, CreateReserveOK
<1>7. CASE CreateMasterComponentInsert(n)
  BY <1>7, CreateInsertOK
<1>8. CASE CreateMasterComponentGet(n)
  BY <1>8, CreateGetOK
<1>9. CASE CreateModel(n)
  BY <1>9, SimpleReplyOK DEF CreateModel, Handles
<1>10. CASE InvokeIteration(n)
  BY <1>10, SimpleReplyOK DEF InvokeIteration, Handles
<1>11. CASE WaitIdle(n)
  BY <1>11, SimpleReplyOK DEF WaitIdle, Handles
<1>12. QED
  BY <1>1, <1>2, <1>3, <1>4, <1>5, <1>6, <1>7, <1>8, <1>9, <1>10, <1>11 DEF Handle

LEMMA NodeStepOK ==
  ASSUME TypeOK, ManagerInv, NEW n \in Nodes, NodeStep(n)
  PROVE  ManagerInv'
<1>1. UNCHANGED known
  BY DEF NodeStep
<1>2. CASE Handle(n)
  BY <1>1, <1>2, HandleOK
<1>3. ASSUME NEW c \in Clients, Accept(n, c) PROVE ManagerInv'
  <2>1. rpc[c].methods \in Seq(Methods) /\ rpc[c].methods # <<>>
    BY <1>3 DEF Accept, HasCall, TypeOK, Rpc
  <2>2. Head(rpc[c].methods) \in Methods
    BY <2>1
  <2>3. QED BY <1>1, <1>3, <2>2, AcceptOK DEF Accept
<1>4. ASSUME NEW m \in Methods, AcceptLate(n, m) PROVE ManagerInv'
  BY <1>1, <1>4, AcceptOK DEF AcceptLate
<1>5. QED BY <1>2, <1>3, <1>4 DEF NodeStep

-----------------------------------------------------------------------------
\* Clients leave the nodes' members alone; those of a handler change only in
\* whom it replies to.
LEMMA ClientTypes ==
  ASSUME TypeOK
  PROVE  /\ rpc \in [Clients -> Rpc] /\ client \in [Clients -> Client]
         /\ known \in [DOMAIN known -> Object] /\ map_ \in [DOMAIN map_ -> Object]
BY DEF TypeOK

LEMMA KeepHosted ==
  ASSUME ManagerInv, UNCHANGED nodeVars,
         \A n \in Nodes : HostedBy(n)' = HostedBy(n)
  PROVE  HostedOK' /\ NodeTypeOK'
BY DEF ManagerInv, HostedOK, NodeTypeOK, nodeVars

LEMMA ReserveClientOK ==
  ASSUME ManagerInv, NEW c \in Clients, NEW object \in Object, object.kind # "hosted",
         Reserve(c, object), UNCHANGED <<nodeVars, known>>
  PROVE  ManagerInv'
<1>1. c \in Thread /\ c \notin Nodes
  BY ServiceAssumption
<1>2. /\ IdsOK' /\ map_' = map_
      /\ building' = [building EXCEPT ![c] = [id |-> next_id_, object |-> object]]
  BY <1>1, ReserveOK DEF ManagerInv
<1>3. building \in [Thread -> [id : Nat, object : Object] \cup {Nil}]
  BY DEF ManagerInv, IdsOK
<1>4. BuildingOK'
  BY <1>1, <1>2, <1>3, ServiceAssumption DEF ManagerInv, BuildingOK
<1>5. KnownOK'
  BY <1>2 DEF ManagerInv, KnownOK, NothingLost
<1>6. \A n \in Nodes : HostedBy(n)' = HostedBy(n)
  BY <1>2 DEF HostedBy
<1>7. QED BY <1>2, <1>4, <1>5, <1>6, KeepHosted DEF ManagerInv

LEMMA CreateReturnOK ==
  ASSUME ManagerInv, NEW c \in Clients, CreateReturn(c)
  PROVE  ManagerInv'
<1> DEFINE id == building[c].id
<1>1. c \in Thread /\ c \notin Nodes
  BY ServiceAssumption
<1>2. /\ IdsOK' /\ building[c] # Nil /\ building' = [building EXCEPT ![c] = Nil]
      /\ id \notin DOMAIN map_ /\ DOMAIN map_' = DOMAIN map_ \cup {id}
      /\ map_'[id] = building[c].object
      /\ \A i \in DOMAIN map_ : map_'[i] = map_[i]
  BY <1>1, InsertOK DEF CreateReturn, ManagerInv
<1>3. building[c].object.kind # "hosted"
  BY <1>2 DEF ManagerInv, BuildingOK
<1>4. /\ DOMAIN known' = DOMAIN known \cup {id} /\ known'[id] = building[c].object
      /\ \A i \in DOMAIN known \ {id} : known'[i] = known[i]
      /\ UNCHANGED nodeVars
  BY DEF CreateReturn
<1>5. KnownOK'
  BY <1>2, <1>3, <1>4 DEF ManagerInv, KnownOK, NothingLost
<1>6. building \in [Thread -> [id : Nat, object : Object] \cup {Nil}]
  BY DEF ManagerInv, IdsOK
<1>7. \A t \in Thread : building'[t] = Nil \/ building'[t] = building[t]
  BY <1>1, <1>2, <1>6
<1>8. BuildingOK'
  BY <1>7, ServiceAssumption DEF ManagerInv, BuildingOK
<1>9. \A n \in Nodes : HostedBy(n)' = HostedBy(n)
  BY <1>2, <1>3 DEF HostedBy
<1>10. QED BY <1>2, <1>4, <1>5, <1>8, <1>9, KeepHosted DEF ManagerInv

LEMMA DisposeOK ==
  ASSUME ManagerInv, NEW c \in Clients, NEW id \in DOMAIN known,
         ArtmDisposeMasterComponent(c, id)
  PROVE  ManagerInv'
<1>1. /\ IdsOK' /\ building' = building /\ DOMAIN map_' = DOMAIN map_ \ {id}
      /\ \A i \in DOMAIN map_ \ {id} : map_'[i] = map_[i]
  BY EraseOK DEF ArtmDisposeMasterComponent, ManagerInv
<1>2. map_[id].kind # "hosted"
  BY DEF ManagerInv, KnownOK, NothingLost
<1>3. /\ known' = [i \in DOMAIN known \ {id} |-> known[i]] /\ UNCHANGED nodeVars
  <2>1. known' = Restrict(known, DOMAIN known \ {id}) /\ UNCHANGED nodeVars
    BY DEF ArtmDisposeMasterComponent
  <2>2. QED BY <2>1 DEF Restrict
<1>4. KnownOK'
  BY <1>1, <1>3 DEF ManagerInv, KnownOK, NothingLost
<1>5. BuildingOK'
  BY <1>1, <1>3 DEF ManagerInv, BuildingOK, nodeVars
<1>6. \A n \in Nodes : HostedBy(n)' = HostedBy(n)
  BY <1>1, <1>2 DEF HostedBy
<1>7. QED BY <1>1, <1>3, <1>4, <1>5, <1>6, KeepHosted DEF ManagerInv

LEMMA AbandonClientOK ==
  ASSUME ManagerInv, NEW c \in Clients, Abandon(c), UNCHANGED <<master_, known>>,
         NodeTypeOK',
         \A n \in Nodes : handler'[n].pc = handler[n].pc /\ handler'[n].id = handler[n].id
  PROVE  ManagerInv'
<1>1. c \in Thread
  BY ServiceAssumption
<1>2. IdsOK' /\ map_' = map_ /\ building' = [building EXCEPT ![c] = Nil]
  BY <1>1, AbandonOK DEF ManagerInv
<1>3. building \in [Thread -> [id : Nat, object : Object] \cup {Nil}]
  BY DEF ManagerInv, IdsOK
<1>4. \A t \in Thread : building'[t] = Nil \/ building'[t] = building[t]
  BY <1>1, <1>2, <1>3
<1>5. BuildingOK'
  BY <1>4, ServiceAssumption DEF ManagerInv, BuildingOK
<1>6. KnownOK'
  BY <1>2 DEF ManagerInv, KnownOK, NothingLost
<1>7. \A n \in Nodes : HostedBy(n)' = HostedBy(n)
  BY <1>2 DEF HostedBy
<1>8. HostedOK'
  BY <1>7 DEF ManagerInv, HostedOK
<1>9. QED BY <1>2, <1>5, <1>6, <1>8 DEF ManagerInv

\* An RPC ends in an error, with the handler detached from its caller or not.
LEMMA FailOK ==
  ASSUME ManagerInv, NEW c \in Clients, Fail(c), UNCHANGED <<master_, known>>, NodeTypeOK',
         \A n \in Nodes : handler'[n].pc = handler[n].pc /\ handler'[n].id = handler[n].id
  PROVE  ManagerInv'
<1>1. CASE Abandon(c)
  BY <1>1, AbandonClientOK
<1>2. CASE UNCHANGED managerVars
  BY <1>2, HarmlessOK
<1>3. QED BY <1>1, <1>2 DEF Fail

LEMMA TimeoutOK ==
  ASSUME ManagerInv, NEW c \in Clients, Timeout(c)
  PROVE  ManagerInv'
<1>1. handler \in [Nodes -> Handler]
  BY DEF ManagerInv, NodeTypeOK
<1>2. /\ Fail(c) /\ UNCHANGED <<master_, known>>
      /\ handler' = [n \in Nodes |-> IF handler[n].from = c
                                     THEN [handler[n] EXCEPT !.from = Nil] ELSE handler[n]]
  BY DEF Timeout
<1>3. \A n \in Nodes : /\ handler'[n] \in Handler
                       /\ handler'[n].pc = handler[n].pc /\ handler'[n].id = handler[n].id
  BY <1>1, <1>2 DEF Handler
<1>4. handler' \in [Nodes -> Handler]
  BY <1>2, <1>3
<1>5. NodeTypeOK'
  BY <1>2, <1>4 DEF ManagerInv, NodeTypeOK
<1>6. QED BY <1>2, <1>3, <1>5, FailOK

LEMMA ClientStepOK ==
  ASSUME ManagerInv, NEW c \in Clients, ClientStep(c)
  PROVE  ManagerInv'
<1>1. CASE CreateReturn(c)
  BY <1>1, CreateReturnOK
<1>2. CASE Error(c)
  <2>1. Fail(c) /\ UNCHANGED <<master_, handler, known>>
    BY <1>2 DEF Error, nodeVars
  <2>2. NodeTypeOK'
    BY <2>1 DEF ManagerInv, NodeTypeOK
  <2>3. QED BY <2>1, <2>2, FailOK
<1>3. CASE Receive(c) \/ UseReturn(c) \/ DestroyReturn(c) \/ PollAgain(c) \/ WaitIdleTimeout(c)
  <2>1. UNCHANGED <<managerVars, master_, handler, known>>
    BY <1>3 DEF Receive, UseReturn, DestroyReturn, PollAgain, WaitIdleTimeout, nodeVars
  <2>2. NodeTypeOK'
    BY <2>1 DEF ManagerInv, NodeTypeOK
  <2>3. QED BY <2>1, <2>2, HarmlessOK
<1>4. QED BY <1>1, <1>2, <1>3 DEF ClientStep

LEMMA ApiCallOK ==
  ASSUME ManagerInv, NEW c \in Clients, ApiCall(c)
  PROVE  ManagerInv'
<1>1. c \in Thread
  BY ServiceAssumption
<1>2. CASE CreateMasterComponentLocally(c)
  <2>1. [kind |-> "component", node |-> Nil, owner |-> c] \in Object
    BY <1>1 DEF Object
  <2>2. QED BY <1>2, <2>1, ReserveClientOK DEF CreateMasterComponentLocally, serviceVars
<1>3. ASSUME NEW n \in Nodes, CreateMasterProxy(c, n) PROVE ManagerInv'
  <2>1. [kind |-> "proxy", node |-> n, owner |-> c] \in Object
    BY <1>1 DEF Object
  <2>2. QED BY <1>3, <2>1, ReserveClientOK DEF CreateMasterProxy
<1>4. ASSUME NEW id \in DOMAIN known, ArtmDisposeMasterComponent(c, id) PROVE ManagerInv'
  BY <1>4, DisposeOK
<1>5. ASSUME NEW id \in DOMAIN known, NEW method, Use(c, id, method) PROVE ManagerInv'
  <2>1. UNCHANGED <<managerVars, master_, handler, known>>
    BY <1>5 DEF Use, nodeVars
  <2>2. NodeTypeOK'
    BY <2>1 DEF ManagerInv, NodeTypeOK
  <2>3. QED BY <2>1, <2>2, HarmlessOK
<1>6. QED BY <1>2, <1>3, <1>4, <1>5 DEF ApiCall

-----------------------------------------------------------------------------
\* The types that the manager's invariant leaves open.
OtherTypesOK ==
  /\ map_ \in [DOMAIN map_ -> Object]
  /\ instance_ \in [Nodes -> BOOLEAN] /\ working \in [Nodes -> BOOLEAN]
  /\ rpc \in [Clients -> Rpc] /\ late \in [Nodes -> [Methods -> Nat]]
  /\ client \in [Clients -> Client] /\ calls \in Nat
  /\ known \in [DOMAIN known -> Object]

LEMMA TypesSplit == ManagerInv /\ OtherTypesOK => TypeOK
<1>1. ManagerInv => DOMAIN map_ \subseteq Nat
  BY DEF ManagerInv, IdsOK
<1>2. QED BY <1>1 DEF ManagerInv, IdsOK, NodeTypeOK, OtherTypesOK, TypeOK

LEMMA TypesOpen == TypeOK => OtherTypesOK
BY DEF TypeOK, OtherTypesOK

LEMMA InsertType ==
  ASSUME IdsOK, map_ \in [DOMAIN map_ -> Object], NEW t \in Thread, Insert(t)
  PROVE  map_' \in [DOMAIN map_' -> Object] /\ building[t].object \in Object
<1>1. building[t] \in [id : Nat, object : Object]
  BY DEF Insert, IdsOK
<1>2. building[t].object \in Object
  BY <1>1
<1>3. map_' = [i \in DOMAIN map_ \cup {building[t].id} |->
                 IF i \in DOMAIN map_ THEN map_[i] ELSE building[t].object]
  BY DEF Insert
<1>4. QED BY <1>2, <1>3

LEMMA EraseType ==
  ASSUME map_ \in [DOMAIN map_ -> Object], NEW id, Erase(id)
  PROVE  map_' \in [DOMAIN map_' -> Object]
<1>1. map_' = [i \in DOMAIN map_ \ {id} |-> map_[i]]
  BY DEF Erase, Restrict
<1>2. QED BY <1>1

States == {"sent", "serving", "done", "still", "error", "unanswered"}

LEMMA StateType ==
  ASSUME rpc \in [Clients -> Rpc], NEW c \in Clients, NEW state \in States,
         rpc' = [rpc EXCEPT ![c].state = state]
  PROVE  rpc' \in [Clients -> Rpc]
BY DEF Rpc, States

LEMMA ReplyType ==
  ASSUME rpc \in [Clients -> Rpc], NodeTypeOK, NEW n \in Nodes, NEW answer \in States,
         Reply(n, answer)
  PROVE  rpc' \in [Clients -> Rpc]
<1>1. handler[n].from \in Clients \cup {Nil}
  BY DEF NodeTypeOK, Handler
<1>2. CASE handler[n].from = Nil
  BY <1>2 DEF Reply
<1>3. CASE handler[n].from # Nil
  <2>1. rpc' = [rpc EXCEPT ![handler[n].from].state = answer]
    BY <1>3 DEF Reply
  <2>2. QED BY <1>1, <1>3, <2>1, StateType
<1>4. QED BY <1>2, <1>3

LEMMA HandleType ==
  ASSUME OtherTypesOK, ManagerInv, NEW n \in Nodes, Handle(n),
         UNCHANGED <<client, known, calls>>
  PROVE  OtherTypesOK'
<1>1. NodeTypeOK /\ IdsOK /\ n \in Thread
  BY ServiceAssumption DEF ManagerInv
<1>2. {"done", "still", "error", "unanswered"} \subseteq States
  BY DEF States
<1>3. CASE DisposeInstance(n)
  BY <1>1, <1>2, <1>3, ReplyType DEF DisposeInstance, Reply, OtherTypesOK, managerVars
<1>4. CASE DisposeMasterComponentNone(n) \/ CreateMasterComponentReconfigure(n)
  BY <1>1, <1>2, <1>4, ReplyType
     DEF DisposeMasterComponentNone, CreateMasterComponentReconfigure, Reply, OtherTypesOK,
         managerVars
<1>5. CASE DisposeMasterComponentErase(n)
  <2>1. map_' \in [DOMAIN map_' -> Object]
    BY <1>5, EraseType DEF DisposeMasterComponentErase, OtherTypesOK
  <2>2. QED BY <1>5, <2>1 DEF DisposeMasterComponentErase, OtherTypesOK
<1>6. CASE DisposeMasterComponentReset(n)
  BY <1>1, <1>2, <1>6, ReplyType
     DEF DisposeMasterComponentReset, Reply, OtherTypesOK, managerVars
<1>7. CASE CreateMasterComponent(n)
  BY <1>7 DEF CreateMasterComponent, Reserve, OtherTypesOK
<1>8. CASE CreateMasterComponentInsert(n)
  <2>1. map_' \in [DOMAIN map_' -> Object]
    BY <1>1, <1>8, InsertType DEF CreateMasterComponentInsert, OtherTypesOK
  <2>2. QED BY <1>8, <2>1 DEF CreateMasterComponentInsert, OtherTypesOK
<1>9. CASE CreateMasterComponentGet(n)
  BY <1>1, <1>2, <1>9, ReplyType DEF CreateMasterComponentGet, Reply, OtherTypesOK, managerVars
<1>10. CASE CreateModel(n)
  <2>1. (IF instance_[n] = (master_[n] # Nil) THEN "error" ELSE "done") \in States
    BY <1>2
  <2>2. rpc' \in [Clients -> Rpc]
    BY <1>1, <1>10, <2>1, ReplyType DEF CreateModel, OtherTypesOK
  <2>3. QED BY <1>10, <2>2 DEF CreateModel, Reply, OtherTypesOK, managerVars
<1>11. CASE InvokeIteration(n)
  <2>1. (master_[n] # Nil) \in BOOLEAN
    OBVIOUS
  <2>2. working' \in [Nodes -> BOOLEAN]
    BY <1>11, <2>1 DEF InvokeIteration, OtherTypesOK
  <2>3. QED BY <1>1, <1>2, <1>11, <2>2, ReplyType
     DEF InvokeIteration, Reply, OtherTypesOK, managerVars
<1>12. CASE WaitIdle(n)
  <2>1. (CASE master_[n] = Nil -> "unanswered"
           [] master_[n] # Nil /\ working[n] -> "still"
           [] OTHER -> "done") \in States
    BY <1>2
  <2>2. rpc' \in [Clients -> Rpc]
    BY <1>1, <1>12, <2>1, ReplyType DEF WaitIdle, OtherTypesOK
  <2>3. QED BY <1>12, <2>2 DEF WaitIdle, Reply, OtherTypesOK, managerVars
<1>13. QED
  BY <1>3, <1>4, <1>5, <1>6, <1>7, <1>8, <1>9, <1>10, <1>11, <1>12 DEF Handle

LEMMA NodeStepType ==
  ASSUME OtherTypesOK, ManagerInv, NEW n \in Nodes, NodeStep(n)
  PROVE  OtherTypesOK'
<1>1. UNCHANGED <<client, known, calls>>
  BY DEF NodeStep
<1>2. CASE Handle(n)
  BY <1>1, <1>2, HandleType
<1>3. ASSUME NEW c \in Clients, Accept(n, c) PROVE OtherTypesOK'
  <2>1. rpc' \in [Clients -> Rpc]
    BY <1>3, StateType DEF Accept, OtherTypesOK, States
  <2>2. QED BY <1>1, <1>3, <2>1 DEF Accept, OtherTypesOK, managerVars
<1>4. ASSUME NEW m \in Methods, AcceptLate(n, m) PROVE OtherTypesOK'
  <2>1. late' \in [Nodes -> [Methods -> Nat]]
    BY <1>4 DEF AcceptLate, OtherTypesOK
  <2>2. QED BY <1>1, <1>4, <2>1 DEF AcceptLate, OtherTypesOK, managerVars
<1>5. QED BY <1>2, <1>3, <1>4 DEF NodeStep

\* The calls that a client may have to make.
LEMMA CallingType ==
  ASSUME NEW n \in Nodes \cup {Nil}, NEW methods \in Seq(Methods)
  PROVE  Calling(n, methods) \in Rpc
BY DEF Calling, Rpc

LEMMA DestroyingType ==
  ASSUME rpc \in [Clients -> Rpc], client \in [Clients -> Client], NEW c \in Clients,
         NEW n \in Nodes \cup {Nil}, Destroying(c, n)
  PROVE  rpc' \in [Clients -> Rpc] /\ client' \in [Clients -> Client]
<1>1. <<"DisposeMasterComponent">> \in Seq(Methods)
  BY DEF Methods
<1>2. Calling(n, <<"DisposeMasterComponent">>) \in Rpc
  BY <1>1, CallingType
<1>3. [pc |-> "destroy", id |-> Nil, node |-> n] \in Client
  BY DEF Client
<1>4. QED BY <1>2, <1>3 DEF Destroying

LEMMA ReturningType ==
  ASSUME rpc \in [Clients -> Rpc], client \in [Clients -> Client], NEW c \in Clients,
         Returning(c)
  PROVE  rpc' \in [Clients -> Rpc] /\ client' \in [Clients -> Client]
<1>1. NoRpc \in Rpc
  BY DEF NoRpc, Rpc
<1>2. Ready \in Client
  BY DEF Ready, Client
<1>3. QED BY <1>1, <1>2 DEF Returning

LEMMA ReleaseType ==
  ASSUME rpc \in [Clients -> Rpc], client \in [Clients -> Client], NEW c \in Clients,
         Release(c)
  PROVE  rpc' \in [Clients -> Rpc] /\ client' \in [Clients -> Client]
<1>1. client[c].node \in Nodes \cup {Nil}
  BY DEF Client
<1>2. Returning(c) \/ Destroying(c, client[c].node)
  BY DEF Release
<1>3. QED BY <1>1, <1>2, ReturningType, DestroyingType

LEMMA FailType ==
  ASSUME OtherTypesOK, NEW c \in Clients, Fail(c)
  PROVE  /\ rpc' \in [Clients -> Rpc] /\ client' \in [Clients -> Client]
         /\ map_' \in [DOMAIN map_' -> Object]
<1>1. rpc \in [Clients -> Rpc] /\ client \in [Clients -> Client]
      /\ map_ \in [DOMAIN map_ -> Object]
  BY DEF OtherTypesOK
<1>2. map_' = map_ /\ (Returning(c) \/ Release(c))
  BY DEF Fail, Abandon, managerVars
<1>3. QED BY <1>1, <1>2, ReturningType, ReleaseType

LEMMA TimeoutType ==
  ASSUME OtherTypesOK, ManagerInv, NEW c \in Clients, Timeout(c)
  PROVE  OtherTypesOK'
<1>1. late' \in [Nodes -> [Methods -> Nat]]
  <2>1. late \in [Nodes -> [Methods -> Nat]]
    BY DEF OtherTypesOK
  <2>2. ASSUME NEW n, NEW m, late' = [late EXCEPT ![n][m] = @ + 1]
        PROVE  late' \in [Nodes -> [Methods -> Nat]]
    <3>1. CASE n \in Nodes /\ m \in Methods
      BY <2>1, <2>2, <3>1
    <3>2. CASE n \in Nodes /\ m \notin Methods
      <4>1. [late[n] EXCEPT ![m] = @ + 1] = late[n]
        BY <2>1, <3>2
      <4>2. QED BY <2>1, <2>2, <3>2, <4>1
    <3>3. CASE n \notin Nodes
      BY <2>1, <2>2, <3>3
    <3>4. QED BY <3>1, <3>2, <3>3
  <2>3. QED BY <2>1, <2>2 DEF Timeout
<1>2. QED BY <1>1, FailType DEF Timeout, OtherTypesOK

LEMMA ClientStepType ==
  ASSUME OtherTypesOK, ManagerInv, NEW c \in Clients, ClientStep(c)
  PROVE  OtherTypesOK'
<1>1. c \in Thread /\ IdsOK
  BY ServiceAssumption DEF ManagerInv
<1>2. rpc \in [Clients -> Rpc] /\ client \in [Clients -> Client]
      /\ map_ \in [DOMAIN map_ -> Object]
  BY DEF OtherTypesOK
<1>3. CASE CreateReturn(c)
  <2>1. map_' \in [DOMAIN map_' -> Object] /\ building[c].object \in Object
    BY <1>1, <1>2, <1>3, InsertType DEF CreateReturn
  <2>2. known' \in [DOMAIN known' -> Object]
    BY <1>3, <2>1 DEF CreateReturn, OtherTypesOK
  <2>3. rpc' \in [Clients -> Rpc] /\ client' \in [Clients -> Client]
    BY <1>2, <1>3, ReturningType DEF CreateReturn
  <2>4. QED BY <1>3, <2>1, <2>2, <2>3 DEF CreateReturn, OtherTypesOK, nodeVars
<1>4. CASE Receive(c)
  <2>1. rpc[c].methods \in Seq(Methods) /\ rpc[c].methods # <<>>
    BY <1>2, <1>4 DEF Receive, HasCall, Rpc
  <2>2. Tail(rpc[c].methods) \in Seq(Methods)
    BY <2>1
  <2>3. rpc' \in [Clients -> Rpc]
    BY <1>2, <1>4, <2>2 DEF Receive, Rpc
  <2>4. QED BY <1>4, <2>3 DEF Receive, OtherTypesOK, nodeVars, managerVars
<1>5. CASE UseReturn(c)
  BY <1>2, <1>5, ReleaseType DEF UseReturn, OtherTypesOK, nodeVars, managerVars
<1>6. CASE DestroyReturn(c)
  BY <1>2, <1>6, ReturningType DEF DestroyReturn, OtherTypesOK, nodeVars, managerVars
<1>7. CASE PollAgain(c)
  BY <1>2, <1>7, StateType DEF PollAgain, States, OtherTypesOK, nodeVars, managerVars
<1>8. CASE WaitIdleTimeout(c)
  BY <1>2, <1>8, ReleaseType DEF WaitIdleTimeout, OtherTypesOK, nodeVars, managerVars
<1>9. CASE Error(c)
  BY <1>9, FailType DEF Error, OtherTypesOK, nodeVars
<1>10. QED BY <1>3, <1>4, <1>5, <1>6, <1>7, <1>8, <1>9 DEF ClientStep

LEMMA ApiCallType ==
  ASSUME OtherTypesOK, ManagerInv, NEW c \in Clients, ApiCall(c)
  PROVE  OtherTypesOK'
<1>1. rpc \in [Clients -> Rpc] /\ client \in [Clients -> Client]
      /\ map_ \in [DOMAIN map_ -> Object]
  BY DEF OtherTypesOK
<1>2. CASE CreateMasterComponentLocally(c)
  <2>1. client' \in [Clients -> Client]
    BY <1>1, <1>2 DEF CreateMasterComponentLocally, Client
  <2>2. QED BY <1>2, <2>1
     DEF CreateMasterComponentLocally, CallOf, Call, Reserve, OtherTypesOK, serviceVars, nodeVars
<1>3. ASSUME NEW n \in Nodes, CreateMasterProxy(c, n) PROVE OtherTypesOK'
  <2>1. [client[c] EXCEPT !.pc = "create", !.node = n] \in Client
    BY <1>1 DEF Client
  <2>2. client' \in [Clients -> Client]
    BY <1>1, <1>3, <2>1 DEF CreateMasterProxy
  <2>3. <<"DisposeInstance", "DisposeMasterComponent", "CreateMasterComponent">> \in Seq(Methods)
    BY DEF Methods
  <2>4. Construction(n) \in Rpc
    BY <2>3, CallingType DEF Construction
  <2>5. rpc' \in [Clients -> Rpc]
    BY <1>1, <1>3, <2>4 DEF CreateMasterProxy
  <2>6. QED BY <1>3, <2>2, <2>5
     DEF CreateMasterProxy, CallOf, Call, Reserve, OtherTypesOK, nodeVars
<1>4. ASSUME NEW id \in DOMAIN known, ArtmDisposeMasterComponent(c, id) PROVE OtherTypesOK'
  <2>1. known[id].node \in Nodes \cup {Nil}
    BY DEF OtherTypesOK, Object
  <2>2. rpc' \in [Clients -> Rpc] /\ client' \in [Clients -> Client]
    BY <1>1, <1>4, <2>1, DestroyingType, ReturningType DEF ArtmDisposeMasterComponent
  <2>3. map_' \in [DOMAIN map_' -> Object]
    BY <1>1, <1>4, EraseType DEF ArtmDisposeMasterComponent
  <2>4. known' \in [DOMAIN known' -> Object]
    <3>1. known' = Restrict(known, DOMAIN known \ {id})
      BY <1>4 DEF ArtmDisposeMasterComponent
    <3>2. known' = [i \in DOMAIN known \ {id} |-> known[i]]
      BY <3>1 DEF Restrict
    <3>3. QED BY <3>2 DEF OtherTypesOK
  <2>5. calls' = calls + 1 /\ UNCHANGED <<instance_, working, late>>
    BY <1>4 DEF ArtmDisposeMasterComponent, CallOf, Call, nodeVars
  <2>6. QED BY <2>2, <2>3, <2>4, <2>5 DEF OtherTypesOK
<1>5. ASSUME NEW id \in DOMAIN known,
             NEW method \in {"CreateModel", "InvokeIteration", "WaitIdle"}, Use(c, id, method)
      PROVE  OtherTypesOK'
  <2>1. known[id].node \in Nodes \cup {Nil}
    BY DEF OtherTypesOK, Object
  <2>2. id \in Nat
    BY DEF ManagerInv, KnownOK, NothingLost, IdsOK
  <2>3. [pc |-> "use", id |-> id, node |-> known[id].node] \in Client
    BY <2>1, <2>2 DEF Client
  <2>4. <<method>> \in Seq(Methods)
    BY DEF Methods
  <2>5. Calling(known[id].node, <<method>>) \in Rpc
    BY <2>1, <2>4, CallingType
  <2>6. QED BY <1>1, <1>5, <2>3, <2>5
     DEF Use, CallOf, Call, OtherTypesOK, nodeVars, managerVars
<1>6. QED BY <1>2, <1>3, <1>4, <1>5 DEF ApiCall

-----------------------------------------------------------------------------
LEMMA InitOK == Init => ProxyInv
<1>1. SUFFICES ASSUME Init PROVE ProxyInv
  OBVIOUS
<1>2. /\ DOMAIN map_ = {} /\ map_ = [i \in {} |-> Nil] /\ next_id_ = 1
      /\ building = [t \in Thread |-> Nil] /\ DOMAIN known = {} /\ known = [i \in {} |-> Nil]
      /\ master_ = [n \in Nodes |-> Nil] /\ handler = [n \in Nodes |-> Free]
  BY <1>1 DEF Init, TemplateManagerInit, ServiceInit
<1>3. IdsOK
  BY <1>2 DEF IdsOK
<1>4. BuildingOK
  BY <1>2, ServiceAssumption DEF BuildingOK
<1>5. KnownOK
  BY <1>2 DEF KnownOK, NothingLost
<1>6. \A n \in Nodes : HostedBy(n) = {}
  BY <1>2 DEF HostedBy
<1>7. HostedOK
  BY <1>2, <1>6 DEF HostedOK, Free
<1>8. NodeTypeOK
  BY <1>2, FreeType DEF NodeTypeOK
<1>9. OtherTypesOK
  <2>1. map_ \in [DOMAIN map_ -> Object] /\ known \in [DOMAIN known -> Object]
    BY <1>2
  <2>2. NoRpc \in Rpc /\ Ready \in Client
    BY DEF NoRpc, Rpc, Ready, Client
  <2>3. QED BY <1>1, <2>1, <2>2 DEF Init, ServiceInit, OtherTypesOK
<1>10. QED BY <1>3, <1>4, <1>5, <1>7, <1>8, <1>9, TypesSplit DEF ProxyInv, ManagerInv

\* Finish and Connect touch neither the manager nor a handler.
LEMMA OutsideOK ==
  ASSUME ManagerInv, OtherTypesOK, NEW n \in Nodes, Finished(n) \/ Connect(n)
  PROVE  ManagerInv' /\ OtherTypesOK'
<1>1. UNCHANGED <<managerVars, master_, handler, known>>
  BY DEF Finished, Finish, Connect, CreateOrReconfigureInstance
<1>2. NodeTypeOK'
  BY <1>1 DEF ManagerInv, NodeTypeOK
<1>3. ManagerInv'
  BY <1>1, <1>2, HarmlessOK
<1>4. CASE Finished(n)
  <2>1. /\ working' = [working EXCEPT ![n] = FALSE]
        /\ map_' = map_ /\ instance_' = instance_ /\ rpc' = rpc /\ late' = late
        /\ client' = client /\ calls' = calls /\ known' = known
    BY <1>4 DEF Finished, Finish, managerVars
  <2>2. working' \in [Nodes -> BOOLEAN]
    BY <2>1 DEF OtherTypesOK
  <2>3. QED BY <1>3, <2>1, <2>2 DEF OtherTypesOK
<1>5. CASE Connect(n)
  <2>1. /\ instance_' = [instance_ EXCEPT ![n] = TRUE] /\ calls' = calls + 1
        /\ map_' = map_ /\ working' = working /\ rpc' = rpc /\ late' = late
        /\ client' = client /\ known' = known
    BY <1>5 DEF Connect, CreateOrReconfigureInstance, Call, managerVars
  <2>2. instance_' \in [Nodes -> BOOLEAN]
    BY <2>1 DEF OtherTypesOK
  <2>3. QED BY <1>3, <2>1, <2>2 DEF OtherTypesOK
<1>6. QED BY <1>4, <1>5

LEMMA StutterOK ==
  ASSUME ManagerInv, OtherTypesOK, UNCHANGED vars
  PROVE  ManagerInv' /\ OtherTypesOK'
<1>1. UNCHANGED <<managerVars, master_, handler, known>>
  BY DEF vars, serviceVars, nodeVars
<1>2. NodeTypeOK'
  BY <1>1 DEF ManagerInv, NodeTypeOK
<1>3. ManagerInv'
  BY <1>1, <1>2, HarmlessOK
<1>4. OtherTypesOK'
  BY DEF vars, serviceVars, nodeVars, managerVars, OtherTypesOK
<1>5. QED BY <1>3, <1>4

LEMMA StepOK == ProxyInv /\ [Next]_vars => ProxyInv'
<1>1. SUFFICES ASSUME TypeOK, ManagerInv, OtherTypesOK, [Next]_vars
               PROVE  ManagerInv' /\ OtherTypesOK'
  <2>1. (ManagerInv /\ OtherTypesOK => TypeOK)'
    BY TypesSplit, PTL
  <2>2. QED BY <2>1, TypesOpen DEF ProxyInv
<1>2. CASE \E c \in Clients : ApiCall(c)
  BY <1>1, <1>2, ApiCallOK, ApiCallType
<1>3. CASE \E c \in Clients : ClientStep(c)
  BY <1>1, <1>3, ClientStepOK, ClientStepType
<1>4. CASE \E c \in Clients : Timeout(c)
  BY <1>1, <1>4, TimeoutOK, TimeoutType
<1>5. CASE \E n \in Nodes : NodeStep(n)
  BY <1>1, <1>5, NodeStepOK, NodeStepType
<1>6. CASE \E n \in Nodes : Finished(n) \/ Connect(n)
  BY <1>1, <1>6, OutsideOK
<1>7. CASE UNCHANGED vars
  BY <1>1, <1>7, StutterOK
<1>8. QED BY <1>1, <1>2, <1>3, <1>4, <1>5, <1>6, <1>7 DEF Next

\* Every behaviour satisfies the invariant.
THEOREM ProxyInvariant == Spec => []ProxyInv
BY InitOK, StepOK, PTL DEF Spec

\* TypeOK: every variable keeps its type, however requests and replies are lost.
THEOREM ProxyTypeCorrect == Spec => []TypeOK
<1>1. ProxyInv => TypeOK
  BY DEF ProxyInv
<1>2. QED BY <1>1, ProxyInvariant, PTL

\* NothingLost: what Create returned is registered under the id it returned
\* until it is disposed of, for any number of threads and node controllers.
THEOREM CreatedIsRegistered == Spec => []NothingLost
<1>1. ProxyInv => NothingLost
  BY DEF ProxyInv, ManagerInv, KnownOK
<1>2. QED BY <1>1, ProxyInvariant, PTL

\* OneHosted: a node controller hosts exactly the master component it refers to,
\* though a request may be served after its caller has given up.
THEOREM OneHostedComponent == Spec => []OneHosted
<1>1. ProxyInv => OneHosted
  BY DEF ProxyInv, ManagerInv, HostedOK, OneHosted
<1>2. QED BY <1>1, ProxyInvariant, PTL
-----------------------------------------------------------------------------
(* The component that a proxy reaches is younger than the proxy.           *)

UseMethods == {"CreateModel", "InvokeIteration", "WaitIdle"}

\* What is left to call in the middle of a call of the API.
MethodsOK(pc, methods) ==
  \/ methods = <<>>
  \/ pc = "create" /\ methods \in
       {<<"DisposeInstance", "DisposeMasterComponent", "CreateMasterComponent">>,
        <<"DisposeMasterComponent", "CreateMasterComponent">>, <<"CreateMasterComponent">>}
  \/ pc = "use" /\ \E method \in UseMethods : methods = <<method>>
  \/ pc = "destroy" /\ methods = <<"DisposeMasterComponent">>

\* A thread calls the node of its proxy, and constructs nothing else.
ClientLink(c) ==
  /\ client[c].pc = "ready" => client[c].node = Nil
  /\ client[c].pc \in {"use", "destroy"} => client[c].node \in Nodes
  /\ MethodsOK(client[c].pc, rpc[c].methods)
  /\ HasCall(c) => client[c].node \in Nodes /\ rpc[c].node = client[c].node
  /\ rpc[c].state = "still" => client[c].pc = "use"
  /\ client[c].pc = "create" =>
       IF building[c].object.kind = "proxy"
       THEN building[c].object.node = client[c].node /\ client[c].node \in Nodes
       ELSE client[c].node = Nil

\* A handler that works for a thread serves the RPC that the thread waits for.
HandlerLink(n) ==
  /\ handler[n].pc = "free" => handler[n] = Free
  /\ \A c \in Clients : handler[n].from = c =>
       /\ HasCall(c) /\ rpc[c].node = n /\ rpc[c].state = "serving"
       /\ handler[n].method = Head(rpc[c].methods)

LinkInv ==
  /\ \A c \in Clients : ClientLink(c)
  /\ \A n \in Nodes : HandlerLink(n)
  /\ \A i \in DOMAIN map_ : map_[i].kind = "proxy" => map_[i].node \in Nodes

\* The constructor has seen, or has on its way, the answer to its reset.
ResetDone(c) ==
  \/ rpc[c].methods \in {<<>>, <<"CreateMasterComponent">>}
  \/ /\ rpc[c].methods = <<"DisposeMasterComponent", "CreateMasterComponent">>
     /\ rpc[c].state = "done"

\* What node n hosts, or is about to host, was created after id i was taken.
Younger(n, i) ==
  /\ master_[n] # Nil => master_[n] > i
  /\ building[n] # Nil => building[n].id > i
  /\ \A j \in HostedBy(n) : j > i

FreshInv ==
  /\ \A n \in Nodes : building[n] # Nil => handler[n].pc = "creating"
  /\ \A c \in Clients :
       client[c].pc = "create" /\ client[c].node \in Nodes /\ building[c] # Nil /\ ResetDone(c) =>
         Younger(client[c].node, building[c].id)
  /\ \A i \in DOMAIN map_ : map_[i].kind = "proxy" => Younger(map_[i].node, i)

-----------------------------------------------------------------------------
\* The steps of a node, as the proofs distinguish them.
Accepts(n, c) ==
  /\ handler[n].pc = "free"
  /\ HasCall(c) /\ rpc[c].node = n /\ rpc[c].state = "sent"
  /\ handler'[n] = Begin(Head(rpc[c].methods), c)
  /\ rpc' = [rpc EXCEPT ![c].state = "serving"]
  /\ UNCHANGED <<late, master_>>

AcceptsLate(n, m) ==
  /\ late[n][m] > 0
  /\ handler'[n] = Begin(m, Nil)
  /\ late' = [late EXCEPT ![n][m] = @ - 1]
  /\ UNCHANGED <<rpc, master_>>

GoesOn(n) ==
  /\ handler[n].pc # "free" /\ handler'[n].pc # "free"
  /\ handler'[n].method = handler[n].method /\ handler'[n].from = handler[n].from
  /\ UNCHANGED <<rpc, late, master_>>

Replies(n) ==
  /\ handler[n].pc # "free" /\ handler'[n] = Free
  /\ \E answer : /\ answer = "still" => handler[n].method = "WaitIdle"
                 /\ rpc' = IF handler[n].from = Nil THEN rpc
                           ELSE [rpc EXCEPT ![handler[n].from].state = answer]
  /\ UNCHANGED late
  /\ handler[n].method = "DisposeMasterComponent" => master_'[n] = Nil

ProxiesStay ==
  \A i \in DOMAIN map_' : map_'[i].kind = "proxy" => i \in DOMAIN map_ /\ map_[i] = map_'[i]

LEMMA NodeMovesOK ==
  ASSUME ProxyInv, NEW n \in Nodes, NodeStep(n)
  PROVE  /\ \/ \E c \in Clients : Accepts(n, c)
            \/ \E m \in Methods : AcceptsLate(n, m)
            \/ GoesOn(n) \/ Replies(n)
         /\ ProxiesStay /\ UNCHANGED client
         /\ \A c \in Clients : building'[c] = building[c]
         /\ \A k \in Nodes \ {n} : handler'[k] = handler[k] /\ master_'[k] = master_[k]
<1>0. /\ handler \in [Nodes -> Handler] /\ master_ \in [Nodes -> Nat \cup {Nil}]
      /\ building \in [Thread -> [id : Nat, object : Object] \cup {Nil}]
      /\ HostedOK /\ BuildingOK /\ IdsOK
  BY DEF ProxyInv, ManagerInv, NodeTypeOK, IdsOK
<1>1. UNCHANGED client
  BY DEF NodeStep
<1>2. n \in Thread /\ Clients \subseteq Thread /\ n \notin Clients
  BY ServiceAssumption
<1>3. ASSUME UNCHANGED managerVars
      PROVE  ProxiesStay /\ \A c \in Clients : building'[c] = building[c]
  BY <1>3 DEF managerVars, ProxiesStay
<1>4. ASSUME NEW c \in Clients, Accept(n, c)
      PROVE  Accepts(n, c) /\ \A k \in Nodes \ {n} : handler'[k] = handler[k] /\ master_'[k] = master_[k]
  BY <1>0, <1>4 DEF Accept, Accepts
<1>5. ASSUME NEW m \in Methods, AcceptLate(n, m)
      PROVE  AcceptsLate(n, m) /\ \A k \in Nodes \ {n} : handler'[k] = handler[k] /\ master_'[k] = master_[k]
  BY <1>0, <1>5 DEF AcceptLate, AcceptsLate
<1>6. ASSUME Handle(n), UNCHANGED managerVars
      PROVE  Replies(n) /\ \A k \in Nodes \ {n} : handler'[k] = handler[k] /\ master_'[k] = master_[k]
  <2>0. ASSUME NEW answer, Reply(n, answer),
               answer = "still" => handler[n].method = "WaitIdle",
               handler[n].pc # "free",
               UNCHANGED master_ \/ \E id : master_' = [master_ EXCEPT ![n] = id],
               handler[n].method = "DisposeMasterComponent" => master_'[n] = Nil
        PROVE  Replies(n) /\ \A k \in Nodes \ {n} : handler'[k] = handler[k] /\ master_'[k] = master_[k]
    <3>1. handler' = [handler EXCEPT ![n] = Free]
      BY <2>0 DEF Reply
    <3>2. \A k \in Nodes \ {n} : handler'[k] = handler[k] /\ master_'[k] = master_[k]
      BY <1>0, <2>0, <3>1
    <3>3. handler'[n] = Free
      BY <1>0, <3>1
    <3>4. QED
      BY <2>0, <3>2, <3>3 DEF Reply, Replies
  <2>1. CASE \/ DisposeInstance(n) \/ DisposeMasterComponentNone(n) \/ CreateModel(n)
             \/ InvokeIteration(n)
    BY <2>0, <2>1
    DEF DisposeInstance, DisposeMasterComponentNone, CreateModel, InvokeIteration, Handles
  <2>2. CASE CreateMasterComponentReconfigure(n)
    BY <2>0, <2>2 DEF CreateMasterComponentReconfigure, Handles
  <2>3. CASE WaitIdle(n)
    BY <2>0, <2>3 DEF WaitIdle, Handles
  <2>4. CASE DisposeMasterComponentReset(n)
    BY <1>0, <2>0, <2>4 DEF DisposeMasterComponentReset, Handles
  <2>5. CASE CreateMasterComponentGet(n)
    BY <2>0, <2>5 DEF CreateMasterComponentGet, Handles
  <2>6. CASE \/ DisposeMasterComponentErase(n) \/ CreateMasterComponent(n)
             \/ CreateMasterComponentInsert(n)
    <3>1. CASE DisposeMasterComponentErase(n)
      <4>1. master_[n] \in HostedBy(n)
        BY <1>0, <3>1 DEF DisposeMasterComponentErase, Handles, HostedOK
      <4>2. DOMAIN map_' = DOMAIN map_ \ {master_[n]}
        BY <1>0, <3>1, EraseOK DEF DisposeMasterComponentErase
      <4>3. QED
        BY <1>6, <4>1, <4>2 DEF managerVars, HostedBy
    <3>2. CASE CreateMasterComponent(n)
      <4>1. next_id_' = next_id_ + 1
        BY <1>0, <3>2, FreeIdIsNext DEF CreateMasterComponent, Reserve
      <4>2. QED
        BY <1>0, <1>6, <4>1 DEF managerVars, IdsOK
    <3>3. CASE CreateMasterComponentInsert(n)
      BY <1>0, <1>2, <1>6, <3>3 DEF CreateMasterComponentInsert, Insert, managerVars
    <3>4. QED
      BY <2>6, <3>1, <3>2, <3>3
  <2>7. QED
    BY <1>6, <2>1, <2>2, <2>3, <2>4, <2>5, <2>6 DEF Handle
<1>7. ASSUME Handle(n), ~UNCHANGED managerVars
      PROVE  /\ GoesOn(n) /\ ProxiesStay /\ \A c \in Clients : building'[c] = building[c]
             /\ \A k \in Nodes \ {n} : handler'[k] = handler[k] /\ master_'[k] = master_[k]
  <2>1. \/ DisposeMasterComponentErase(n) \/ CreateMasterComponent(n)
        \/ CreateMasterComponentInsert(n)
    BY <1>7 DEF Handle, DisposeInstance, DisposeMasterComponentNone, CreateModel,
                InvokeIteration, CreateMasterComponentReconfigure, WaitIdle,
                DisposeMasterComponentReset, CreateMasterComponentGet
  <2>2. GoesOn(n) /\ \A k \in Nodes \ {n} : handler'[k] = handler[k] /\ master_'[k] = master_[k]
    BY <1>0, <2>1
    DEF DisposeMasterComponentErase, CreateMasterComponent, CreateMasterComponentInsert,
        Handles, GoesOn, Handler
  <2>3. CASE DisposeMasterComponentErase(n)
    <3>1. master_[n] \in HostedBy(n)
      BY <1>0, <2>3 DEF DisposeMasterComponentErase, Handles, HostedOK
    <3>2. /\ building' = building /\ DOMAIN map_' = DOMAIN map_ \ {master_[n]}
          /\ \A i \in DOMAIN map_ \ {master_[n]} : map_'[i] = map_[i]
      BY <1>0, <2>3, EraseOK DEF DisposeMasterComponentErase
    <3>3. ProxiesStay
      BY <3>1, <3>2 DEF ProxiesStay, HostedBy
    <3>4. QED
      BY <2>2, <3>2, <3>3
  <2>4. CASE CreateMasterComponent(n)
    <3>1. map_' = map_ /\ \A c \in Clients : building'[c] = building[c]
      BY <1>0, <1>2, <2>4 DEF CreateMasterComponent, Reserve
    <3>2. QED
      BY <2>2, <3>1 DEF ProxiesStay
  <2>5. CASE CreateMasterComponentInsert(n)
    <3>1. /\ building[n] # Nil /\ \A c \in Clients : building'[c] = building[c]
          /\ map_' = [i \in DOMAIN map_ \cup {building[n].id} |->
                        IF i \in DOMAIN map_ THEN map_[i] ELSE building[n].object]
      BY <1>0, <1>2, <2>5 DEF CreateMasterComponentInsert, Insert
    <3>2. building[n].object.kind = "hosted"
      BY <1>0, <3>1 DEF BuildingOK
    <3>3. ProxiesStay
      BY <3>1, <3>2 DEF ProxiesStay
    <3>4. QED
      BY <2>2, <3>1, <3>3
  <2>6. QED
    BY <2>1, <2>3, <2>4, <2>5
<1>8. QED
  <2>1. CASE Handle(n)
    <3>1. CASE UNCHANGED managerVars
      BY <1>1, <1>3, <1>6, <2>1, <3>1
    <3>2. CASE ~UNCHANGED managerVars
      BY <1>1, <1>7, <2>1, <3>2
    <3>3. QED
      BY <3>1, <3>2
  <2>2. CASE \E c \in Clients : Accept(n, c)
    <3>1. UNCHANGED managerVars
      BY <2>2 DEF Accept
    <3>2. QED
      BY <1>1, <1>3, <1>4, <2>2, <3>1
  <2>3. CASE \E m \in Methods : AcceptLate(n, m)
    <3>1. UNCHANGED managerVars
      BY <2>3 DEF AcceptLate
    <3>2. QED
      BY <1>1, <1>3, <1>5, <2>3, <3>1
  <2>4. QED
    BY <2>1, <2>2, <2>3 DEF NodeStep
-----------------------------------------------------------------------------
\* A call of thread c ends, or releases the last reference to a proxy: what it
\* waits for goes on without it, and a request may come late.
Leaves(c) ==
  /\ \/ Returning(c)
     \/ /\ client[c].pc = "use" /\ client[c].id \notin DOMAIN map_
        /\ Destroying(c, client[c].node)
  /\ UNCHANGED <<map_, master_>>
  /\ \A t \in Thread \ {c} : building'[t] = building[t]
  /\ handler' = [n \in Nodes |-> IF handler[n].from = c
                                 THEN [handler[n] EXCEPT !.from = Nil] ELSE handler[n]]
  /\ \/ late' = late
     \/ HasCall(c) /\ late' = [late EXCEPT ![rpc[c].node][Head(rpc[c].methods)] = @ + 1]

\* The call goes on: the next RPC, or the same once more.
Continues(c) ==
  /\ HasCall(c)
  /\ \/ /\ rpc[c].state = "done"
        /\ rpc' = [rpc EXCEPT ![c].methods = Tail(@), ![c].state = "sent"]
     \/ /\ rpc[c].state = "still"
        /\ rpc' = [rpc EXCEPT ![c].state = "sent"]
  /\ UNCHANGED <<map_, building, master_, handler, late, client>>

LEMMA LeavesOK ==
  ASSUME ProxyInv, LinkInv, NEW c \in Clients,
         UseReturn(c) \/ DestroyReturn(c) \/ WaitIdleTimeout(c) \/ Error(c) \/ Timeout(c)
  PROVE  Leaves(c)
<1>0. /\ handler \in [Nodes -> Handler]
      /\ building \in [Thread -> [id : Nat, object : Object] \cup {Nil}]
      /\ Clients \subseteq Thread
  BY ServiceAssumption DEF ProxyInv, ManagerInv, NodeTypeOK, IdsOK
<1>1. ASSUME client[c].pc = "use", Release(c)
      PROVE  \/ Returning(c)
             \/ /\ client[c].pc = "use" /\ client[c].id \notin DOMAIN map_
                /\ Destroying(c, client[c].node)
  BY <1>1 DEF Release, Held
<1>2. ASSUME rpc[c].state # "serving" \/ ~HasCall(c), UNCHANGED handler
      PROVE  handler' = [n \in Nodes |-> IF handler[n].from = c
                                 THEN [handler[n] EXCEPT !.from = Nil] ELSE handler[n]]
  <2>1. \A n \in Nodes : handler[n].from # c
    BY <1>2 DEF LinkInv, HandlerLink
  <2>2. QED
    BY <1>0, <1>2, <2>1
<1>3. ASSUME Fail(c)
      PROVE  /\ \/ Returning(c)
                \/ /\ client[c].pc = "use" /\ client[c].id \notin DOMAIN map_
                   /\ Destroying(c, client[c].node)
             /\ UNCHANGED map_ /\ \A t \in Thread \ {c} : building'[t] = building[t]
  BY <1>0, <1>1, <1>3 DEF Fail, Abandon, managerVars
<1>4. CASE UseReturn(c)
  BY <1>1, <1>2, <1>4 DEF UseReturn, Leaves, managerVars, nodeVars
<1>5. CASE DestroyReturn(c)
  BY <1>2, <1>5 DEF DestroyReturn, Leaves, managerVars, nodeVars
<1>6. CASE WaitIdleTimeout(c)
  <2>1. client[c].pc = "use"
    BY <1>6 DEF WaitIdleTimeout, LinkInv, ClientLink
  <2>2. QED
    BY <1>1, <1>2, <1>6, <2>1 DEF WaitIdleTimeout, Leaves, managerVars, nodeVars
<1>7. CASE Error(c)
  BY <1>2, <1>3, <1>7 DEF Error, Leaves, nodeVars
<1>8. CASE Timeout(c)
  BY <1>3, <1>8 DEF Timeout, Leaves
<1>9. QED
  BY <1>4, <1>5, <1>6, <1>7, <1>8

LEMMA ContinuesOK ==
  ASSUME NEW c \in Clients, Receive(c) \/ PollAgain(c)
  PROVE  Continues(c)
BY DEF Receive, PollAgain, Continues, managerVars, nodeVars

\* Nothing that the invariant speaks of.
Aside ==
  UNCHANGED <<map_, building, master_, handler, rpc, late, client>>

\* The steps of Next.
LEMMA NextCases ==
  ASSUME ProxyInv, LinkInv, [Next]_vars
  PROVE  \/ Aside
         \/ \E n \in Nodes : NodeStep(n)
         \/ \E c \in Clients :
              \/ CreateMasterComponentLocally(c)
              \/ \E n \in Nodes : CreateMasterProxy(c, n)
              \/ \E id \in DOMAIN known :
                   \/ ArtmDisposeMasterComponent(c, id)
                   \/ \E method \in UseMethods : Use(c, id, method)
              \/ CreateReturn(c) \/ Continues(c) \/ Leaves(c)
<1>1. CASE UNCHANGED vars \/ \E n \in Nodes : Finished(n) \/ Connect(n)
  BY <1>1 DEF vars, managerVars, serviceVars, nodeVars, Finished, Finish, Connect,
              CreateOrReconfigureInstance, Aside
<1>2. ASSUME NEW c \in Clients, ClientStep(c) \/ Timeout(c)
      PROVE  CreateReturn(c) \/ Continues(c) \/ Leaves(c)
  BY <1>2, LeavesOK, ContinuesOK DEF ClientStep
<1>3. QED
  BY <1>1, <1>2 DEF Next, ApiCall, UseMethods

-----------------------------------------------------------------------------
LEMMA MethodsTail ==
  ASSUME NEW pc, NEW methods, MethodsOK(pc, methods), methods # <<>>
  PROVE  /\ MethodsOK(pc, Tail(methods))
         /\ pc = "use" => Head(methods) \in UseMethods
         /\ Head(methods) = "WaitIdle" => pc = "use"
         /\ Tail(methods) # <<"DisposeMasterComponent">>
         /\ pc = "create" /\ Tail(methods) \in {<<>>, <<"CreateMasterComponent">>} =>
                methods \in {<<"CreateMasterComponent">>,
                             <<"DisposeMasterComponent", "CreateMasterComponent">>}
<1>1. CASE pc = "create"
  <2>1. CASE methods = <<"DisposeInstance", "DisposeMasterComponent", "CreateMasterComponent">>
    <3>1. Tail(methods) = <<"DisposeMasterComponent", "CreateMasterComponent">>
      BY <2>1
    <3>2. Head(methods) = "DisposeInstance" /\ Len(methods) = 3 /\ Len(Tail(methods)) = 2
      BY <2>1, <3>1
    <3>3. QED
      BY <1>1, <2>1, <3>1, <3>2 DEF MethodsOK
  <2>2. CASE methods = <<"DisposeMasterComponent", "CreateMasterComponent">>
    <3>1. Tail(methods) = <<"CreateMasterComponent">>
      BY <2>2
    <3>2. Head(methods) = "DisposeMasterComponent" /\ Len(methods) = 2 /\ Len(Tail(methods)) = 1
      BY <2>2, <3>1
    <3>3. Tail(methods) # <<"DisposeMasterComponent">>
      BY <3>1
    <3>4. QED
      BY <1>1, <2>2, <3>1, <3>2, <3>3 DEF MethodsOK
  <2>3. CASE methods = <<"CreateMasterComponent">>
    <3>1. Tail(methods) = <<>> /\ Head(methods) = "CreateMasterComponent"
      BY <2>3
    <3>2. QED
      BY <1>1, <2>3, <3>1 DEF MethodsOK
  <2>4. QED
    BY <1>1, <2>1, <2>2, <2>3 DEF MethodsOK
<1>2. CASE pc = "use"
  <2>1. PICK method \in UseMethods : methods = <<method>>
    BY <1>2 DEF MethodsOK
  <2>2. Tail(methods) = <<>> /\ Head(methods) = method
    BY <2>1
  <2>3. QED
    BY <1>2, <2>1, <2>2 DEF MethodsOK, UseMethods
<1>3. CASE pc = "destroy"
  <2>1. methods = <<"DisposeMasterComponent">>
    BY <1>3 DEF MethodsOK
  <2>2. Tail(methods) = <<>> /\ Head(methods) = "DisposeMasterComponent"
    BY <2>1
  <2>3. QED
    BY <1>3, <2>2 DEF MethodsOK
<1>4. QED
  BY <1>1, <1>2, <1>3 DEF MethodsOK

\* What the links say of a thread does not depend on the others.
LEMMA LinkKept ==
  ASSUME NEW c \in Clients, ClientLink(c),
         client'[c] = client[c], rpc'[c] = rpc[c], building'[c] = building[c]
  PROVE  ClientLink(c)'
BY DEF ClientLink, HasCall

LEMMA NodeLinks ==
  ASSUME ProxyInv, LinkInv, NEW n \in Nodes, NodeStep(n)
  PROVE  LinkInv'
<1>0. /\ rpc \in [Clients -> Rpc] /\ handler \in [Nodes -> Handler]
      /\ \A c \in Clients : ClientLink(c) /\ c # Nil
      /\ \A k \in Nodes : HandlerLink(k)
  BY ServiceAssumption DEF ProxyInv, TypeOK, LinkInv
<1>1. /\ UNCHANGED client /\ \A c \in Clients : building'[c] = building[c]
      /\ \A k \in Nodes \ {n} : handler'[k] = handler[k]
      /\ ProxiesStay
  BY NodeMovesOK
<1>2. ASSUME NEW c \in Clients, NEW d \in Clients, NEW state,
             rpc' = [rpc EXCEPT ![d].state = state], state = "still" => client[d].pc = "use"
      PROVE  ClientLink(c)' /\ rpc'[c].methods = rpc[c].methods /\ rpc'[c].node = rpc[c].node
  <2>1. rpc'[c] = IF c = d THEN [rpc[c] EXCEPT !.state = state] ELSE rpc[c]
    BY <1>0, <1>2
  <2>2. /\ rpc'[c].methods = rpc[c].methods /\ rpc'[c].node = rpc[c].node
        /\ rpc'[c].state = "still" => rpc[c].state = "still" \/ (c = d /\ state = "still")
    BY <1>0, <2>1 DEF Rpc
  <2>3. QED
    BY <1>0, <1>1, <1>2, <2>2 DEF ClientLink, HasCall
<1>3. ASSUME \A c \in Clients : rpc'[c] = rpc[c]
      PROVE  \A c \in Clients : ClientLink(c)'
  BY <1>0, <1>1, <1>3, LinkKept
<1>4. CASE \E c \in Clients : Accepts(n, c)
  <2>1. PICK c \in Clients : Accepts(n, c)
    BY <1>4
  <2>2. \A d \in Clients : ClientLink(d)' /\ rpc'[d].methods = rpc[d].methods /\ rpc'[d].node = rpc[d].node
    BY <1>2, <2>1 DEF Accepts
  <2>3. rpc'[c].state = "serving" /\ \A d \in Clients \ {c} : rpc'[d] = rpc[d]
    BY <1>0, <2>1 DEF Accepts, Rpc
  <2>4. HandlerLink(n)'
    BY <2>1, <2>2, <2>3 DEF Accepts, HandlerLink, Begin, HasCall
  <2>5. ASSUME NEW k \in Nodes \ {n} PROVE HandlerLink(k)'
    <3>1. handler[k].from # c
      BY <1>0, <2>1 DEF HandlerLink, Accepts
    <3>2. QED
      BY <1>0, <1>1, <2>3, <3>1 DEF HandlerLink, HasCall
  <2>6. QED
    BY <1>0, <1>1, <2>2, <2>4, <2>5 DEF LinkInv, ProxiesStay
<1>5. CASE \E m \in Methods : AcceptsLate(n, m)
  <2>1. PICK m \in Methods : AcceptsLate(n, m)
    BY <1>5
  <2>2. HandlerLink(n)'
    BY <1>0, <2>1 DEF AcceptsLate, HandlerLink, Begin
  <2>3. \A k \in Nodes \ {n} : HandlerLink(k)'
    BY <1>0, <1>1, <2>1 DEF HandlerLink, HasCall, AcceptsLate
  <2>4. QED
    BY <1>1, <1>3, <2>1, <2>2, <2>3 DEF LinkInv, ProxiesStay, AcceptsLate
<1>6. CASE GoesOn(n)
  <2>1. \A k \in Nodes : HandlerLink(k)'
    BY <1>0, <1>1, <1>6 DEF HandlerLink, HasCall, GoesOn
  <2>2. QED
    BY <1>1, <1>3, <1>6, <2>1 DEF LinkInv, ProxiesStay, GoesOn
<1>7. CASE Replies(n)
  <2>1. HandlerLink(n)'
    BY <1>0, <1>7 DEF Replies, HandlerLink, Free
  <2>2. CASE handler[n].from = Nil
    <3>1. rpc' = rpc
      BY <1>7, <2>2 DEF Replies
    <3>2. \A k \in Nodes \ {n} : HandlerLink(k)'
      BY <1>0, <1>1, <3>1 DEF HandlerLink, HasCall
    <3>3. QED
      BY <1>1, <1>3, <2>1, <3>1, <3>2 DEF LinkInv, ProxiesStay
  <2>3. CASE handler[n].from # Nil
    <3>1. PICK answer : /\ answer = "still" => handler[n].method = "WaitIdle"
                        /\ rpc' = [rpc EXCEPT ![handler[n].from].state = answer]
      BY <1>7, <2>3 DEF Replies
    <3>2. PICK d \in Clients : handler[n].from = d
      BY <1>0, <2>3 DEF Handler
    <3>3. /\ HasCall(d) /\ rpc[d].node = n /\ handler[n].method = Head(rpc[d].methods)
          /\ MethodsOK(client[d].pc, rpc[d].methods)
      BY <1>0, <3>2 DEF HandlerLink, ClientLink
    <3>4. answer = "still" => client[d].pc = "use"
      BY <3>1, <3>3, MethodsTail DEF HasCall
    <3>5. \A c \in Clients : ClientLink(c)'
      BY <1>2, <3>1, <3>2, <3>4
    <3>6. ASSUME NEW k \in Nodes \ {n} PROVE HandlerLink(k)'
      <4>1. handler[k].from # d
        BY <1>0, <3>3 DEF HandlerLink
      <4>2. \A c \in Clients \ {d} : rpc'[c] = rpc[c]
        BY <1>0, <3>1, <3>2
      <4>3. QED
        BY <1>0, <1>1, <4>1, <4>2 DEF HandlerLink, HasCall
    <3>7. QED
      BY <1>1, <2>1, <3>5, <3>6 DEF LinkInv, ProxiesStay
  <2>4. QED
    BY <2>2, <2>3
<1>8. QED
  BY <1>4, <1>5, <1>6, <1>7, NodeMovesOK
-----------------------------------------------------------------------------
LEMMA HandlerLinks ==
  ASSUME LinkInv, NEW c \in Clients,
         \A d \in Clients \ {c} : rpc'[d] = rpc[d],
         \A n \in Nodes : \/ handler'[n] = handler[n] /\ handler[n].from # c
                          \/ /\ handler[n].from = c
                             /\ handler'[n].pc = handler[n].pc /\ handler'[n].from = Nil
  PROVE  \A n \in Nodes : HandlerLink(n)'
<1> SUFFICES ASSUME NEW n \in Nodes PROVE HandlerLink(n)'
  OBVIOUS
<1>0. HandlerLink(n) /\ Nil \notin Clients
  BY ServiceAssumption DEF LinkInv
<1>1. CASE handler'[n] = handler[n] /\ handler[n].from # c
  BY <1>0, <1>1 DEF HandlerLink, HasCall
<1>2. CASE /\ handler[n].from = c
           /\ handler'[n].pc = handler[n].pc /\ handler'[n].from = Nil
  <2>1. handler[n].pc # "free"
    BY <1>0, <1>2 DEF HandlerLink, Free
  <2>2. QED
    BY <1>0, <1>2, <2>1 DEF HandlerLink
<1>3. QED
  BY <1>1, <1>2

\* A thread that waits for no handler.
LEMMA NobodyServes ==
  ASSUME LinkInv, NEW c \in Clients, ~HasCall(c) \/ rpc[c].state # "serving"
  PROVE  \A n \in Nodes : handler[n].from # c
BY DEF LinkInv, HandlerLink

LEMMA ReadyHasNoCall ==
  ASSUME LinkInv, NEW c \in Clients, client[c].pc = "ready"
  PROVE  ~HasCall(c) /\ client[c].node = Nil /\ rpc[c].methods = <<>> /\ rpc[c].state # "still"
BY DEF LinkInv, ClientLink, MethodsOK, HasCall

LEMMA ReturnedLink ==
  ASSUME ProxyInv, NEW c \in Clients, Returning(c)
  PROVE  /\ ClientLink(c)' /\ client'[c] = Ready /\ rpc'[c] = NoRpc
         /\ \A d \in Clients \ {c} : client'[d] = client[d] /\ rpc'[d] = rpc[d]
<1>1. client \in [Clients -> Client] /\ rpc \in [Clients -> Rpc]
  BY DEF ProxyInv, TypeOK
<1>2. client'[c] = Ready /\ rpc'[c] = NoRpc
  BY <1>1 DEF Returning
<1>3. QED
  BY <1>1, <1>2 DEF Returning, ClientLink, Ready, NoRpc, MethodsOK, HasCall

LEMMA DestroyingLink ==
  ASSUME ProxyInv, NEW c \in Clients, NEW n \in Nodes, Destroying(c, n)
  PROVE  /\ ClientLink(c)' /\ client'[c] = [pc |-> "destroy", id |-> Nil, node |-> n]
         /\ rpc'[c] = Calling(n, <<"DisposeMasterComponent">>)
         /\ \A d \in Clients \ {c} : client'[d] = client[d] /\ rpc'[d] = rpc[d]
<1>1. client \in [Clients -> Client] /\ rpc \in [Clients -> Rpc]
  BY DEF ProxyInv, TypeOK
<1>2. /\ client'[c] = [pc |-> "destroy", id |-> Nil, node |-> n]
      /\ rpc'[c] = Calling(n, <<"DisposeMasterComponent">>)
  BY <1>1 DEF Destroying
<1>3. QED
  BY <1>1, <1>2 DEF Destroying, ClientLink, Calling, MethodsOK, HasCall

LEMMA LeavesLinks ==
  ASSUME ProxyInv, LinkInv, NEW c \in Clients, Leaves(c)
  PROVE  LinkInv'
<1>0. handler \in [Nodes -> Handler] /\ \A d \in Clients : ClientLink(d) /\ d \in Thread
  BY ServiceAssumption DEF ProxyInv, TypeOK, LinkInv
<1>1. ClientLink(c)' /\ \A d \in Clients \ {c} : client'[d] = client[d] /\ rpc'[d] = rpc[d]
  <2>1. CASE Returning(c)
    BY <2>1, ReturnedLink
  <2>2. CASE client[c].pc = "use" /\ Destroying(c, client[c].node)
    <3>1. client[c].node \in Nodes
      BY <1>0, <2>2 DEF ClientLink
    <3>2. QED
      BY <2>2, <3>1, DestroyingLink
  <2>3. QED
    BY <2>1, <2>2 DEF Leaves
<1>2. \A d \in Clients : ClientLink(d)'
  BY <1>0, <1>1, LinkKept DEF Leaves
<1>3. \A n \in Nodes : \/ handler'[n] = handler[n] /\ handler[n].from # c
                       \/ /\ handler[n].from = c
                          /\ handler'[n].pc = handler[n].pc /\ handler'[n].from = Nil
  BY <1>0 DEF Leaves, Handler
<1>4. \A n \in Nodes : HandlerLink(n)'
  BY <1>1, <1>3, HandlerLinks
<1>5. QED
  BY <1>2, <1>4 DEF LinkInv, Leaves

LEMMA ContinuesLinks ==
  ASSUME ProxyInv, LinkInv, NEW c \in Clients, Continues(c)
  PROVE  /\ LinkInv'
         /\ client[c].pc = "create" /\ ResetDone(c)' => ResetDone(c)
         /\ \A d \in Clients \ {c} : rpc'[d] = rpc[d]
<1>0. rpc \in [Clients -> Rpc] /\ ClientLink(c) /\ HasCall(c)
  BY DEF ProxyInv, TypeOK, LinkInv, Continues
<1>1. /\ rpc'[c].node = rpc[c].node /\ rpc'[c].state = "sent"
      /\ \A d \in Clients \ {c} : rpc'[d] = rpc[d]
      /\ \/ rpc[c].state = "done" /\ rpc'[c].methods = Tail(rpc[c].methods)
         \/ rpc[c].state = "still" /\ rpc'[c].methods = rpc[c].methods
  BY <1>0 DEF Continues, Rpc
<1>2. MethodsOK(client[c].pc, rpc'[c].methods)
  BY <1>0, <1>1, MethodsTail DEF ClientLink, HasCall
<1>3. ClientLink(c)'
  BY <1>0, <1>1, <1>2 DEF ClientLink, HasCall, Continues
<1>4. \A d \in Clients : ClientLink(d)'
  BY <1>1, <1>3, LinkKept DEF Continues, LinkInv
<1>5. \A n \in Nodes : handler[n].from # c
  BY NobodyServes DEF Continues
<1>6. \A n \in Nodes : HandlerLink(n)'
  BY <1>1, <1>5, HandlerLinks DEF Continues
<1>7. ASSUME client[c].pc = "create", ResetDone(c)' PROVE ResetDone(c)
  <2>1. rpc'[c].methods \in {<<>>, <<"CreateMasterComponent">>}
    BY <1>1, <1>7 DEF ResetDone
  <2>2. rpc[c].state = "done" /\ rpc'[c].methods = Tail(rpc[c].methods)
    BY <1>0, <1>1, <1>7 DEF ClientLink
  <2>3. MethodsOK("create", rpc[c].methods) /\ rpc[c].methods # <<>>
    BY <1>0, <1>7 DEF ClientLink, HasCall
  <2>4. QED
    BY <2>1, <2>2, <2>3, MethodsTail DEF ResetDone
<1>8. QED
  BY <1>1, <1>4, <1>6, <1>7 DEF LinkInv, Continues

LEMMA ReserveIs ==
  ASSUME ProxyInv, NEW c \in Clients, NEW object, Reserve(c, object)
  PROVE  /\ map_' = map_ /\ building'[c].object = object
         /\ \A t \in Thread \ {c} : building'[t] = building[t]
         /\ \A d \in Clients \ {c} : building'[d] = building[d]
<1>1. c \in Thread /\ Clients \subseteq Thread
  BY ServiceAssumption
<1>2. building \in [Thread -> [id : Nat, object : Object] \cup {Nil}]
  BY DEF ProxyInv, TypeOK
<1>3. QED
  BY <1>1, <1>2 DEF Reserve

\* A thread begins a call.
LEMMA CreateLocallyLinks ==
  ASSUME ProxyInv, LinkInv, NEW c \in Clients, CreateMasterComponentLocally(c)
  PROVE  LinkInv' /\ client'[c].node = Nil /\ \A d \in Clients \ {c} : client'[d] = client[d]
<1>0. client \in [Clients -> Client] /\ client[c].pc = "ready" /\ UNCHANGED <<rpc, handler>>
  BY DEF ProxyInv, TypeOK, CreateMasterComponentLocally, CallOf, serviceVars, nodeVars
<1>1. ~HasCall(c) /\ client[c].node = Nil /\ rpc[c].methods = <<>> /\ rpc[c].state # "still"
  BY <1>0, ReadyHasNoCall
<1>2. /\ map_' = map_ /\ building'[c].object.kind # "proxy"
      /\ \A d \in Clients \ {c} : building'[d] = building[d]
  BY ReserveIs DEF CreateMasterComponentLocally
<1>3. /\ client'[c].pc = "create" /\ client'[c].node = Nil
      /\ \A d \in Clients \ {c} : client'[d] = client[d]
  BY <1>0, <1>1 DEF CreateMasterComponentLocally, Client
<1>4. ClientLink(c)'
  BY <1>0, <1>1, <1>2, <1>3 DEF ClientLink, MethodsOK, HasCall
<1>5. \A d \in Clients : ClientLink(d)'
  BY <1>0, <1>2, <1>3, <1>4, LinkKept DEF LinkInv
<1>6. \A n \in Nodes : HandlerLink(n)'
  BY <1>0, <1>1, NobodyServes, HandlerLinks
<1>7. QED
  BY <1>2, <1>3, <1>5, <1>6 DEF LinkInv

LEMMA CreateProxyLinks ==
  ASSUME ProxyInv, LinkInv, NEW c \in Clients, NEW n \in Nodes, CreateMasterProxy(c, n)
  PROVE  /\ LinkInv' /\ client'[c].pc = "create" /\ client'[c].node = n /\ map_' = map_
         /\ rpc'[c] = Construction(n)
         /\ \A d \in Clients \ {c} : client'[d] = client[d] /\ rpc'[d] = rpc[d]
<1>0. /\ client \in [Clients -> Client] /\ rpc \in [Clients -> Rpc]
      /\ client[c].pc = "ready" /\ UNCHANGED handler
  BY DEF ProxyInv, TypeOK, CreateMasterProxy, CallOf, nodeVars
<1>1. ~HasCall(c) /\ client[c].node = Nil
  BY <1>0, ReadyHasNoCall
<1>2. /\ map_' = map_ /\ building'[c].object.kind = "proxy" /\ building'[c].object.node = n
      /\ \A d \in Clients \ {c} : building'[d] = building[d]
  BY ReserveIs DEF CreateMasterProxy
<1>3. /\ client'[c].pc = "create" /\ client'[c].node = n
      /\ \A d \in Clients \ {c} : client'[d] = client[d]
  BY <1>0 DEF CreateMasterProxy, Client
<1>4. rpc'[c] = Construction(n) /\ \A d \in Clients \ {c} : rpc'[d] = rpc[d]
  BY <1>0 DEF CreateMasterProxy
<1>5. ClientLink(c)'
  BY <1>2, <1>3, <1>4 DEF ClientLink, MethodsOK, HasCall, Construction, Calling
<1>6. \A d \in Clients : ClientLink(d)'
  BY <1>2, <1>3, <1>4, <1>5, LinkKept DEF LinkInv
<1>7. \A k \in Nodes : HandlerLink(k)'
  BY <1>0, <1>1, <1>4, NobodyServes, HandlerLinks
<1>8. QED
  BY <1>2, <1>3, <1>4, <1>6, <1>7 DEF LinkInv

\* A call of a proxy, and its disposal.
LEMMA KnownProxy ==
  ASSUME ProxyInv, LinkInv, NEW id \in DOMAIN known
  PROVE  /\ id \in DOMAIN map_ /\ map_[id] = known[id]
         /\ known[id].kind = "proxy" => known[id].node \in Nodes
BY DEF ProxyInv, ManagerInv, KnownOK, NothingLost, LinkInv

LEMMA UseLinks ==
  ASSUME ProxyInv, LinkInv, NEW c \in Clients, NEW id \in DOMAIN known,
         NEW method \in UseMethods, Use(c, id, method)
  PROVE  /\ LinkInv' /\ known[id].node \in Nodes
         /\ client'[c] = [pc |-> "use", id |-> id, node |-> known[id].node]
         /\ \A d \in Clients \ {c} : client'[d] = client[d] /\ rpc'[d] = rpc[d]
<1>0. /\ client \in [Clients -> Client] /\ rpc \in [Clients -> Rpc]
      /\ client[c].pc = "ready" /\ UNCHANGED <<handler, map_, building>>
  BY DEF ProxyInv, TypeOK, Use, CallOf, nodeVars, managerVars
<1>1. ~HasCall(c) /\ client[c].node = Nil
  BY <1>0, ReadyHasNoCall
<1>2. known[id].node \in Nodes
  BY KnownProxy DEF Use
<1>3. /\ client'[c] = [pc |-> "use", id |-> id, node |-> known[id].node]
      /\ rpc'[c] = Calling(known[id].node, <<method>>)
      /\ \A d \in Clients \ {c} : client'[d] = client[d] /\ rpc'[d] = rpc[d]
  BY <1>0 DEF Use
<1>4. ClientLink(c)'
  BY <1>2, <1>3 DEF ClientLink, MethodsOK, HasCall, Calling
<1>5. \A d \in Clients : ClientLink(d)'
  BY <1>0, <1>3, <1>4, LinkKept DEF LinkInv
<1>6. \A k \in Nodes : HandlerLink(k)'
  BY <1>0, <1>1, <1>3, NobodyServes, HandlerLinks
<1>7. QED
  BY <1>0, <1>2, <1>3, <1>5, <1>6 DEF LinkInv

LEMMA DisposeLinks ==
  ASSUME ProxyInv, LinkInv, NEW c \in Clients, NEW id \in DOMAIN known,
         ArtmDisposeMasterComponent(c, id)
  PROVE  /\ LinkInv' /\ client'[c].pc \in {"ready", "destroy"}
         /\ \/ client'[c].node = Nil
            \/ known[id].kind = "proxy" /\ client'[c].node = known[id].node
         /\ \A d \in Clients \ {c} : client'[d] = client[d] /\ rpc'[d] = rpc[d]
<1>0. client[c].pc = "ready" /\ UNCHANGED handler /\ IdsOK
  BY DEF ProxyInv, ManagerInv, ArtmDisposeMasterComponent, CallOf, nodeVars
<1>1. ~HasCall(c) /\ client[c].node = Nil
  BY <1>0, ReadyHasNoCall
<1>2. /\ building' = building /\ DOMAIN map_' = DOMAIN map_ \ {id}
      /\ \A i \in DOMAIN map_ \ {id} : map_'[i] = map_[i]
  BY <1>0, EraseOK DEF ArtmDisposeMasterComponent
<1>3. /\ ClientLink(c)' /\ client'[c].pc \in {"ready", "destroy"}
      /\ \/ client'[c].node = Nil
         \/ known[id].kind = "proxy" /\ client'[c].node = known[id].node
      /\ \A d \in Clients \ {c} : client'[d] = client[d] /\ rpc'[d] = rpc[d]
  <2>1. CASE Returning(c)
    <3>1. /\ ClientLink(c)' /\ client'[c] = Ready
          /\ \A d \in Clients \ {c} : client'[d] = client[d] /\ rpc'[d] = rpc[d]
      BY <2>1, ReturnedLink
    <3>2. client'[c].pc = "ready" /\ client'[c].node = Nil
      BY <3>1 DEF Ready
    <3>3. QED
      BY <3>1, <3>2
  <2>2. CASE known[id].kind = "proxy" /\ Destroying(c, known[id].node)
    <3>1. PICK n \in Nodes : n = known[id].node
      BY <2>2, KnownProxy
    <3>2. Destroying(c, n)
      BY <2>2, <3>1
    <3>3. /\ ClientLink(c)' /\ client'[c] = [pc |-> "destroy", id |-> Nil, node |-> n]
          /\ \A d \in Clients \ {c} : client'[d] = client[d] /\ rpc'[d] = rpc[d]
      BY <3>2, DestroyingLink
    <3>4. QED
      BY <2>2, <3>1, <3>3
  <2>3. Returning(c) \/ (known[id].kind = "proxy" /\ Destroying(c, known[id].node))
    <3>1. IF known[id].kind = "proxy" /\ \A other \in Clients : client[other].id # id
          THEN Destroying(c, known[id].node) ELSE Returning(c)
      BY Zenon DEF ArtmDisposeMasterComponent
    <3>2. QED
      BY <3>1, Zenon
  <2>4. QED
    BY <2>1, <2>2, <2>3
<1>4. \A d \in Clients : ClientLink(d)'
  BY <1>2, <1>3, LinkKept DEF LinkInv
<1>5. \A k \in Nodes : HandlerLink(k)'
  BY <1>0, <1>1, <1>3, NobodyServes, HandlerLinks
<1>6. QED
  BY <1>2, <1>3, <1>4, <1>5 DEF LinkInv

LEMMA CreateReturnLinks ==
  ASSUME ProxyInv, LinkInv, NEW c \in Clients, CreateReturn(c)
  PROVE  /\ LinkInv' /\ client'[c] = Ready
         /\ \A d \in Clients \ {c} : client'[d] = client[d] /\ rpc'[d] = rpc[d]
<1>0. /\ c \in Thread /\ Clients \subseteq Thread /\ Nil \notin Nodes
      /\ building \in [Thread -> [id : Nat, object : Object] \cup {Nil}]
      /\ client[c].pc = "create" /\ ~HasCall(c) /\ UNCHANGED handler /\ ClientLink(c) /\ IdsOK
  BY ServiceAssumption DEF ProxyInv, ManagerInv, TypeOK, CreateReturn, nodeVars, LinkInv
<1>1. /\ ClientLink(c)' /\ client'[c] = Ready
      /\ \A d \in Clients \ {c} : client'[d] = client[d] /\ rpc'[d] = rpc[d]
  BY ReturnedLink DEF CreateReturn
<1>2. PICK id, object : id = building[c].id /\ object = building[c].object
  OBVIOUS
<1>3. /\ map_' = [i \in DOMAIN map_ \cup {id} |-> IF i \in DOMAIN map_ THEN map_[i] ELSE object]
      /\ \A d \in Clients \ {c} : building'[d] = building[d]
      /\ id \notin DOMAIN map_
  BY <1>0, <1>2 DEF CreateReturn, Insert, IdsOK
<1>4. IF object.kind = "proxy" THEN object.node = client[c].node /\ client[c].node \in Nodes
      ELSE client[c].node = Nil
  BY <1>0, <1>2 DEF ClientLink
<1>5. \A d \in Clients : ClientLink(d)'
  BY <1>1, <1>3, LinkKept DEF LinkInv
<1>6. \A k \in Nodes : HandlerLink(k)'
  BY <1>0, <1>1, NobodyServes, HandlerLinks
<1>7. \A i \in DOMAIN map_' : map_'[i].kind = "proxy" => map_'[i].node \in Nodes
  BY <1>3, <1>4 DEF LinkInv
<1>8. QED
  BY <1>1, <1>5, <1>6, <1>7 DEF LinkInv
-----------------------------------------------------------------------------
\* What a step may do to what a node hosts: register what it was constructing,
\* begin to construct under a new id, refer to what it has registered.
Hosts(n) ==
  /\ HostedBy(n)' \subseteq
       HostedBy(n) \cup (IF building[n] = Nil THEN {} ELSE {building[n].id})
  /\ building'[n] \in {Nil, building[n]} \/ building'[n].id = next_id_
  /\ master_'[n] \in {Nil, master_[n]} \cup HostedBy(n)
  /\ building'[n] # Nil => handler'[n].pc = "creating"

\* A thread that is past the reset of its node was so before, or the reset has
\* just been served.
CreatorGoesOn(c) ==
  client'[c].pc = "create" /\ client'[c].node \in Nodes /\ ResetDone(c)' =>
    /\ client'[c] = client[c] /\ building'[c] = building[c]
    /\ \/ ResetDone(c)
       \/ master_'[client[c].node] = Nil /\ handler'[client[c].node] = Free

\* A proxy that is registered was so before, or has just been constructed.
Registered(i) ==
  \/ i \in DOMAIN map_ /\ map_[i] = map_'[i]
  \/ \E c \in Clients : /\ client[c].pc = "create" /\ client[c].node \in Nodes
                        /\ client[c].node = map_'[i].node
                        /\ building[c] # Nil /\ building[c].id = i /\ ResetDone(c)

Moves ==
  /\ \A n \in Nodes : Hosts(n)
  /\ \A c \in Clients : CreatorGoesOn(c)
  /\ \A i \in DOMAIN map_' : map_'[i].kind = "proxy" => Registered(i)

\* Ids grow: what was younger than an id that is taken stays so.
LEMMA YoungerKept ==
  ASSUME ProxyInv, NEW n \in Nodes, Hosts(n), NEW i \in Nat, i < next_id_, Younger(n, i)
  PROVE  Younger(n, i)'
<1>1. next_id_ \in Nat
  BY DEF ProxyInv, ManagerInv, IdsOK
<1>2. \A j \in HostedBy(n)' : j > i
  BY DEF Hosts, Younger
<1>3. master_'[n] # Nil => master_'[n] > i
  BY DEF Hosts, Younger
<1>4. building'[n] # Nil => building'[n].id > i
  BY <1>1 DEF Hosts, Younger
<1>5. QED
  BY <1>2, <1>3, <1>4 DEF Younger

LEMMA MovesFresh ==
  ASSUME ProxyInv, LinkInv, FreshInv, Moves, ProxyInv'
  PROVE  FreshInv'
<1>0. /\ building \in [Thread -> [id : Nat, object : Object] \cup {Nil}]
      /\ Clients \subseteq Thread /\ DOMAIN map_ \subseteq 0..(next_id_ - 1)
      /\ next_id_ \in Nat
      /\ \A t \in Thread : building[t] # Nil => building[t].id < next_id_
  BY ServiceAssumption DEF ProxyInv, ManagerInv, IdsOK
<1>1. ASSUME NEW c \in Clients, client[c].pc = "create", building[c] # Nil, ResetDone(c),
             NEW n \in Nodes, n = client[c].node, NEW i, i = building[c].id
      PROVE  i \in Nat /\ Younger(n, i)'
  <2>1. Younger(n, i)
    BY <1>1 DEF FreshInv
  <2>2. i \in Nat /\ i < next_id_
    BY <1>0, <1>1
  <2>3. QED
    BY <1>1, <2>1, <2>2, YoungerKept DEF Moves
<1>2. ASSUME NEW c \in Clients, client'[c].pc = "create", client'[c].node \in Nodes,
             building'[c] # Nil, ResetDone(c)', NEW n \in Nodes, n = client'[c].node, NEW i, i = building'[c].id
      PROVE  Younger(n, i)'
  <2>1. /\ client'[c] = client[c] /\ building'[c] = building[c]
        /\ ResetDone(c) \/ (master_'[n] = Nil /\ handler'[n] = Free)
    BY <1>2 DEF Moves, CreatorGoesOn
  <2>2. CASE ResetDone(c)
    BY <1>1, <1>2, <2>1, <2>2
  <2>3. CASE master_'[n] = Nil /\ handler'[n] = Free
    <3>1. building'[n] = Nil
      BY <2>3 DEF Moves, Hosts, Free
    <3>2. handler'[n].pc = "free"
      BY <2>3 DEF Free
    <3>3. HostedBy(n)' = {}
      BY <2>3, <3>2 DEF ProxyInv, ManagerInv, HostedOK
    <3>4. QED
      BY <2>3, <3>1, <3>3 DEF Younger
  <2>4. QED
    BY <2>1, <2>2, <2>3
<1>3. ASSUME NEW i \in DOMAIN map_', map_'[i].kind = "proxy",
             NEW n, n = map_'[i].node
      PROVE  Younger(n, i)'
  <2>1. CASE i \in DOMAIN map_ /\ map_[i] = map_'[i]
    <3>1. i \in Nat /\ i < next_id_
      BY <1>0, <2>1
    <3>2. n \in Nodes /\ Younger(n, i)
      BY <1>3, <2>1 DEF FreshInv, LinkInv
    <3>3. QED
      BY <3>1, <3>2, YoungerKept DEF Moves
  <2>2. CASE \E c \in Clients : /\ client[c].pc = "create" /\ client[c].node \in Nodes
                                /\ client[c].node = map_'[i].node
                                /\ building[c] # Nil /\ building[c].id = i /\ ResetDone(c)
    BY <1>1, <1>3, <2>2
  <2>3. QED
    BY <1>3, <2>1, <2>2 DEF Moves, Registered
<1>4. \A n \in Nodes : building'[n] # Nil => handler'[n].pc = "creating"
  BY DEF Moves, Hosts
<1>5. \A c \in Clients :
        client'[c].pc = "create" /\ client'[c].node \in Nodes /\ building'[c] # Nil
          /\ ResetDone(c)' => Younger(client[c].node, building[c].id)'
  BY <1>2 DEF Younger, HostedBy
<1>6. \A i \in DOMAIN map_' : map_'[i].kind = "proxy" => Younger(map_[i].node, i)'
  BY <1>3 DEF Younger, HostedBy
<1>7. QED
  BY <1>4, <1>5, <1>6 DEF FreshInv

-----------------------------------------------------------------------------
\* The node's own steps.
LEMMA NodeHosts ==
  ASSUME ProxyInv, FreshInv, NEW n \in Nodes, NodeStep(n)
  PROVE  \A k \in Nodes : Hosts(k)
<1>0. /\ handler \in [Nodes -> Handler] /\ master_ \in [Nodes -> Nat \cup {Nil}]
      /\ building \in [Thread -> [id : Nat, object : Object] \cup {Nil}]
      /\ Nodes \subseteq Thread
      /\ HostedOK /\ BuildingOK /\ IdsOK
      /\ \A k \in Nodes : building[k] # Nil => handler[k].pc = "creating"
  BY ServiceAssumption DEF ProxyInv, ManagerInv, NodeTypeOK, IdsOK, FreshInv
<1>1. \A k \in Nodes \ {n} : handler'[k] = handler[k] /\ master_'[k] = master_[k]
  BY NodeMovesOK
<1>2. ASSUME UNCHANGED managerVars, handler[n].pc # "creating",
             master_'[n] \in {Nil, master_[n]} \cup HostedBy(n)
      PROVE  \A k \in Nodes : Hosts(k)
  BY <1>0, <1>1, <1>2 DEF managerVars, Hosts, HostedBy
<1>3. CASE \/ \E c \in Clients : Accept(n, c)
           \/ \E m \in Methods : AcceptLate(n, m)
  BY <1>2, <1>3 DEF Accept, AcceptLate
<1>4. CASE \/ DisposeInstance(n) \/ DisposeMasterComponentNone(n) \/ CreateModel(n)
           \/ InvokeIteration(n) \/ CreateMasterComponentReconfigure(n) \/ WaitIdle(n)
  BY <1>2, <1>4
  DEF DisposeInstance, DisposeMasterComponentNone, CreateModel, InvokeIteration,
      CreateMasterComponentReconfigure, WaitIdle, Handles
<1>5. CASE DisposeMasterComponentReset(n)
  BY <1>0, <1>2, <1>5 DEF DisposeMasterComponentReset, Handles
<1>6. CASE CreateMasterComponentGet(n)
  <2>1. handler[n].pc = "created" /\ UNCHANGED managerVars
    BY <1>6 DEF CreateMasterComponentGet, Handles
  <2>2. handler[n].id \in HostedBy(n)
    BY <1>0, <2>1 DEF HostedOK
  <2>3. master_'[n] \in {Nil, handler[n].id}
    BY <1>0, <1>6 DEF CreateMasterComponentGet
  <2>4. QED
    BY <1>2, <2>1, <2>2, <2>3
<1>7. CASE DisposeMasterComponentErase(n)
  <2>1. /\ building' = building /\ DOMAIN map_' = DOMAIN map_ \ {master_[n]}
        /\ \A i \in DOMAIN map_ \ {master_[n]} : map_'[i] = map_[i]
        /\ master_' = master_ /\ handler[n].pc = "begin"
    BY <1>0, <1>7, EraseOK DEF DisposeMasterComponentErase, Handles
  <2>2. \A k \in Nodes : HostedBy(k)' \subseteq HostedBy(k)
    BY <2>1 DEF HostedBy
  <2>3. QED
    BY <1>0, <1>1, <2>1, <2>2 DEF Hosts
<1>8. CASE CreateMasterComponent(n)
  <2>1. /\ map_' = map_ /\ master_' = master_
        /\ building' = [building EXCEPT ![n] = [id |-> next_id_, object |->
                           [kind |-> "hosted", node |-> n, owner |-> n]]]
    BY <1>0, <1>8, FreeIdIsNext DEF CreateMasterComponent, Reserve
  <2>2. \A k \in Nodes : HostedBy(k)' = HostedBy(k)
    BY <2>1 DEF HostedBy
  <2>3. /\ building'[n].id = next_id_
        /\ \A k \in Nodes \ {n} : building'[k] = building[k]
    BY <1>0, <2>1
  <2>4. handler'[n].pc = "creating"
    BY <1>0, <1>8 DEF CreateMasterComponent, Handler
  <2>5. QED
    BY <1>0, <1>1, <2>1, <2>2, <2>3, <2>4 DEF Hosts
<1>9. CASE CreateMasterComponentInsert(n)
  <2>1. PICK id, object : id = building[n].id /\ object = building[n].object
    OBVIOUS
  <2>2. /\ building[n] # Nil /\ building' = [building EXCEPT ![n] = Nil]
        /\ map_' = [i \in DOMAIN map_ \cup {id} |-> IF i \in DOMAIN map_ THEN map_[i] ELSE object]
        /\ master_' = master_
    BY <1>9, <2>1 DEF CreateMasterComponentInsert, Insert
  <2>3. object.node = n
    BY <1>0, <2>1, <2>2 DEF BuildingOK
  <2>4. \A k \in Nodes : HostedBy(k)' \subseteq HostedBy(k) \cup (IF k = n THEN {id} ELSE {})
    BY <2>2, <2>3 DEF HostedBy
  <2>5. building'[n] = Nil /\ \A k \in Nodes \ {n} : building'[k] = building[k]
    BY <1>0, <2>2
  <2>6. QED
    BY <1>0, <1>1, <2>1, <2>2, <2>4, <2>5 DEF Hosts
<1>10. QED
  BY <1>3, <1>4, <1>5, <1>6, <1>7, <1>8, <1>9 DEF NodeStep, Handle

LEMMA NodeMoves ==
  ASSUME ProxyInv, LinkInv, FreshInv, NEW n \in Nodes, NodeStep(n)
  PROVE  Moves
<1>0. /\ rpc \in [Clients -> Rpc] /\ handler \in [Nodes -> Handler]
      /\ \A c \in Clients : ClientLink(c)
      /\ \A k \in Nodes : HandlerLink(k)
      /\ Nil \notin Clients
  BY ServiceAssumption DEF ProxyInv, TypeOK, LinkInv
<1>1. /\ \A c \in Clients : client'[c] = client[c] /\ building'[c] = building[c]
      /\ ProxiesStay
      /\ \/ \E c \in Clients : Accepts(n, c)
         \/ \E m \in Methods : AcceptsLate(n, m)
         \/ GoesOn(n) \/ Replies(n)
  BY NodeMovesOK
<1>2. ASSUME NEW c \in Clients, client[c].pc = "create", client[c].node \in Nodes,
             ResetDone(c)', ~ResetDone(c)
      PROVE  client[c].node = n /\ master_'[n] = Nil /\ handler'[n] = Free
  <2>1. /\ rpc[c].methods = <<"DisposeMasterComponent", "CreateMasterComponent">>
        /\ Replies(n) /\ handler[n].from = c
    <3>1. CASE \E d \in Clients : Accepts(n, d)
      <4>1. PICK d \in Clients : Accepts(n, d)
        BY <3>1
      <4>2. rpc'[c].methods = rpc[c].methods /\ rpc'[c].state \in {rpc[c].state, "serving"}
        BY <1>0, <4>1 DEF Accepts, Rpc
      <4>3. QED
        BY <1>2, <4>2 DEF ResetDone
    <3>2. CASE (\E m \in Methods : AcceptsLate(n, m)) \/ GoesOn(n)
      BY <1>2, <3>2 DEF AcceptsLate, GoesOn, ResetDone
    <3>3. CASE Replies(n)
      <4>1. handler[n].from \in Clients \/ rpc' = rpc
        BY <1>0, <3>3 DEF Replies, Handler
      <4>2. rpc'[c].methods = rpc[c].methods /\ (handler[n].from = c \/ rpc'[c] = rpc[c])
        BY <1>0, <3>3, <4>1 DEF Replies, Rpc
      <4>3. QED
        BY <1>2, <3>3, <4>2 DEF ResetDone
    <3>4. QED
      BY <1>1, <3>1, <3>2, <3>3
  <2>2. rpc[c].node = n /\ handler[n].method = Head(rpc[c].methods) /\ HasCall(c)
    BY <1>0, <2>1 DEF HandlerLink
  <2>3. handler[n].method = "DisposeMasterComponent"
    BY <2>1, <2>2
  <2>4. client[c].node = n
    BY <1>0, <2>2 DEF ClientLink
  <2>5. QED
    BY <2>1, <2>3, <2>4 DEF Replies
<1>3. \A c \in Clients : CreatorGoesOn(c)
  BY <1>1, <1>2 DEF CreatorGoesOn, FreshInv
<1>4. \A k \in Nodes : Hosts(k)
  BY NodeHosts
<1>5. QED
  BY <1>1, <1>3, <1>4 DEF Moves, Registered, ProxiesStay

-----------------------------------------------------------------------------
\* The steps of the threads leave what the nodes host alone.
LEMMA NodesStay ==
  ASSUME FreshInv, UNCHANGED master_,
         \A n \in Nodes : /\ HostedBy(n)' = HostedBy(n) /\ building'[n] = building[n]
                          /\ handler'[n].pc = handler[n].pc
  PROVE  \A n \in Nodes : Hosts(n)
BY DEF Hosts, FreshInv

\* A thread that does not move goes on.
LEMMA OthersGoOn ==
  ASSUME FreshInv, NEW c \in Clients, client'[c] = client[c], building'[c] = building[c],
         client[c].pc = "create" /\ ResetDone(c)' => ResetDone(c)
  PROVE  CreatorGoesOn(c)
BY DEF CreatorGoesOn, FreshInv

LEMMA ThreadMoves ==
  ASSUME ProxyInv, FreshInv, NEW c \in Clients, UNCHANGED master_, CreatorGoesOn(c),
         \A t \in Thread \ {c} : building'[t] = building[t],
         \A n \in Nodes : HostedBy(n)' = HostedBy(n) /\ handler'[n].pc = handler[n].pc,
         \A d \in Clients \ {c} : client'[d] = client[d] /\ rpc'[d] = rpc[d],
         \A i \in DOMAIN map_' : map_'[i].kind = "proxy" => Registered(i)
  PROVE  Moves
<1>0. Clients \subseteq Thread /\ Nodes \subseteq Thread /\ c \notin Nodes
  BY ServiceAssumption
<1>1. \A n \in Nodes : Hosts(n)
  BY <1>0, NodesStay
<1>2. \A d \in Clients \ {c} : CreatorGoesOn(d)
  BY <1>0, OthersGoOn DEF ResetDone
<1>3. QED
  BY <1>1, <1>2 DEF Moves

\* A thread ends its call, or begins one of an object that exists.
LEMMA NoCreator ==
  ASSUME NEW c \in Clients, client'[c].pc # "create"
  PROVE  CreatorGoesOn(c)
BY DEF CreatorGoesOn

LEMMA LeavesMoves ==
  ASSUME ProxyInv, LinkInv, FreshInv, NEW c \in Clients, Leaves(c)
  PROVE  Moves
<1>0. handler \in [Nodes -> Handler] /\ ClientLink(c)
  BY DEF ProxyInv, TypeOK, LinkInv
<1>1. /\ \A d \in Clients \ {c} : client'[d] = client[d] /\ rpc'[d] = rpc[d]
      /\ client'[c].pc # "create"
  <2>1. CASE Returning(c)
    BY <2>1, ReturnedLink DEF Ready
  <2>2. CASE client[c].pc = "use" /\ Destroying(c, client[c].node)
    <3>1. PICK n \in Nodes : n = client[c].node
      BY <1>0, <2>2 DEF ClientLink
    <3>2. /\ client'[c] = [pc |-> "destroy", id |-> Nil, node |-> n]
          /\ \A d \in Clients \ {c} : client'[d] = client[d] /\ rpc'[d] = rpc[d]
      BY <2>2, <3>1, DestroyingLink
    <3>3. QED
      BY <3>2
  <2>3. QED
    BY <2>1, <2>2 DEF Leaves
<1>2. /\ \A n \in Nodes : HostedBy(n)' = HostedBy(n) /\ handler'[n].pc = handler[n].pc
      /\ \A i \in DOMAIN map_' : Registered(i)
      /\ UNCHANGED master_ /\ \A t \in Thread \ {c} : building'[t] = building[t]
  BY <1>0 DEF Leaves, HostedBy, Handler, Registered
<1>3. QED
  BY <1>1, <1>2, NoCreator, ThreadMoves

LEMMA ContinuesMoves ==
  ASSUME ProxyInv, LinkInv, FreshInv, NEW c \in Clients, Continues(c)
  PROVE  Moves
<1>1. /\ client[c].pc = "create" /\ ResetDone(c)' => ResetDone(c)
      /\ \A d \in Clients \ {c} : rpc'[d] = rpc[d]
  BY ContinuesLinks
<1>2. UNCHANGED <<map_, building, master_, handler, client>>
  BY DEF Continues
<1>3. /\ \A n \in Nodes : HostedBy(n)' = HostedBy(n)
      /\ \A i \in DOMAIN map_' : Registered(i)
  BY <1>2 DEF HostedBy, Registered
<1>4. CreatorGoesOn(c)
  BY <1>1, <1>2, OthersGoOn
<1>5. QED
  BY <1>1, <1>2, <1>3, <1>4, ThreadMoves

LEMMA CreateLocallyMoves ==
  ASSUME ProxyInv, LinkInv, FreshInv, NEW c \in Clients, CreateMasterComponentLocally(c)
  PROVE  Moves
<1>0. Nil \notin Nodes /\ UNCHANGED <<map_, master_, handler, rpc>>
  BY ServiceAssumption DEF CreateMasterComponentLocally, serviceVars, nodeVars, Reserve
<1>1. client'[c].node = Nil /\ \A d \in Clients \ {c} : client'[d] = client[d]
  BY CreateLocallyLinks
<1>2. \A t \in Thread \ {c} : building'[t] = building[t]
  BY ReserveIs DEF CreateMasterComponentLocally
<1>3. /\ \A n \in Nodes : HostedBy(n)' = HostedBy(n)
      /\ \A i \in DOMAIN map_' : Registered(i)
  BY <1>0 DEF HostedBy, Registered
<1>4. CreatorGoesOn(c)
  BY <1>0, <1>1 DEF CreatorGoesOn
<1>5. QED
  BY <1>0, <1>1, <1>2, <1>3, <1>4, ThreadMoves

LEMMA CreateProxyMoves ==
  ASSUME ProxyInv, LinkInv, FreshInv, NEW c \in Clients, NEW n \in Nodes,
         CreateMasterProxy(c, n)
  PROVE  Moves
<1>0. UNCHANGED <<map_, master_, handler>>
  BY DEF CreateMasterProxy, nodeVars, Reserve
<1>1. /\ rpc'[c] = Construction(n)
      /\ \A d \in Clients \ {c} : client'[d] = client[d] /\ rpc'[d] = rpc[d]
  BY CreateProxyLinks
<1>2. \A t \in Thread \ {c} : building'[t] = building[t]
  BY ReserveIs DEF CreateMasterProxy
<1>3. /\ \A k \in Nodes : HostedBy(k)' = HostedBy(k)
      /\ \A i \in DOMAIN map_' : Registered(i)
  BY <1>0 DEF HostedBy, Registered
<1>4. ~ResetDone(c)'
  <2>1. rpc'[c].methods =
          <<"DisposeInstance", "DisposeMasterComponent", "CreateMasterComponent">>
    BY <1>1 DEF Construction, Calling
  <2>2. Len(rpc'[c].methods) = 3
    BY <2>1
  <2>3. rpc'[c].methods # <<>>
    BY <2>2
  <2>4. rpc'[c].methods # <<"CreateMasterComponent">>
    BY <2>2
  <2>5. rpc'[c].methods # <<"DisposeMasterComponent", "CreateMasterComponent">>
    BY <2>2
  <2>6. QED
    BY <2>3, <2>4, <2>5 DEF ResetDone
<1>5. CreatorGoesOn(c)
  BY <1>4 DEF CreatorGoesOn
<1>6. QED
  BY <1>0, <1>1, <1>2, <1>3, <1>5, ThreadMoves

LEMMA UseMoves ==
  ASSUME ProxyInv, LinkInv, FreshInv, NEW c \in Clients, NEW id \in DOMAIN known,
         NEW method \in UseMethods, Use(c, id, method)
  PROVE  Moves
<1>1. /\ client'[c] = [pc |-> "use", id |-> id, node |-> known[id].node]
      /\ \A d \in Clients \ {c} : client'[d] = client[d] /\ rpc'[d] = rpc[d]
  BY UseLinks
<1>2. UNCHANGED <<map_, building, master_, handler>>
  BY DEF Use, nodeVars, managerVars
<1>3. /\ \A n \in Nodes : HostedBy(n)' = HostedBy(n)
      /\ \A i \in DOMAIN map_' : Registered(i)
  BY <1>2 DEF HostedBy, Registered
<1>4. CreatorGoesOn(c)
  BY <1>1, NoCreator
<1>5. QED
  BY <1>1, <1>2, <1>3, <1>4, ThreadMoves

LEMMA DisposeMoves ==
  ASSUME ProxyInv, LinkInv, FreshInv, NEW c \in Clients, NEW id \in DOMAIN known,
         ArtmDisposeMasterComponent(c, id)
  PROVE  Moves
<1>0. IdsOK /\ map_[id].kind # "hosted" /\ UNCHANGED <<master_, handler>>
  BY DEF ProxyInv, ManagerInv, KnownOK, NothingLost, ArtmDisposeMasterComponent, nodeVars
<1>1. /\ client'[c].pc # "create"
      /\ \A d \in Clients \ {c} : client'[d] = client[d] /\ rpc'[d] = rpc[d]
  BY DisposeLinks
<1>2. /\ building' = building /\ DOMAIN map_' = DOMAIN map_ \ {id}
      /\ \A i \in DOMAIN map_ \ {id} : map_'[i] = map_[i]
  BY <1>0, EraseOK DEF ArtmDisposeMasterComponent
<1>3. /\ \A n \in Nodes : HostedBy(n)' = HostedBy(n)
      /\ \A i \in DOMAIN map_' : Registered(i)
  BY <1>0, <1>2 DEF HostedBy, Registered
<1>4. CreatorGoesOn(c)
  BY <1>1, NoCreator
<1>5. QED
  BY <1>0, <1>1, <1>2, <1>3, <1>4, ThreadMoves

\* The constructor has seen the node's replies.
LEMMA CreateReturnMoves ==
  ASSUME ProxyInv, LinkInv, FreshInv, NEW c \in Clients, CreateReturn(c)
  PROVE  Moves
<1>0. /\ client[c].pc = "create" /\ ~HasCall(c) /\ ClientLink(c) /\ IdsOK /\ BuildingOK
      /\ UNCHANGED <<master_, handler>> /\ c \in Thread
      /\ building \in [Thread -> [id : Nat, object : Object] \cup {Nil}]
  BY ServiceAssumption DEF ProxyInv, ManagerInv, IdsOK, LinkInv, CreateReturn, nodeVars
<1>1. /\ client'[c].pc # "create"
      /\ \A d \in Clients \ {c} : client'[d] = client[d] /\ rpc'[d] = rpc[d]
  BY CreateReturnLinks DEF Ready
<1>2. PICK id, object : id = building[c].id /\ object = building[c].object
  OBVIOUS
<1>3. /\ building[c] # Nil /\ id \notin DOMAIN map_ /\ DOMAIN map_' = DOMAIN map_ \cup {id}
      /\ map_'[id] = object /\ \A i \in DOMAIN map_ : map_'[i] = map_[i]
      /\ \A t \in Thread \ {c} : building'[t] = building[t]
  BY <1>0, <1>2, InsertOK DEF CreateReturn
<1>4. object.kind # "hosted"
  BY <1>0, <1>2, <1>3 DEF BuildingOK
<1>5. \A n \in Nodes : HostedBy(n)' = HostedBy(n)
  BY <1>3, <1>4 DEF HostedBy
<1>6. object.kind = "proxy" => Registered(id)
  BY <1>0, <1>2, <1>3 DEF ClientLink, HasCall, ResetDone, Registered
<1>7. \A i \in DOMAIN map_' : map_'[i].kind = "proxy" => Registered(i)
  BY <1>3, <1>6 DEF Registered
<1>8. CreatorGoesOn(c)
  BY <1>1, NoCreator
<1>9. QED
  BY <1>0, <1>1, <1>3, <1>5, <1>7, <1>8, ThreadMoves

LEMMA AsideMoves ==
  ASSUME ProxyInv, LinkInv, FreshInv, Aside
  PROVE  LinkInv' /\ Moves
<1>1. LinkInv'
  BY DEF Aside, LinkInv, ClientLink, HandlerLink, HasCall
<1>2. \A n \in Nodes : Hosts(n)
  BY NodesStay DEF Aside, HostedBy
<1>3. \A c \in Clients : CreatorGoesOn(c)
  BY OthersGoOn DEF Aside, ResetDone
<1>4. \A i \in DOMAIN map_' : Registered(i)
  BY DEF Aside, Registered
<1>5. QED
  BY <1>1, <1>2, <1>3, <1>4 DEF Moves

LEMMA StepMoves ==
  ASSUME ProxyInv, LinkInv, FreshInv, [Next]_vars
  PROVE  LinkInv' /\ Moves
BY NextCases, AsideMoves, NodeLinks, NodeMoves, CreateLocallyLinks, CreateLocallyMoves,
   CreateProxyLinks, CreateProxyMoves, DisposeLinks, DisposeMoves, UseLinks, UseMoves,
   CreateReturnLinks, CreateReturnMoves, ContinuesLinks, ContinuesMoves, LeavesLinks,
   LeavesMoves

LEMMA FreshInit ==
  ASSUME Init
  PROVE  LinkInv /\ FreshInv
<1>1. /\ DOMAIN map_ = {} /\ \A c \in Clients : client[c] = Ready /\ rpc[c] = NoRpc
      /\ \A n \in Nodes : handler[n] = Free /\ building[n] = Nil
      /\ Nil \notin Clients /\ Nil \notin Nodes
  BY ServiceAssumption DEF Init, TemplateManagerInit, ServiceInit
<1>2. \A c \in Clients : ClientLink(c)
  BY <1>1 DEF ClientLink, Ready, NoRpc, MethodsOK, HasCall
<1>3. \A n \in Nodes : HandlerLink(n)
  BY <1>1 DEF HandlerLink, Free
<1>4. \A c \in Clients : client[c].pc # "create"
  BY <1>1 DEF Ready
<1>5. QED
  BY <1>1, <1>2, <1>3, <1>4 DEF LinkInv, FreshInv

\* ProxyFresh: for any number of threads and node controllers, and whatever
\* requests and replies are lost or come late, the component that a proxy reaches
\* was created after the construction of the proxy had begun: the constructor goes
\* on only when the node has served its reset, and ids grow, so that all that the
\* node hosts from then on is younger than the proxy.
THEOREM ProxyIsFresh == Spec => []ProxyFresh
<1>1. Spec => [](ProxyInv /\ LinkInv /\ FreshInv)
  <2>1. ProxyInv /\ LinkInv /\ FreshInv /\ [Next]_vars => (ProxyInv /\ LinkInv /\ FreshInv)'
    BY StepOK, StepMoves, MovesFresh
  <2>2. Init => ProxyInv /\ LinkInv /\ FreshInv
    BY InitOK, FreshInit
  <2>3. QED
    BY <2>1, <2>2, PTL DEF Spec
<1>2. ASSUME ProxyInv, LinkInv, FreshInv
      PROVE  ProxyFresh
  BY <1>2, KnownProxy DEF FreshInv, Younger, ProxyFresh
<1>3. QED
  BY <1>1, <1>2, PTL
=============================================================================
