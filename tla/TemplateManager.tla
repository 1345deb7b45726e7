--------------------------- MODULE TemplateManager ---------------------------
(***************************************************************************)
(* TemplateManager (core/template_manager.h): a process-wide collection of *)
(* objects with integer ids.  Each locked section is one action; objects   *)
(* are constructed and destroyed with no lock held, since both may call    *)
(* back into the manager.  TryCreate, which only a test calls, is left out.*)
(***************************************************************************)
EXTENDS Integers, FiniteSets, Functions

CONSTANTS Nil,
          Thread                   \* the threads of the process

VARIABLES map_,                    \* id -> object
          next_id_,
          building                 \* the object that a thread is constructing,
                                   \* with its id, or Nil

managerVars == <<map_, next_id_, building>>

TemplateManagerInit ==
  /\ map_ = [i \in {} |-> Nil]
  /\ next_id_ = 1
  /\ building = [t \in Thread |-> Nil]

\* while (map_.find(next_id_) != map_.end()) next_id_++;
FreeId ==
  CHOOSE i \in next_id_..(next_id_ + Cardinality(DOMAIN map_)) :
    i \notin DOMAIN map_ /\ \A j \in next_id_..(i - 1) : j \in DOMAIN map_

\* Mutant of Reserve: the id is used up only when the object is there.
ReserveLater(t, object) ==
  /\ building[t] = Nil
  /\ next_id_' = FreeId
  /\ building' = [building EXCEPT ![t] = [id |-> FreeId, object |-> object]]
  /\ UNCHANGED map_

\* Mutant of Reserve: the lock is held while another thread constructs.
ReserveAlone(t, object) ==
  /\ \A other \in Thread : building[other] = Nil
  /\ next_id_' = FreeId + 1
  /\ building' = [building EXCEPT ![t] = [id |-> FreeId, object |-> object]]
  /\ UNCHANGED map_

\* Create, first locked section: take an id.
Reserve(t, object) ==
  /\ building[t] = Nil
  /\ next_id_' = FreeId + 1
  /\ building' = [building EXCEPT ![t] = [id |-> FreeId, object |-> object]]
  /\ UNCHANGED map_

\* Create, second locked section: map_.insert keeps an element that is there.
Insert(t) ==
  LET id == building[t].id IN
  /\ building[t] # Nil
  /\ map_' = [i \in DOMAIN map_ \cup {id} |->
                IF i \in DOMAIN map_ THEN map_[i] ELSE building[t].object]
  /\ building' = [building EXCEPT ![t] = Nil]
  /\ UNCHANGED next_id_

\* The constructor throws: the id stays unused.
Abandon(t) ==
  /\ building' = [building EXCEPT ![t] = Nil]
  /\ UNCHANGED <<map_, next_id_>>

Erase(id) ==
  /\ map_' = Restrict(map_, DOMAIN map_ \ {id})
  /\ UNCHANGED <<next_id_, building>>
=============================================================================
