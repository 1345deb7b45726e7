---------------------------- MODULE BatchManager ----------------------------
(***************************************************************************)
(* core/batch_manager.{h,cc}: the queue of batches to process and, for     *)
(* each model, the set of batches that are being processed.  Every method  *)
(* holds lock_ from its first to its last statement, so that each is one   *)
(* atomic action.  A model without an entry in the map in_progress_ and a  *)
(* model with an empty entry are the same to every method.                 *)
(***************************************************************************)
EXTENDS InstanceSchema, SequencesExt

CONSTANT Batch                 \* batch uuids, ordered

ASSUME BatchAssumption == Batch \subseteq Nat

VARIABLES tasks,               \* tasks_: std::list<uuid>
          in_progress          \* in_progress_: model -> std::set<uuid>

batchManagerVars == <<tasks, in_progress>>

BatchManagerTypeOK ==
  /\ tasks \in Seq(Batch)
  /\ in_progress \in [Model -> SUBSET Batch]

BatchManagerInit ==
  /\ tasks = <<>>
  /\ in_progress = [m \in Model |-> {}]

\* The task at position i is not in progress for any model.
Selectable(i) == \A m \in Model : tasks[i] \notin in_progress[m]

Add(b) ==
  /\ tasks' = Append(tasks, b)
  /\ UNCHANGED in_progress

\* Mutant of NextTask: takes the first task though its batch is in progress.
NextTaskUnchecked(i) ==
  /\ i = 1
  /\ tasks' = RemoveAt(tasks, i)
  /\ in_progress' = [m \in Model |-> IF m \in GetModelNames
                                     THEN in_progress[m] \cup {tasks[i]}
                                     ELSE in_progress[m]]

\* Next() returns tasks[i]: the first selectable task.  It leaves the list and
\* is marked for every model of the schema, a disabled one too.
NextTask(i) ==
  /\ i \in 1..Len(tasks)
  /\ Selectable(i)
  /\ \A j \in 1..(i - 1) : ~Selectable(j)
  /\ tasks' = RemoveAt(tasks, i)
  /\ in_progress' = [m \in Model |-> IF m \in GetModelNames
                                     THEN in_progress[m] \cup {tasks[i]}
                                     ELSE in_progress[m]]

\* Next() returns the nil uuid.
NoTask == \A i \in 1..Len(tasks) : ~Selectable(i)

\* Mutant of Done: does not tell one model from another.
DoneAnyModel(b, m) ==
  /\ in_progress' = [k \in Model |-> in_progress[k] \ {b}]
  /\ UNCHANGED tasks

\* Done(id, model_name), with a model name.
Done(b, m) ==
  /\ in_progress' = [in_progress EXCEPT ![m] = @ \ {b}]
  /\ UNCHANGED tasks

\* Done(id, ModelName()): for every model.
DoneForAll(b) ==
  /\ in_progress' = [m \in Model |-> in_progress[m] \ {b}]
  /\ UNCHANGED tasks

ForgetModel(m) ==              \* BatchManager::DisposeModel
  /\ in_progress' = [in_progress EXCEPT ![m] = {}]
  /\ UNCHANGED tasks

\* Mutant of IsEverythingProcessed: forgets the batches in progress.
IsEverythingTaken == tasks = <<>>

IsEverythingProcessed ==
  /\ tasks = <<>>
  /\ \A m \in Model : in_progress[m] = {}
=============================================================================
