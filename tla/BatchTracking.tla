---------------------------- MODULE BatchTracking ----------------------------
(***************************************************************************)
(* What the batch manager promises to the pipeline, whatever the pipeline  *)
(* looks like: its callers take a batch with Next, owe one report for each *)
(* model known at that moment, and report with Done (through Callback).    *)
(* The debts are the ghost variable `handed': how many copies of a batch   *)
(* are out for a model.  LocalInstance is shown to implement QuietSpec.    *)
(***************************************************************************)
EXTENDS BatchManager

CONSTANT MaxTasks              \* bound on the length of the task list

VARIABLE handed                \* ghost: copies of b out for processing by m

trackingVars == <<schema, tasks, in_progress, handed>>

TypeOK ==
  /\ SchemaTypeOK
  /\ BatchManagerTypeOK
  /\ handed \in [Batch -> [Model -> Nat]]

Init ==
  /\ SchemaTypeOK
  /\ BatchManagerInit
  /\ handed = [b \in Batch |-> [m \in Model |-> 0]]

AddTask(b) ==
  /\ Len(tasks) < MaxTasks
  /\ Add(b)
  /\ UNCHANGED <<schema, handed>>

HandOut(i) ==
  /\ NextTask(i)
  /\ handed' = [handed EXCEPT ![tasks[i]] =
                  [m \in Model |-> IF m \in GetModelNames THEN @[m] + 1 ELSE @[m]]]
  /\ UNCHANGED schema

\* BatchManager::Callback for the increment that model m computed from b.
Report(b, m) ==
  /\ handed[b][m] > 0
  /\ Done(b, m)
  /\ handed' = [handed EXCEPT ![b][m] = @ - 1]
  /\ UNCHANGED schema

SetModel(m, status) ==
  /\ set_model_config(m, status)
  /\ UNCHANGED <<tasks, in_progress, handed>>

\* Instance::DisposeModel: the schema first, the batch manager last.
ClearModel(m) ==
  /\ clear_model_config(m)
  /\ UNCHANGED <<tasks, in_progress, handed>>

Forget(m) ==
  /\ ForgetModel(m)
  /\ UNCHANGED <<schema, handed>>

Work ==
  \/ \E b \in Batch : AddTask(b)
  \/ \E i \in 1..Len(tasks) : HandOut(i)
  \/ \E b \in Batch, m \in Model : Report(b, m)
  \/ \E m \in Model, s \in ModelStatus : SetModel(m, s)
  \/ \E m \in Model : ClearModel(m)

\* Callers that dispose of a model only when nothing is left to process.
QuietNext == Work \/ (IsEverythingProcessed /\ \E m \in Model : Forget(m))

QuietSpec == Init /\ [][QuietNext]_trackingVars

-----------------------------------------------------------------------------
\* batch_manager.h:25 "Each batch should be processed by at max one processor
\* at a time": no model has two copies of a batch out.
AtMostOneCopy == \A b \in Batch, m \in Model : handed[b][m] <= 1

\* batch_manager.h:51 "Checks if all added tasks were processed (and marked as
\* Done)": IsEverythingProcessed never answers yes while a report is owed.
ProcessedMeansReported ==
  IsEverythingProcessed => \A b \in Batch, m \in Model : handed[b][m] = 0

\* A batch is marked for a model exactly while a copy of it is out for it: no
\* mark is lost (a second processor would get the batch), none stays behind
\* (the batch would never be selected again and WaitIdle would not return).
MarkedIffHanded ==
  \A b \in Batch, m \in Model : b \in in_progress[m] <=> handed[b][m] > 0

TrackingInv == TypeOK /\ MarkedIffHanded /\ AtMostOneCopy
=============================================================================
