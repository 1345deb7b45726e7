------------------------ MODULE BatchTrackingProofs ------------------------
(***************************************************************************)
(* For any sets of batches and models: as long as models are disposed of   *)
(* only when everything is processed, the batch manager hands a batch out  *)
(* to at most one processor at a time, and answers IsEverythingProcessed   *)
(* only when nothing is owed.                                              *)
(***************************************************************************)
EXTENDS BatchTracking, SequenceTheorems, TLAPS

\* The list stays a list of batches when a task is taken from its middle.
LEMMA RemoveAtType ==
  ASSUME NEW S, NEW s \in Seq(S), NEW i \in 1..Len(s)
  PROVE  /\ RemoveAt(s, i) \in Seq(S)
         /\ s[i] \in S
<1>1. SubSeq(s, 1, i - 1) \in Seq(S)
  BY SubSeqProperties
<1>2. SubSeq(s, i + 1, Len(s)) \in Seq(S)
  BY SubSeqProperties
<1>3. RemoveAt(s, i) \in Seq(S)
  BY <1>1, <1>2, ConcatProperties DEF RemoveAt
<1>4. QED
  BY <1>3, ElementOfSeq

LEMMA InitTracking == Init => TrackingInv
BY DEF Init, BatchManagerInit, TrackingInv, TypeOK, SchemaTypeOK,
       BatchManagerTypeOK, MarkedIffHanded, AtMostOneCopy

LEMMA StepTracking == TrackingInv /\ [QuietNext]_trackingVars => TrackingInv'
<1> SUFFICES ASSUME TrackingInv, [QuietNext]_trackingVars
             PROVE  TrackingInv'
  OBVIOUS
<1> USE DEF TrackingInv, TypeOK, SchemaTypeOK, BatchManagerTypeOK,
            MarkedIffHanded, AtMostOneCopy
<1>1. ASSUME NEW b \in Batch, AddTask(b)
      PROVE  TrackingInv'
  <2>1. tasks' \in Seq(Batch)
    BY <1>1, AppendProperties DEF AddTask, Add
  <2>2. QED
    BY <1>1, <2>1 DEF AddTask, Add
<1>2. ASSUME NEW i \in 1..Len(tasks), HandOut(i)
      PROVE  TrackingInv'
  <2> DEFINE b0 == tasks[i]
  <2>1. tasks' \in Seq(Batch) /\ b0 \in Batch
    BY <1>2, RemoveAtType DEF HandOut, NextTask
  <2>2. \A m \in Model : b0 \notin in_progress[m] /\ handed[b0][m] = 0
    BY <1>2, <2>1 DEF HandOut, NextTask, Selectable
  <2>3. \A b \in Batch, m \in Model :
          handed'[b][m] = IF b = b0 /\ m \in GetModelNames THEN 1 ELSE handed[b][m]
    BY <1>2, <2>1, <2>2 DEF HandOut
  <2>4. \A b \in Batch, m \in Model :
          b \in in_progress'[m] <=> b \in in_progress[m] \/ (b = b0 /\ m \in GetModelNames)
    BY <1>2 DEF HandOut, NextTask
  <2>5. /\ in_progress' \in [Model -> SUBSET Batch]
        /\ handed' \in [Batch -> [Model -> Nat]]
        /\ schema' = schema
    BY <1>2, <2>1 DEF HandOut, NextTask
  <2>6. MarkedIffHanded'
    BY <2>2, <2>3, <2>4
  <2>7. AtMostOneCopy'
    <3> SUFFICES ASSUME NEW b \in Batch, NEW m \in Model
                 PROVE  handed'[b][m] <= 1
      OBVIOUS
    <3>1. CASE b = b0 /\ m \in GetModelNames
      BY <2>3, <3>1
    <3>2. CASE ~(b = b0 /\ m \in GetModelNames)
      BY <2>3, <3>2
    <3>3. QED
      BY <3>1, <3>2
  <2>8. QED
    BY <2>1, <2>5, <2>6, <2>7
<1>3. ASSUME NEW b \in Batch, NEW m \in Model, Report(b, m)
      PROVE  TrackingInv'
  <2>1. handed[b][m] = 1
    BY <1>3 DEF Report
  <2>2. QED
    BY <1>3, <2>1 DEF Report, Done
<1>4. ASSUME NEW m \in Model, NEW s \in ModelStatus, SetModel(m, s)
      PROVE  TrackingInv'
  BY <1>4 DEF SetModel, set_model_config
<1>5. ASSUME NEW m \in Model, ClearModel(m)
      PROVE  TrackingInv'
  BY <1>5 DEF ClearModel, clear_model_config, ModelStatus
<1>6. ASSUME IsEverythingProcessed, NEW m \in Model, Forget(m)
      PROVE  TrackingInv'
  <2>1. in_progress' = in_progress
    BY <1>6 DEF IsEverythingProcessed, Forget, ForgetModel
  <2>2. QED
    BY <1>6, <2>1 DEF Forget, ForgetModel
<1>7. CASE UNCHANGED trackingVars
  BY <1>7 DEF trackingVars
<1>8. QED
  BY <1>1, <1>2, <1>3, <1>4, <1>5, <1>6, <1>7 DEF QuietNext, Work

\* The inductive invariant holds in every reachable state.
THEOREM TrackingInvariant == QuietSpec => []TrackingInv
BY InitTracking, StepTracking, PTL DEF QuietSpec

\* The list holds batches only and no report is made that is not owed: no copy
\* of a batch is paid for twice.
THEOREM TypeCorrect == QuietSpec => []TypeOK
<1>1. TrackingInv => TypeOK
  BY DEF TrackingInv
<1>2. QED
  BY <1>1, TrackingInvariant, PTL

\* batch_manager.h:42-46: a batch stays in progress for a model from Next until
\* the model's Done, and no longer.
THEOREM MarksAreDebts == QuietSpec => []MarkedIffHanded
<1>1. TrackingInv => MarkedIffHanded
  BY DEF TrackingInv
<1>2. QED
  BY <1>1, TrackingInvariant, PTL

\* batch_manager.h:25: at most one copy of a batch is out for a model.
THEOREM OneCopy == QuietSpec => []AtMostOneCopy
<1>1. TrackingInv => AtMostOneCopy
  BY DEF TrackingInv
<1>2. QED
  BY <1>1, TrackingInvariant, PTL

\* batch_manager.h:51: IsEverythingProcessed is true only when every copy that
\* was handed out has been reported.
THEOREM ProcessedIsReported == QuietSpec => []ProcessedMeansReported
<1>1. TrackingInv => ProcessedMeansReported
  BY DEF TrackingInv, TypeOK, MarkedIffHanded, ProcessedMeansReported,
         IsEverythingProcessed
<1>2. QED
  BY <1>1, TrackingInvariant, PTL
=============================================================================
