--------------------------- MODULE ModelUpdates ---------------------------
(***************************************************************************)
(* The life of one topic model: processors compute increments against the  *)
(* published model (core/processor.cc), the merger collects them, and at   *)
(* the end of an iteration a new model is built from them (core/merger.cc);*)
(* between iterations the user regularizes, saves and overwrites it.       *)
(***************************************************************************)
EXTENDS PhiRegularizers

CONSTANTS Nil,
          Batches,         \* the dictionaries of batches: sequences of tokens
          ModelClasses,    \* ModelConfig.class_id: the classes that are used
          InitialRows,     \* random weights of a discovered token
          CountRows,       \* what a token of a batch may add to its counters
          RegularizerLists,\* values of ModelConfig.regularizer_name
          UserModels,      \* external models that a user writes
          MaxQueue,        \* bound on increments that wait
          MaxUpdates       \* bound on the updates of a run

ASSUME ModelUpdatesAssumption ==
  /\ Batches \subseteq Seq(Token)
  /\ ModelClasses \subseteq ClassId
  /\ InitialRows \subseteq [Topic -> Nat]
  /\ CountRows \subseteq [Topic -> Nat]
  /\ RegularizerLists \subseteq Seq(Regularizer)
  /\ UserModels \subseteq Seq(ExternalToken)
  /\ MaxQueue \in Nat /\ MaxUpdates \in Nat

VARIABLES topic_model,      \* the published model
          topic_model_inc,  \* the merger's increment, or Nil
          merger_queue,     \* increments of batches
          saved,            \* an external model the user retrieved, or Nil
          updates           \* counts the updates, up to MaxUpdates

vars == <<topic_model, topic_model_inc, merger_queue, saved, updates>>

Increment == [discovered : Seq(Token), token_increment : Seq(Entry)]

\* Only a pull takes the increment away.
Pulled == topic_model_inc # Nil /\ topic_model_inc' = Nil

Init ==
  /\ topic_model = NewTopicModel
  /\ topic_model_inc = Nil
  /\ merger_queue = <<>>
  /\ saved = Nil
  /\ updates = 0

-----------------------------------------------------------------------------
Update == updates < MaxUpdates /\ updates' = updates + 1

\* What TokenIterator passes to InferTheta (Mode_Known).
IsIterated(token) == has_token(topic_model, token) /\ token.class_id \in ModelClasses

\* ItemProcessor::InferTheta with one document that has every token of the
\* batch: a token counts unless z, the sum of its weights over all topics, is
\* not positive - also when one of them is NaN.  theta is positive: no
\* regularizer of Theta is configured.
CountsOf(token) ==
  IF /\ IsIterated(token)
     /\ \A t \in Topic : ~IsNaN(topic_model, token, t)
  THEN {row \in CountRows :
          \A t \in Topic : row[t] > 0 <=> IsPositive(topic_model, token_id(topic_model, token), t)}
  ELSE {ZeroRow}

\* Mutant of Process: unknown tokens are not announced.
ProcessKnown(batch) ==
  /\ Update
  /\ Len(merger_queue) < MaxQueue
  /\ \E rows \in [DOMAIN batch -> CountRows \cup {ZeroRow}] :
       /\ \A i \in DOMAIN batch : rows[i] \in CountsOf(batch[i])
       /\ merger_queue' = Append(merger_queue,
            [discovered |-> <<>>,
             token_increment |-> [i \in DOMAIN batch |-> Counted(batch[i], rows[i])]])
  /\ UNCHANGED <<topic_model, topic_model_inc, saved>>

\* The tokens that the model does not know, in their order.
DiscoveredTokens(batch) ==
  LET discovered[i \in 0..Len(batch)] ==
        IF i = 0 THEN <<>>
        ELSE IF has_token(topic_model, batch[i]) THEN discovered[i - 1]
             ELSE Append(discovered[i - 1], batch[i])
  IN discovered[Len(batch)]

Process(batch) ==
  /\ Update
  /\ Len(merger_queue) < MaxQueue
  /\ \E rows \in [DOMAIN batch -> CountRows \cup {ZeroRow}] :
       /\ \A i \in DOMAIN batch : rows[i] \in CountsOf(batch[i])
       /\ merger_queue' = Append(merger_queue,
            [discovered |-> DiscoveredTokens(batch),
             token_increment |-> [i \in DOMAIN batch |-> Counted(batch[i], rows[i])]])
  /\ UNCHANGED <<topic_model, topic_model_inc, saved>>

\* The merger draws random weights for the discovered tokens.
Diff(increment, init) ==
  [i \in DOMAIN increment.discovered |->
     Discovered(increment.discovered[i], init[increment.discovered[i]])]
  \o increment.token_increment

MergeIncrement ==
  /\ merger_queue # <<>>
  /\ \E init \in [{Head(merger_queue).discovered[i] : i \in DOMAIN Head(merger_queue).discovered}
                    -> InitialRows] :
       topic_model_inc' =
         ApplyDiff(IF topic_model_inc = Nil THEN NewTopicModel ELSE topic_model_inc,
                   Diff(Head(merger_queue), init))
  /\ merger_queue' = Tail(merger_queue)
  /\ UNCHANGED <<topic_model, saved, updates>>

\* WaitIdle pulls when every increment is merged.
PullTopicModel ==
  /\ merger_queue = <<>> /\ topic_model_inc # Nil
  /\ topic_model' = ApplyDiff(NewTopicModel, RetrieveModelIncrement(topic_model_inc))
  /\ topic_model_inc' = Nil
  /\ UNCHANGED <<merger_queue, saved, updates>>

\* The user acts between iterations.
Quiet == merger_queue = <<>> /\ topic_model_inc = Nil

InvokePhiRegularizers(regs) ==
  /\ Quiet /\ Update
  /\ topic_model' = Regularized(topic_model, regs)[Len(regs)]
  /\ UNCHANGED <<topic_model_inc, merger_queue, saved>>

SaveTopicModel ==
  /\ Quiet
  /\ saved' = RetrieveExternalTopicModel(topic_model)
  /\ UNCHANGED <<topic_model, topic_model_inc, merger_queue, updates>>

OverwriteTopicModel(external) ==
  /\ Quiet /\ Update
  /\ topic_model' = CopyFromExternalTopicModel(external)
  /\ UNCHANGED <<topic_model_inc, merger_queue, saved>>

Next ==
  \/ \E batch \in Batches : Process(batch)
  \/ MergeIncrement
  \/ PullTopicModel
  \/ \E regs \in RegularizerLists : InvokePhiRegularizers(regs)
  \/ SaveTopicModel
  \/ saved # Nil /\ OverwriteTopicModel(saved)
  \/ \E external \in UserModels : OverwriteTopicModel(external)

Spec == Init /\ [][Next]_vars

-----------------------------------------------------------------------------
TypeOK ==
  /\ TokensOK(topic_model)
  /\ topic_model_inc # Nil => TokensOK(topic_model_inc)
  /\ merger_queue \in Seq(Increment)
  /\ saved # Nil => saved \in Seq(ExternalToken)
  /\ updates \in Nat

\* topic_model_test.cc:49 "real_normalizer - expected_normalizer": after any
\* sequence of merges, pulls, regularizations and overwrites every n_t is the
\* sum of what the weights are made of, so that they add up to one.
NormalizerExact ==
  /\ NormalizerOK(topic_model)
  /\ topic_model_inc # Nil => NormalizerOK(topic_model_inc)

\* A model that is saved and loaded, or sent to a node, is the same model.
ReloadSame ==
  CopyFromExternalTopicModel(RetrieveExternalTopicModel(topic_model)) = topic_model

\* A node's increment that the master merges (PushTopicModelIncrement) adds
\* its counters to those of the master, token by token, whatever the order in
\* which the two have met the tokens.
WeightOf(model, token) ==
  IF has_token(model, token) THEN model.n_wt[token_id(model, token)] ELSE ZeroRow

PushAdds ==
  topic_model_inc # Nil =>
    LET merged == ApplyDiff(topic_model, RetrieveModelIncrement(topic_model_inc))
    IN \A token \in Token :
         WeightOf(merged, token) = Plus(WeightOf(topic_model, token),
                                        WeightOf(topic_model_inc, token))

\* A token that the model meets in an iteration starts with a positive weight
\* in some topic: with zeros it would never count again (processor.cc:218).
NewTokensAlive ==
  [][Pulled =>
       \A token \in DOMAIN topic_model'.token_to_token_id :
         has_token(topic_model, token) \/
           \E t \in Topic : IsPositive(topic_model', token_id(topic_model', token), t)]_vars
=============================================================================
