------------------------- MODULE LocalInstanceProps -------------------------
(***************************************************************************)
(* What makes a local instance correct.                                    *)
(***************************************************************************)
EXTENDS LocalInstance

Count(seq, Test(_)) == Cardinality({i \in DOMAIN seq : Test(seq[i])})

Of(S, Test(_)) == Cardinality({x \in S : Test(x)})

One(condition) == IF condition THEN 1 ELSE 0

\* The processors that are working on batch b.
Working(p, b) ==
  processor[p].pc \in {"schema", "get", "push"} /\ processor[p].part.batch = b

\* Copies of b taken from the task list of which no model has been computed.
Unprocessed(b) ==
  One(loader.batch = b) + Count(processor_queue, LAMBDA part : part.batch = b)
    + Of(Processors, LAMBDA p : processor[p].pc = "schema" /\ Working(p, b))

\* Increments of m for b that a processor still owes, or that are queued.
Unpopped(b, m) ==
  Of(Processors, LAMBDA p : Working(p, b) /\ m \in processor[p].todo)
    + Count(merger_queue, LAMBDA inc : inc.batch = b /\ inc.model = m)

MergerHolds(b, m, pcs) ==
  merger.pc \in pcs /\ merger.increment.batch = b /\ merger.increment.model = m

-----------------------------------------------------------------------------
\* Nothing is lost and nothing is merged twice on the way from InvokeIteration
\* to the topic model: until WaitIdle pulls, every task added for an enabled
\* model is still queued, on its way, or counted in the model's increments.
Conservation ==
  api.pc \notin {"wait.pull", "wait.done"} =>
    \A m \in EnabledModels, b \in Batch :
      due[m][b] = Count(tasks, LAMBDA t : t = b) + Unprocessed(b) + Unpopped(b, m)
                  + One(MergerHolds(b, m, {"merge"}))
                  + (IF topic_model_inc[m] = Nil THEN 0 ELSE topic_model_inc[m].n_wt[b])

\* WaitIdle returned true: the topic model of every enabled model counts every
\* batch exactly as often as iterations were invoked, and its scores were
\* computed from the same batches, no older ones.
WaitIdleComplete ==
  api.pc = "wait.done" =>
    \A m \in EnabledModels :
      (\E b \in Batch : due[m][b] > 0) =>
        topic_model[m].n_wt = due[m] /\ scores[m] = due[m]

\* ... and RequestThetaMatrix finds a row for every batch, though the merger
\* stores the cache entry only after it has reported the batch as done.
ThetaComplete ==
  (api.pc = "wait.done" /\ CacheTheta) =>
    \A m \in EnabledModels : \A b \in Batch : due[m][b] > 0 => b \in ThetaMatrix(m)

\* processor.cc:443 assert(topic_model.get() != nullptr).
ModelPresent == ~Aborted

\* An increment is only ever added to the incarnation of the model that it was
\* computed for, whose topics and tokens it has.
SameIncarnation ==
  merger.pc = "merge" =>
    LET cur == topic_model[merger.increment.model] IN
    cur # Nil => cur.incarnation = merger.increment.incarnation

\* A model that the schema lists is in the merger, in the middle of a call too:
\* it is created in the merger first and disposed of in the schema first.
SchemaModelsExist ==
  \A m \in GetModelNames : topic_model[m] # Nil

\* processor_queue_max_size: the loader checks the size, takes a batch and reads
\* it before it pushes; it is the only producer.
ProcessorQueueBounded == Len(processor_queue) <= ProcessorQueueMaxSize

\* The bound that holds: each processor may push all its models before it waits.
MergerQueueBounded ==
  Len(merger_queue) < MergerQueueMaxSize + Cardinality(Processors) * Cardinality(Model)

\* The published model of m counts batch b.
Published(m, b) == topic_model[m] # Nil /\ topic_model[m].n_wt[b] > 0

\* A batch that the published model counts is queued with its cached theta: when
\* WaitIdle publishes a model, the entries of all that it counts are in the cache,
\* and the loader reads them before the model can change again.
ThetaReused ==
  loader.pc = "push" /\ CacheTheta =>
    \A m \in EnabledModels : Published(m, loader.batch) => m \in loader.cached_theta

\* messages.txt:216 (cache_theta) "re-use theha values when the same document is
\* processed on the next iteration": so is a batch that only an earlier pass of
\* the same InvokeIteration has counted, in the sums that are yet to be published.
ThetaReusedEveryPass ==
  loader.pc = "push" /\ CacheTheta =>
    \A m \in EnabledModels :
      topic_model_inc[m] # Nil /\ topic_model_inc[m].n_wt[loader.batch] > 0
        => m \in loader.cached_theta

-----------------------------------------------------------------------------
\* A batch that is marked for a disabled model, for which no processor reports it.
DisabledMarked == \E m \in Model : schema[m] = "disabled" /\ in_progress[m] # {}

\* WaitIdle without a timeout returns: nothing but the mark of a disabled model
\* can keep it waiting.
WaitIdleReturns == api.pc = "wait.poll" ~> (api.pc = "wait.done" \/ DisabledMarked)

\* messages.txt:390 (ModelConfig.enabled) "A flag indicating whether to update the
\* model during iterations": whichever models are updated, iterations end.
WaitIdleAlwaysReturns == api.pc = "wait.poll" ~> api.pc = "wait.done"

\* ~Instance, and Reconfigure with fewer processors, join their threads, even in
\* the middle of an iteration with full queues.
JoinsReturn ==
  /\ api.pc = "destroy.processors" ~> api.pc = "destroyed"
  /\ api.pc = "reconfigure" ~> api.pc = "ready"

-----------------------------------------------------------------------------
\* The copies of b that are out for m: handed out by Next and not yet Done.
Handed(b, m) ==
  (IF m \in GetModelNames THEN Unprocessed(b) ELSE 0)
    + Unpopped(b, m) + One(MergerHolds(b, m, {"merge", "done"}))

Tracking == INSTANCE BatchTracking WITH
  MaxTasks <- MaxCalls * Cardinality(Batch) * Max(IterationCounts),
  handed <- [b \in Batch |-> [m \in Model |-> Handed(b, m)]]

\* batch_manager.h:25 "Each batch should be processed by at max one processor at
\* a time": no two copies of a batch are out for a model, from the task list to the
\* report, though it is queued once for each iteration.
AtMostOneCopy == \A b \in Batch, m \in Model : Handed(b, m) <= 1

\* A batch is marked for an enabled model exactly while a copy is out for it: no
\* mark is lost, with which a second processor would get the batch, and none stays,
\* with which WaitIdle would not return.
MarkedIffHanded ==
  \A b \in Batch, m \in EnabledModels : b \in in_progress[m] <=> Handed(b, m) > 0

\* The pipeline keeps its side of the batch manager's contract, where each report
\* pays exactly one debt, as long as no model is disabled: for a disabled model
\* nobody reports.
ImplementsTracking == Tracking!QuietSpec
=============================================================================
