-------------------------- MODULE NetworkModeProps --------------------------
(* What makes a master component with its nodes correct.                   *)
EXTENDS NetworkMode

Occurrences(seq, x) == Cardinality({i \in DOMAIN seq : seq[i] = x})

One(condition) == IF condition THEN 1 ELSE 0

\* The sum of the values of f, natural numbers: the area under its graph.
Total(f) == Cardinality(UNION {{x} \X (1..f[x]) : x \in DOMAIN f})

\* Copies of b that node n has taken and not yet reported.  A node that has
\* stopped keeps them.
Taken(n, b) ==
  Occurrences(node[n].batches, b) + Occurrences(node[n].processor_queue, b)
    + One(node[n].batch = b /\ node[n].todo # {})
    + Cardinality({i \in DOMAIN node[n].merger_queue : node[n].merger_queue[i].batch = b})

\* How often b is counted in the increments of m that have not been pulled.
InNode(n, m, b) == IF node[n].topic_model_inc[m] = Nil THEN 0 ELSE node[n].topic_model_inc[m][b]

InMaster(m, b) ==
  (IF topic_model_inc[m] = Nil THEN 0 ELSE topic_model_inc[m][b])
    + (IF merger.pc = "merge" /\ merger.increment.model = m THEN merger.increment.n_wt[b] ELSE 0)
    + Total([i \in DOMAIN merger_queue |->
               IF merger_queue[i].model = m THEN merger_queue[i].n_wt[b] ELSE 0])

\* Tasks of b added for m that are queued, taken by a node, or counted in an
\* increment that the master has not yet pulled into its model.
Accounted(m, b) ==
  Occurrences(tasks, b) + InMaster(m, b)
    + Total([n \in Nodes |-> Taken(n, b) + InNode(n, m, b)])

Pulling == {"wait.pulled", "wait.nodes", "wait.done"}

-----------------------------------------------------------------------------
\* master_component.cc:206 "Wait merger on master to process all model
\* increments and set them as active topic model": when WaitIdle returns true
\* the model counts every batch exactly as often as iterations were invoked.
WaitIdleComplete ==
  api.pc = "wait.done" =>
    \A m \in EnabledModels :
      (\E b \in Batch : due[m][b] > 0) => topic_model[m].n_wt = due[m]

\* No task is lost or counted twice on its way over the network, a node that
\* stops included: what it has taken stays in progress, and WaitIdle waits.
Conservation ==
  api.pc \notin Pulling =>
    \A m \in EnabledModels, b \in Batch : due[m][b] = Accounted(m, b)

\* With nodes that come back empty tasks may be lost, but never counted twice.
CountedOnce ==
  api.pc \notin Pulling =>
    \A m \in EnabledModels, b \in Batch : Accounted(m, b) <= due[m][b]

\* Between two calls, and until WaitIdle pulls, a node works with the master's topic
\* models: none keeps one that was regularized, overwritten or pulled by the others
\* meanwhile.  A node that gets its models back by creating them once more has empty
\* ones until the next pull; behind a pull by all nodes every model is the master's.
AllPulled == api.pc = "wait.done" \/ (api.pc = "refresh" /\ api.nodes = {})

ModelsInSync ==
  api.pc \in {"ready", "add", "wait.poll", "wait.push", "wait.idle", "wait.queue",
              "wait.forced"} \/ AllPulled =>
    \A n \in clients, m \in Model :
      LET model == node[n].topic_model[m] IN
      node[n].up /\ model # Nil =>
        model = topic_model[m] \/ (model = NewModel /\ ~AllPulled)

-----------------------------------------------------------------------------
\* WaitIdle without a timeout returns as long as no node stops, from a start in which
\* every node has the models: a node without them takes batches and never reports.
NetworkWaitIdleReturns ==
  api.pc = "wait.poll" ~> (api.pc = "wait.done" \/ \E n \in Nodes : ~node[n].up)

-----------------------------------------------------------------------------
\* The copies of b that are out for m: a node owes the report.
Handed(b, m) ==
  IF m \in GetModelNames
  THEN Total([n \in Nodes |-> Taken(n, b) + One(node[n].reported = b)])
  ELSE 0

Tracking == INSTANCE BatchTracking WITH
  MaxTasks <- MaxCalls * Cardinality(Batch) * Max(IterationCounts),
  handed <- [b \in Batch |-> [m \in Model |-> Handed(b, m)]]

\* With one model, master and nodes keep the batch manager's contract.
ImplementsTracking == Tracking!QuietSpec
=============================================================================
