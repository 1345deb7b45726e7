# Verification of BigARTM's core

TLA+ models of `src/src/artm/core`: the multi-threaded and distributed pipeline that turns batches of
documents into topic models. The directory holds the modules, the TLC configurations that check them
on small instances, and proofs that TLAPS checks for every value of the constants.

## 1. The system

An application talks to a **MasterComponent**, in its own process or through a **MasterProxy** on
another node. A master component owns an **Instance**. In local mode (`MasterInstanceLocal`) four
kinds of threads run in it; in network mode the work is done by the instances of node controllers
and the master's instance keeps the task list and the models.

| Part | State | Operations | Talks to |
|---|---|---|---|
| `InstanceSchema` in a `ThreadSafeHolder` | configuration, models, regularizers, scores | get (snapshot), get_copy, set | read by all threads |
| `BatchManager` | `tasks_`, `in_progress_`, one lock | Add, Next, Done, DisposeModel, IsEverythingProcessed, Callback | API thread adds and polls, loaders take, mergers report |
| `LocalDataLoader` | `generation_`, `cache_`, a thread | AddBatch, InvokeIteration, WaitIdle, RequestThetaMatrix, Callback | feeds the processor queue; `Callback` runs on the merger's thread |
| `Processor` (several) | its current batch, a thread | its loop | pops the processor queue, reads schema and models, pushes increments |
| `Merger` | `topic_model_`, `topic_model_inc_`, scores, `internal_task_queue_`, a thread | CreateOrReconfigureModel, DisposeModel, Force{ResetScores,Pull,Push}, InvokePhiRegularizers, OverwriteTopicModel, ... | pops the merger queue, calls `Notifiable::Callback` |
| `RemoteDataLoader` (node) | a thread | its loop, Callback | RequestBatches, ReportBatches on the master |
| `MasterComponentService` (master) | none | RequestBatches, ReportBatches, UpdateModel, RetrieveModel | the master's batch manager and merger |
| `NetworkClientCollection` (master) | `clients_` | one call to every node in turn | NodeControllerService |
| `NodeControllerService` (node) | `instance_`, `master_`, one lock | create, dispose, use of what the node hosts | Instance, or the MasterComponentManager |
| `MasterProxy` | a channel | the API of a master component as RPCs | NodeControllerService |
| `TemplateManager` | `map_`, `next_id_`, one lock | Create, Get, Erase | everything with an id |
| `TopicModel` | `n_wt_`, `r_wt_`, normalizers `n_t_` | ApplyDiff, Set/Increase weights, conversion | immutable once published |
| `CollectionParser`, `BatchHelpers` | batch, dictionary and statistics of one run | ParseBagOfWordsUci, CompactBatch, PopulateClassId | the disk, the data loader |

What is hard here: threads that coordinate only through polled queues and flags; a batch that may be
queued again while a processor still has it; snapshots of the schema that outlive a model; a merger
that reports a batch in several steps; limits of queues that are checked apart from the push;
destruction, and another number of processors, in the middle of an iteration; replies of the master that get lost, nodes that stop
with batches in progress or come back empty, increments that arrive between a push and a pull; requests
that are served long after their caller gave up; two locks (of a manager and of a node's service)
taken in both directions; a normalizer that is adjusted thousands of times and never computed. `PROJECT.json`
lists each hazard at its line, with the properties that are about it.

What makes each part correct:

- *BatchManager*: a batch is out at most once at a time; no mark is lost or left behind;
  "everything processed" means that nothing is owed.
- *Data loaders*: queues stay within their limits; a cached theta matrix is there when it is promised.
- *Processor, Merger*: every increment is counted exactly once, in the model it was computed for; scores are
  of the same batches as the model.
- *MasterComponent*: WaitIdle returns, and when it does the models are complete; in network mode master
  and nodes then have the same model.
- *TopicModel*: weights of a topic add up to one, whatever the history of the model; the order in which a
  replica met the tokens does not matter.
- *CollectionParser*: batches say what the file says; the statistics are those of the file.
- *Managers, service, proxy*: an id denotes one object for its life; a node hosts what it refers to and nothing
  else; a proxy never works with a leftover component; calls return.

## 2. Modules

    InstanceSchema <- BatchManager <- DataLoader <- Merger <- Processor <- LocalInstance
                        ^      ^                                              ^
                        |      |              LocalInstanceProps <- MCLocal, LocalInstanceProofs, LocalPipelineInv
             BatchTracking   NetworkNode <- NetworkMode <- NetworkModeProps <- MCNetwork, NetworkModeProofs
                   ^
          BatchTrackingProofs          (both ...Props instantiate BatchTracking)

    LocalInstanceProofs, LocalPipelineInv <- LocalFlowProofs <- LocalPipelineProofs

    TopicModel <- PhiRegularizers <- ModelUpdates <- MCTopicModel, TopicModelProofs
    BatchHelpers <- CollectionParser <- MCCollectionParser, CollectionParserProofs
    TemplateManager <- NodeService <- MasterProxy <- MasterProxyProofs

(`A <- B`: module B extends A.) A module declares the variables of its class and defines one action per
method or per step of its thread. A step is what happens under one lock: two accesses to objects with
locks of their own are two steps, and every interleaving between them is explored.

### The local pipeline

- **InstanceSchema** (`instance_schema.cc`): `schema[m]` is absent, enabled or disabled.
- **BatchManager** (`batch_manager.cc`): `tasks` is `tasks_`, `in_progress[m]` the set of `in_progress_`.
  Each method holds the lock throughout and is one action.
- **DataLoader** (`data_loader.cc`, `generation.cc`): the loader's thread is the program counter `loader.pc`:
  read the size, take a batch, find it in the generation, collect cached thetas, push. `CallbackDone` and
  `CallbackCache` are the two steps of `Callback`.
- **Merger** (`merger.cc`): `merger.pc` follows `ThreadFunction`: internal tasks first, then one increment,
  its callback at the end of the scope. `PullTopicModel` is one step per model, in the order of the map, with
  its early return. `n_wt[b]` says how often batch `b` is counted in a model; `incarnation`
  (a ghost) tells a model from an earlier one of the same name.
- **Processor** (`processor.cc`): pop, snapshot of the schema, for each enabled model get the topic model and
  push the increment, then wait for room. A missing model stops the process (`"aborted"`).
- **LocalInstance** (`instance.cc`, `master_component.cc`): one API thread whose calls are sequences of steps,
  composed with the other threads. `Calls` says which calls a run makes, `QuietCalls` which of them are made
  only when `WaitIdle` has returned true and no iteration was invoked since: that is how most examples and tests
  call the API. Models are created enabled or disabled (`CreateStatuses`; `instance_test.cc:119` and `cpp_interface_test.cc:185`
  disable one). `Reconfigure` stops and joins processors one by one, or starts new ones (`processor_stopping` says for which
  thread a destructor was called). `due[m][b]` is a ghost: the tasks added for enabled model `m` since the last `WaitIdle`.
- **LocalInstanceProps**: the properties and the refinement mapping.
- **LocalPipelineInv**: the parts of the inductive invariant behind the theorems of `LocalPipelineProofs`, and `Disciplined`,
  what they assume of the caller.
- **BatchTracking**: what the batch manager promises its callers, as a specification of its own: whoever
  takes a batch owes one report for each model known at that moment (`handed`), reports only what it owes (`QuietSpec`:
  and disposes of models only when everything is processed). Local and network mode both implement it, with
  `handed` mapped to the copies of a batch on their way (`ImplementsTracking`); it has no run of its own.

### Network mode

- **NetworkNode** (`data_loader.cc`, `merger.cc`, `master_component_service_impl.cc`): the threads. A node's loader
  requests as many batches as fit, the master's `RequestBatches` marks them, the reply arrives
  or is lost with the node; a processor (its details are those of `Processor`) pushes increments; a node's merger merges,
  reports each increment, pushes what it has to the master (`UpdateModel`) and pulls (`RetrieveModel`). The
  master's merger collects what was pushed.
- **NetworkMode** (`master_component.cc`, `node_controller_service_impl.cc`): the API thread. Calls to the nodes
  are made one after another, each waits for its reply (`for_each_client`); `WaitIdle` polls, makes the nodes push, waits
  for the merger, pulls, and makes the nodes pull. `CreateModel` is `CreateOrReconfigureModel` for a new model, `RecreateModel`
  for one that the master has: the master keeps it, a node that has lost it gets an empty one until the next pull.
  `Reconfigure` connects, disconnects and configures nodes; it and `DisposeModel` are only called when no task is out (`NetworkAssumption`).
  A node in `MayStop` stops at any moment, also with a request under way; one in `MayRestart` comes back with no instance.
  A batch in `Unreadable` ends the process of the node that loads it. `edition` tells models apart that were regularized or
  overwritten.
- **NetworkModeProps**: the properties and the refinement mapping.

### The topic model

- **TopicModel** (`topic_model.cc`): tokens with their indices, `n_wt`, `r_wt`, `n_t` for each class. Every
  change of a weight adjusts `n_t` by the cases of signs that the code distinguishes (`Adjusted`).
  Sums and loops are recursive functions, so that the module can be proved about.
- **PhiRegularizers** (`dirichlet_phi.cc`, `smooth_sparse_phi.cc`): the two regularizers of Phi that add to `r_wt` from
  the parameters of the configuration; a dictionary may scale them.
- **ModelUpdates** (`merger.cc`, `processor.cc`): one model's life: increments computed against the published model, with
  the tokens that it does not know; merging, `PullTopicModel`, `InvokePhiRegularizers` on a copy, saving and
  overwriting with any external model, tokens listed twice included.

### Collections

- **BatchHelpers** (`helpers.cc`): a batch, `CompactBatch`, `PopulateClassId`.
- **CollectionParser** (`collection_parser.cc`): `header` is the first line (D, W, NNZ) with the checks on it; one action for each kind of line (invalid, zero count, parsed), for the opening and
  the end of the file with the dictionaries; then batches are loaded and added as `AddBatch` does. The file is a sequence
  of lines chosen step by step.

### Ids, nodes and proxies

- **TemplateManager** (`template_manager.h`): `Create` is two locked sections (`Reserve`, `Insert`) around a construction without
  a lock; `building[t]` is what thread `t` constructs.
- **NodeService** (`node_controller_service_impl.cc`): requests wait for `lock_` in any order; the handler that holds it is
  `handler[n]`, and its pc stands between the calls that it makes to the manager, whose lock is another one. `late`
  holds requests whose caller has given up. The node runs in the process of its callers, as in the tests: a
  node elsewhere has a manager of its own, and fewer interactions.
- **MasterProxy** (`master_proxy.cc`, `c_interface.cc`): API threads that create components and proxies, use them and dispose of them.
  A construction is three RPCs; when one fails the object is given up, but what the node has done remains. An RPC may
  time out at any moment, with the request lost, still waiting or being served. A thread that uses a proxy keeps it alive, and destroys it
  when another has disposed of it meanwhile. `known` (ghost) is what the application was given. Ids grow, so that they tell what is older:
  `ProxyFresh` says that a proxy only reaches a component created after its own construction had begun. That there is one is not
  stated: a `DisposeMasterComponent` served late, from a call that was given up, takes away the component of a newer proxy (section 5).

Definitions introduced by the comment "Mutant of ..." are wrong variants of a definition, the way a bug would
make it; putting one in place of the original violates the property named with it in `PROJECT.json`. They
are used nowhere else.

## 3. What is checked

| Run | What it explores and shows |
|---|---|
| `MCLocalLifecycle` | 2 processors, 2 batches, 2 models, double iterations, processors removed (down to one) and added, batches added and WaitIdle timing out at any moment, models created and disposed of when idle: `Conservation` (every task is queued, on its way or counted), `WaitIdleComplete` (models and scores count every batch of the iterations, no older ones), `ThetaComplete`, `ThetaReused`, `ModelPresent`, `SameIncarnation`, `SchemaModelsExist`, `AtMostOneCopy` and `MarkedIffHanded` (the marks of the batch manager), `ImplementsTracking` |
| `MCLocalQueues` | 3 batches, queues of size 1, a model that may be disabled, destruction and changes of the number of processors at any moment: `ProcessorQueueBounded`; the merger queue stays below its limit plus one increment for each processor and model (`MergerQueueBounded`); `WaitIdleReturns` (nothing but the mark of a disabled model keeps it waiting), `JoinsReturn` (neither a destructor nor `Reconfigure` waits for ever for a thread) |
| `MCNetworkIteration` | 2 nodes of which one may stop at any moment, a double iteration: `WaitIdleComplete`, `Conservation` (a task that a stopped node took stays in progress), `NetworkWaitIdleReturns` unless a node has stopped, `ImplementsTracking` |
| `MCNetworkLifecycle` | nodes connected and disconnected, one that stops and comes back empty, a batch that cannot be read, regularization and overwriting also during an iteration, models created once more on a node that has lost them, timeouts, 6 calls: `CountedOnce`, `ModelsInSync` |
| `MCTopicModel` | 2 classes, 2 keywords, 2 topics, 4 updates: `NormalizerExact`, `ReloadSame`, `PushAdds`, `NewTokensAlive` |
| `MCCollectionParser` | files of up to 5 lines with invalid ids, zero counts, repeated documents and headers wrong in each of the three numbers, dictionaries that exist already: `DocumentsKept`, `BatchesFilled`, `ContentKept`, `DictionaryExact`, `CooccurrenceExact` |
| `MCProxy` | 2 API threads and a node, 4 calls in all, RPCs that fail in every way: `NothingLost`, `OneHosted`, `ProxyFresh`, `CallsReturn` |

Each module has one type invariant, checked in one of its runs.

Bounds. `MaxCalls` bounds the API calls of a run (`MaxTasks`, in the refinement, the task list that they allow), `MaxQueue` the increments that wait in `ModelUpdates`,
`MaxUpdates` its updates, `MaxLines` the lines of a file and `MaxBatches` the batches added; nothing
else is cut. Two processors, nodes, models and batches are the smallest numbers at which a batch can be processed twice, a pull can
stop half way, a push can meet a pull and the order of models matters; three batches fill both queues and leave
a processor waiting. Two passes in an iteration queue a batch again while it is out. The six calls of `MCLocalLifecycle` and
`MCNetworkLifecycle` are enough for a model, or a node, to come, work, go and come back between two iterations. The processors of `MCLocalLifecycle`
are symmetric: nothing tells them apart but their names, and its properties are safety properties. Two classes and two keywords allow one keyword in both classes, and two orders of discovery; four
updates allow merge, pull, regularization and overwrite in every order. Five lines give three documents, of which two fill a batch.
Four calls of two threads are a construction that fails, a second one, a use and a disposal. After the last call the threads
only poll, so the runs with threads do not check for deadlock; liveness is checked instead.

Fairness. `FairSpec` of `LocalInstance` and of `NetworkMode` assumes weak fairness of each thread. The code's loops sleep and
try again, and no thread holds a lock while it waits, so each thread that can take a step takes one eventually; a
request that was sent is handled. A call in progress continues; no new call is ever assumed, no node has to stop. In
`MasterProxy` the threads of clients and nodes are fair, and a deadline is counted on only where no reply will ever
come (a `WaitIdle` without a master component): a cycle of threads that wait for each other is not broken by it. That
the hosted component finishes its batches is `WaitIdleReturns`.

Where code and documentation disagree, a run shows it (findings in `PROJECT.json` quote the lines):

| Run | Shown |
|---|---|
| `MCDisposeAbort` | a model disposed of during an iteration: a processor hits its assertion |
| `MCNetworkModels` | with two models a batch is done on the master at the report of the first: WaitIdle returns with an incomplete second model |
| `MCCompactBatch` | `CompactBatch` drops the classes of tokens |
| `MCDisabledModel` | batches are marked for a disabled model too, which nobody reports: WaitIdle does not return, although all threads are fair |
| `MCThetaReuse` | in an iteration of two passes a batch is taken again between its report and its cache entry: its theta is not re-used |

## 4. What is proved

Each proof has an inductive invariant, a lemma per thread or operation with a step per action, and theorems for
every value of the constants that the modules' assumptions admit.

**BatchTrackingProofs**, for any sets `Batch` and `Model` of naturals and any caller that keeps the contract: `TypeCorrect` (debts never
become negative), `MarksAreDebts`, `OneCopy`, `ProcessedIsReported`. The invariant `TrackingInv` is types, marks equal debts,
debts at most one. None of these is inductive alone: that a batch is selectable must imply that no copy is
out, and that `Done` may remove the mark needs that it was the only copy. `Forget` is harmless because in a quiet state no
mark exists. Both pipelines are shown to be such a caller, under the assumptions below, so the theorems hold of them as well.

**LocalInstanceProofs**, about `Spec` of `LocalInstance` with any calls, also those made while an iteration runs:
`InstanceTypeCorrect`, `ProcessorQueueIsBounded`, `ListedModelsExist`, and for finitely many models `MergerQueueIsBounded`. `TypeOK`
alone is not inductive: a thread between two steps must hold what its next step uses (`LoaderHolds`, `MergerHoldsIncrement`,
`ProcessorHolds`, `CallHolds`). The bound of the processor queue needs `RoomReserved`: a loader past its check counts as one
element. `ListedModelsExist` needs to know how far a call has come (`ModelsInOrder`). Processors push increments without looking at
the merger's queue and wait for room only after a batch, so `QueueReserved` counts what may still come: the increments in
the queue and the pairs of a processor and a model that may be pushed before that processor's next wait (`Pending`) stay below the
bound. A push moves a pair from one count to the other; a passed wait adds pairs, at most all of them, when the queue is below its
limit. A processor that `Reconfigure` removed still counts with all models, because a new one may start in its place.

**LocalFlowProofs** and **LocalPipelineProofs**, for any batches, models, processors, queue limits and interleaving, when the caller
is `Disciplined`: `ConservationHolds`, `WaitIdleIsComplete`, `ThetaIsComplete`, `ModelIsPresent`, `IncarnationIsTheSame`, `ThetaIsReused`,
`OneCopyIsOut`, `MarksAreCopies`, and the refinement `PipelineImplementsTracking`.

- The assumption. `Disciplined` says that models are created and disposed of, and iterations invoked, only after `WaitIdle` has returned
  true; that no model is disabled; and that one model is enabled from the start and never disposed of. Most tests and
  examples call the API in this way, not all: `instance_test.cc:119` and `cpp_interface_test.cc:185` disable a model, and `cpp_interface_test.cc:287-292`
  iterates without one. The constants of `MCLocalLifecycle` satisfy it. It is needed:
  a model disposed of during an iteration makes a processor abort (`MCDisposeAbort`), the batches of a disabled model stay marked (`MCDisabledModel`), and while the schema has no model
  `BatchManager::Next` marks a batch for nobody, so that `WaitIdle` returns while it is still being processed and a model
  created then counts it.
- Counting. `Conservation` sums cardinalities over two queues, a list and a set of threads. `LocalFlowProofs` states what
  `Append`, `Tail` and `RemoveAt` do to such a count (`WhereAppend`, `WhereTail`, `WhereRemoveAt`), and then that a step of each thread moves at most one
  copy to the next place (`LoaderFlow`, `ProcessorFlow`, `MergerFlow`, `ApiFlow`).
- The invariant `PipelineInv`. `MarksInv` (the mark of a batch equals the number of its copies on their way, none or one) is the core: it
  turns "everything processed" into "every place is empty" (`NobodyHolds`). It needs that a snapshot's models stay
  (`HoldersInv`), which needs that nothing is on its way when a model changes (`CalmInv`), which in turn needs `MarksInv`: they are
  inductive only together. `TasksInv` ties a waiting call to its one task in the merger's queue and to `sync_event`; `CountInv`, `PullInv`
  and `ScoresInv` follow the counts from the task list to the published model while `WaitIdle` pushes and pulls; `CacheInv` gives the
  window between the report of a batch and its cache entry, which is closed before the merger takes the task of `WaitIdle`.
- Re-use. `ReuseInv`: what a published model counts has its entry in the cache, and the loader that holds a batch has seen its entries. At the moment of a
  pull this follows from `CacheInv`; afterwards entries are never removed, and no model is published while the loader holds a batch. The sums that are yet to be
  published have no such guarantee: `MCThetaReuse` is the counterexample.
- The refinement. `MarksInv` before and after a step makes the ghost `handed` a function of `in_progress`, so that `Next`, `Callback`
  and the calls map to the actions of `BatchTracking` and all other steps to stutters. The bound of the abstract task list needs `BoundInv`
  and finitely many batches (`Bounded`): a call that queues tasks found the list empty.

**NetworkModeProofs**, for any nodes, models, batches and calls, also calls made while an iteration runs, with nodes that stop and come back empty at any
moment; endpoints change, and models are disposed of, only when no task is out (`NetworkAssumption`): `NetworkTypeCorrect` and `ModelsAreInSync`. `NetworkInv` says how far a call that changes models has come (`SyncInv`: only
nodes that it has yet to reach may be behind), and that the task a call waits for is the last one of exactly one merger (`Waits`): a
node's merger pulls only for the call that waits for it, and the master's models change only when no node pulls. Without the second part a pull could
be answered with a model of before the change and arrive after the call. A model that a node got by `RecreateModel` is empty while the master's is trained; `PulledInv`
says that a call that makes all nodes pull leaves none of those behind.

The same module, for any finite set of nodes, one model, and models created only after `WaitIdle`: `FlowInvariant` and `NothingCountedTwice`; and when
the caller and the nodes are `Steady`: `NetworkConservation`, `NetworkWaitIdle` and the refinement `NetworkImplementsTracking`.

- The assumptions. With two models `ReportBatches` marks a batch as done for both at the report of the first, and `WaitIdle` returns too early
  (`MCNetworkModels`), so `OneModel` is needed. `Steady` says that no node comes back empty, that the endpoints do not change, and that models are regularized
  and overwritten only after `WaitIdle`; otherwise tasks are lost with a node's batches, or with the increment that a node drops when it pulls.
  Nodes may stop for good at any moment. The constants of `MCNetworkIteration` satisfy `Steady`, those of `MCNetworkLifecycle` only what `NothingCountedTwice` assumes.
- Counting. `Accounted` sums over the nodes, their queues and the master's queue. `Total` is the size of the area under a function, so that what happens at
  one place is a lemma about cardinalities (`TotalAt`, `SumAppend`, `SumRemoveAt`); then a step moves at most one copy, or one increment, from one place to another
  (`RequestMoves`, `AsideMoves`, `MergerMoves`, `GivenMoves`).
- The invariant. `FlowInv`: a batch that a node has taken is marked, and on no other node (`MarkInv`); so "everything processed" means that the
  nodes are idle, and from there each step of `WaitIdle` empties the next place, the nodes' increments, the master's queue and its merger (`DrainInv`), and what is
  empty stays empty; after a `WaitIdle` that returned true nothing is left (`QuietInv`). That a count never rises then gives `CountedOnce`.
- Nothing is lost: `SteadyInv` says that each node has the model, so that an increment is not discarded, and that a task that disposes of a model finds no increment.
  Until the pull the count is exact (`ExactInv`); at the pull all of it is in the master's increment (`PullsAll`), so that the published model is what was due
  (`PublishedInv`).
- The refinement. `MarkInv` gives at most one copy of a batch, and only of a marked one; the converse, that a marked batch is still on a node, is `TrackedInv`, which
  holds because no node is emptied. Together they make `handed`, a sum over the nodes, a function of `in_progress` (`HandedIs`). `RequestBatches` is then `HandOut`;
  `ReportBatches` is `Report` for the one model there is, or a stutter when there is none. Iterations may be invoked while another is processed, so
  `BoundInv` bounds the task list by the calls made: each adds at most its `Quota`, and what a call has still to add fits.

**TopicModelProofs**, for any classes, keywords, topics and updates: `ModelTypeCorrect`, `NormalizersAreExact`, `PushesAdd`, `ReloadIsTheSame` and
`NewTokensAreAlive`. What holds along a loop over entries or tokens follows from the lemma `Induction` once the recursive function is shown to exist.
- The invariant `ModelInv` is the consistency of tokens, indices and rows together with the normalizers (`GoodModel`). `n_t` is
  compared with a sum over all tokens, which is a recursive function; `SumChange` says what the change of one row does to it, `SetRowsGood` and `AppendedGood`
  that a changed weight and a new token keep model and normalizers in step, for every case of signs.
- `PushesAdd`: entry by entry, the model built so far has the first weights plus those of the entries so far (`Adds`), since an increment has a token only once.
- `ReloadIsTheSame`: the model built from the first k external tokens has the first k tokens and rows (`FirstTokens`). The normalizers need no comparison
  of loops: both models are good, and good models with the same tokens and rows have the same sums (`SameModel`). That a class has a normalizer only if the model
  has a token of it (`ShapeOK`) is part of the invariant for this.
- `NewTokensAreAlive`: `LiveInv` says that an increment, and each that waits, has only tokens that the model knows or that it announces as discovered (`Announces`), and that
  counts are not negative. `ApplyDiff` takes the random rows of the discovered tokens before the counts (`Ready`), so that a token is never created by a
  count of zero. The hypothesis `PositiveRows`, that a random row is not zero everywhere, is about the draw in `AddToken`:
  random numbers divided by their sum, which are no numbers at all in the case, of negligible probability, that all topics draw zero.

**CollectionParserProofs**, for any vocabulary, file and size: `ParserTypeCorrect`, `BatchesAreFilled`, `DictionaryIsExact`, `CooccurrenceIsExact`,
`DocumentsAreKept` and `ContentIsKept`.
- `ParserInv` adds to the types that the dictionary of the batch numbers its tokens without gaps and that an item is open when a line may
  continue one; `NumberedOK`, `OccurrenceOK` and `NextBatchOK` are about one line.
- The statistics: `StatInv` says of each accumulator what the lines so far amount to, with the tokens of the open document counted apart until it ends. Totals
  are folds; a fold is shown to be the recursive function of its partial results by well-founded induction, so that one more line adds its summand.
- The documents: `DocInv` says that each batch refers only to its own tokens, that the documents of the folder and the open batch, one after the other, say the
  lines so far, and that the last of them has the id `prev_item_id_`. Lemmas about flattened sequences say what a new word, a new item and a new batch do.
- The content: `ContentInv` keeps that a batch in the loader says what the user's batch said. Compaction renumbers the tokens that are used; that numbering is
  one to one and in the order of the ids (`CompactedIds`). The hypothesis `CompactsUntagged` is needed: compaction drops the classes of a batch, which is the finding of the run `MCCompactBatch`.

**MasterProxyProofs**, for any nodes, clients and calls: `ProxyTypeCorrect`, `CreatedIsRegistered`, `OneHostedComponent`, `ProxyIsFresh`. `IdsOK`: ids in use
are below `next_id_` and differ, so that the search for a free id ends at once (`FreeIdIsNext`) and `Insert` finds nothing under
its id. `HostedOK` says for each point of a handler what the manager has for the node: the id is erased before
`master_` is reset, and inserted before it is set. `ProxyIsFresh` needs to know which request each handler serves: `LinkInv` ties a
handler that works for a thread to the request the thread waits for, and what a thread may still call to the API call it is in. `FreshInv` then
says that from the moment a constructor has the answer to its reset (`ResetDone`), all that the node hosts, or is about to host, was
created after the proxy's id was taken (`Younger`), whatever late requests do in between: they can take a component away, but not put an old one back.

Only model-checked: the liveness properties, since fairness and `ENABLED` are beyond this prover; and the refutations of the five runs that expect a violation, which are
counterexamples. Every invariant and every action property that a passing run checks is stated by a theorem, some under the hypotheses named above.

## 5. What is not modelled

- Generated code (protobuf and rpcz stubs, more than three quarters of the lines under `src/src/artm`) has no logic of its own.
- Floating-point inference, regularizers of Theta, `DecorrelatorPhi` and `MultiLanguagePhi`, which compute with quotients of weights,
  and the formulas of scores. A weight is an integer; a row of topics changes as a whole.
- Several API threads on one component: `get_copy`, modify and `set` of the schema and of the generation lose an update
  when two threads configure a component or add batches, and a regularization can overwrite a pull of another thread. Nothing in the documentation
  allows such use, and the hazards are listed.
- Two behaviours that the models have, but that no property excludes and no run states: a theta cache that outlives its model (no disposal clears `cache`, although
  `c_interface.txt:216` says that `ArtmDisposeModel` deletes the theta matrix; a new model of that name starts from the old rows), and a proxy without a component (a
  `DisposeMasterComponent` is served after its caller gave up and takes away the component of a newer proxy, although `c_interface.txt:78` says that creating a proxy
  starts one). Both are listed as hazards.
- A document with the id -1, with which `prev_item_id` starts: its first line begins no item, and `collection_parser.cc:241` would use a null field. `ItemId` are naturals.
- `Reconfigure` with another disk path or other limits of the queues; dictionaries and regularizers as objects; `DiskGeneration` reads
  files where `MemoryGeneration` has a map.
- Scores and theta matrices of nodes, and requests for results, in network mode.
- `TemplateManager::TryCreate`, `First` and `Clear` are called by tests only. (`TryCreate` can report success although another
  `Create` has taken the id while it constructed.)
- Conversions of messages and exceptions at the C and C++ interfaces; file names, and reading and writing of files.
- A topic without any positive weight has `n_t = 0` and weights that are not a number: `ModelUpdates` follows the code, which then counts no
  token of the class, and states no property about it.
