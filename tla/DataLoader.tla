----------------------------- MODULE DataLoader -----------------------------
(***************************************************************************)
(* core/data_loader.cc, LocalDataLoader, and core/generation.cc: the       *)
(* generation of batches, the cache of theta matrices, the thread that     *)
(* feeds the processor queue and the callback that the merger runs after   *)
(* every increment.  One action per access to an object with its own lock. *)
(*                                                                         *)
(* A batch is its uuid and a theta matrix is the pair of batch and model   *)
(* it was computed for.  `nil' branches that depend on batches vanishing   *)
(* from a generation are kept though a MemoryGeneration only grows.        *)
(***************************************************************************)
EXTENDS BatchManager

CONSTANTS ProcessorQueueMaxSize,   \* config.processor_queue_max_size()
          CacheTheta               \* config.cache_theta()

ASSUME DataLoaderAssumption ==
  /\ ProcessorQueueMaxSize \in Nat \ {0}
  /\ CacheTheta \in BOOLEAN

VARIABLES generation,              \* generation_: uuids of the batches added
          cache,                   \* cache_: pairs <<batch, model>>
          processor_queue,         \* queue of ProcessorInput
          loader,                  \* LocalDataLoader::ThreadFunction
          loader_stopping          \* LocalDataLoader::is_stopping

dataLoaderVars == <<generation, cache, processor_queue, loader, loader_stopping>>

ProcessorInput == [batch : Batch, cached_theta : SUBSET Model]

LoaderState == [pc : {"size", "next", "batch", "cache", "push", "stopped"},
                batch : Batch \cup {Nil},
                cached_theta : SUBSET Model]

DataLoaderTypeOK ==
  /\ generation \in SUBSET Batch
  /\ cache \in SUBSET (Batch \X Model)
  /\ processor_queue \in Seq(ProcessorInput)
  /\ loader \in LoaderState
  /\ loader_stopping \in BOOLEAN

DataLoaderInit(batches) ==
  /\ generation = batches
  /\ cache = {}
  /\ processor_queue = <<>>
  /\ loader = [pc |-> "size", batch |-> Nil, cached_theta |-> {}]
  /\ loader_stopping = FALSE

LoaderGoto(pc) == loader' = [loader EXCEPT !.pc = pc]

LoaderAgain == loader' = [pc |-> "size", batch |-> Nil, cached_theta |-> {}]

-----------------------------------------------------------------------------
(* ThreadFunction.  A sleep is no step: the thread polls again.            *)

LoaderStop ==
  /\ loader.pc = "size"
  /\ loader_stopping
  /\ LoaderGoto("stopped")
  /\ UNCHANGED <<batchManagerVars, generation, cache, processor_queue, loader_stopping>>

\* Mutant of LoaderSize: off by one.
LoaderSizeOffByOne ==
  /\ loader.pc = "size"
  /\ ~loader_stopping
  /\ Len(processor_queue) <= ProcessorQueueMaxSize
  /\ LoaderGoto("next")
  /\ UNCHANGED <<batchManagerVars, generation, cache, processor_queue, loader_stopping>>

LoaderSize ==
  /\ loader.pc = "size"
  /\ ~loader_stopping
  /\ Len(processor_queue) < ProcessorQueueMaxSize
  /\ LoaderGoto("next")
  /\ UNCHANGED <<batchManagerVars, generation, cache, processor_queue, loader_stopping>>

LoaderNext ==
  /\ loader.pc = "next"
  /\ \E i \in 1..Len(tasks) :
       /\ NextTask(i)
       /\ loader' = [loader EXCEPT !.pc = "batch", !.batch = tasks[i]]
  /\ UNCHANGED <<generation, cache, processor_queue, loader_stopping>>

LoaderNothing ==
  /\ loader.pc = "next"
  /\ NoTask
  /\ LoaderGoto("size")
  /\ UNCHANGED <<batchManagerVars, generation, cache, processor_queue, loader_stopping>>

LoaderBatch ==
  /\ loader.pc = "batch"
  /\ IF loader.batch \in generation
     THEN LoaderGoto("cache") /\ UNCHANGED batchManagerVars
     ELSE DoneForAll(loader.batch) /\ LoaderAgain
  /\ UNCHANGED <<generation, cache, processor_queue, loader_stopping>>

CachedTheta(b) == {m \in Model : <<b, m>> \in cache}

LoaderCache ==
  /\ loader.pc = "cache"
  /\ loader' = [loader EXCEPT !.pc = "push", !.cached_theta = CachedTheta(loader.batch)]
  /\ UNCHANGED <<batchManagerVars, generation, cache, processor_queue, loader_stopping>>

LoaderPush ==
  /\ loader.pc = "push"
  /\ processor_queue' = Append(processor_queue,
       [batch |-> loader.batch, cached_theta |-> loader.cached_theta])
  /\ LoaderAgain
  /\ UNCHANGED <<batchManagerVars, generation, cache, loader_stopping>>

LoaderThread ==
  \/ LoaderStop \/ LoaderSize \/ LoaderNext \/ LoaderNothing \/ LoaderBatch
  \/ LoaderCache \/ LoaderPush

-----------------------------------------------------------------------------
(* LocalDataLoader::Callback, on the merger's thread: two locks, in this   *)
(* order.                                                                  *)

\* Mutant of CallbackDone: the batch manager is not notified.
CallbackNotDone(b, m) == UNCHANGED batchManagerVars

CallbackDone(b, m) == Done(b, m)

\* Mutants of CallbackCache: the parts of the key swapped, one entry only.
CallbackCacheSwapped(b, m) ==
  cache' = IF CacheTheta THEN cache \cup {<<m, b>>} ELSE cache

CallbackCacheOne(b, m) ==
  cache' = IF CacheTheta THEN {<<b, m>>} ELSE cache

CallbackCache(b, m) ==
  cache' = IF CacheTheta THEN cache \cup {<<b, m>>} ELSE cache

(* AddBatch: clone the generation, add the batch, set the new generation.  *)
(* One thread calls the API, so nothing intervenes.                        *)
AddBatch(b) ==
  /\ b \notin generation
  /\ generation' = generation \cup {b}
  /\ UNCHANGED <<batchManagerVars, cache, processor_queue, loader, loader_stopping>>

\* RequestThetaMatrix: the batches with an entry for the model.
ThetaMatrix(m) == {b \in generation : <<b, m>> \in cache}
=============================================================================
