----------------------------- MODULE Processor -----------------------------
(***************************************************************************)
(* core/processor.cc, Processor::ThreadFunction: pop a batch, take a       *)
(* snapshot of the schema, compute one increment for each enabled model    *)
(* and push it, then wait for room in the merger queue.  The numbers of an *)
(* increment are abstracted away.                                          *)
(***************************************************************************)
EXTENDS Merger

CONSTANTS Processors,              \* processor threads
          MergerQueueMaxSize       \* config.merger_queue_max_size()

ASSUME ProcessorAssumption ==
  /\ Processors # {}
  /\ IsFiniteSet(Processors)
  /\ MergerQueueMaxSize \in Nat \ {0}

VARIABLES processor,               \* Processor::ThreadFunction, by thread
          processor_stopping       \* Processor::is_stopping, by thread

processorVars == <<processor, processor_stopping>>

ProcessorState == [pc : {"pop", "schema", "get", "push", "full", "stopped", "aborted"},
                   part : ProcessorInput \cup {Nil},
                   todo : SUBSET Model,
                   incarnation : Nat]

ProcessorTypeOK ==
  /\ processor \in [Processors -> ProcessorState]
  /\ processor_stopping \in [Processors -> BOOLEAN]

\* A thread that has just started.
NewProcessor == [pc |-> "pop", part |-> Nil, todo |-> {}, incarnation |-> 0]

ProcessorInit ==
  /\ processor = [p \in Processors |-> NewProcessor]
  /\ processor_stopping = [p \in Processors |-> FALSE]

ProcessorStop(p) ==
  /\ processor[p].pc = "pop"
  /\ processor_stopping[p]
  /\ processor' = [processor EXCEPT ![p].pc = "stopped"]
  /\ UNCHANGED <<processor_stopping, processor_queue, merger_queue>>

ProcessorPop(p) ==
  /\ processor[p].pc = "pop"
  /\ ~processor_stopping[p]
  /\ processor_queue # <<>>
  /\ processor' = [processor EXCEPT ![p].pc = "schema", ![p].part = Head(processor_queue)]
  /\ processor_queue' = Tail(processor_queue)
  /\ UNCHANGED <<processor_stopping, merger_queue>>

\* After its last model the thread waits for room; until then it reads the next
\* model.  Disabled models of the snapshot are skipped without an increment.
Continue(p, names) ==
  processor' = [processor EXCEPT ![p].pc = IF names = {} THEN "full" ELSE "get",
                                 ![p].part = IF names = {} THEN Nil ELSE @,
                                 ![p].todo = names,
                                 ![p].incarnation = 0]

ProcessorSchema(p) ==
  /\ processor[p].pc = "schema"
  /\ Continue(p, EnabledModels)
  /\ UNCHANGED <<processor_stopping, processor_queue, merger_queue>>

\* merger_.GetLatestTopicModel and assert(topic_model.get() != nullptr).  In a
\* build without assertions the next line dereferences the null pointer: the
\* process is gone either way.
ProcessorGet(p) ==
  LET ttm == topic_model[Min(processor[p].todo)] IN
  /\ processor[p].pc = "get"
  /\ processor' = IF ttm = Nil
                  THEN [processor EXCEPT ![p].pc = "aborted"]
                  ELSE [processor EXCEPT ![p].pc = "push", ![p].incarnation = ttm.incarnation]
  /\ UNCHANGED <<processor_stopping, processor_queue, merger_queue>>

\* The increment is pushed when the scope of one model ends, without regard to
\* the size of the queue.
ProcessorPush(p) ==
  LET m == Min(processor[p].todo) IN
  /\ processor[p].pc = "push"
  /\ merger_queue' = Append(merger_queue,
       [batch |-> processor[p].part.batch, model |-> m,
        incarnation |-> processor[p].incarnation])
  /\ Continue(p, processor[p].todo \ {m})
  /\ UNCHANGED <<processor_stopping, processor_queue>>

\* Mutant of ProcessorFull: does not wait for the merger.
ProcessorNeverFull(p) ==
  /\ processor[p].pc = "full"
  /\ processor' = [processor EXCEPT ![p].pc = "pop"]
  /\ UNCHANGED <<processor_stopping, processor_queue, merger_queue>>

ProcessorFull(p) ==
  /\ processor[p].pc = "full"
  /\ Len(merger_queue) < MergerQueueMaxSize
  /\ processor' = [processor EXCEPT ![p].pc = "pop"]
  /\ UNCHANGED <<processor_stopping, processor_queue, merger_queue>>

ProcessorThread(p) ==
  \/ ProcessorStop(p) \/ ProcessorPop(p) \/ ProcessorSchema(p)
  \/ ProcessorGet(p) \/ ProcessorPush(p) \/ ProcessorFull(p)
=============================================================================
