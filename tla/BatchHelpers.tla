---------------------------- MODULE BatchHelpers ----------------------------
(***************************************************************************)
(* Batches of documents and what BatchHelpers (core/helpers.cc) does to    *)
(* them.  An item's fields are one sequence of occurrences, which name     *)
(* their token by its place in the batch (from 1).                         *)
(***************************************************************************)
EXTENDS Integers, SequencesExt

CONSTANTS ClassId, DefaultClass, Keyword

ASSUME BatchAssumption == DefaultClass \in ClassId

Occurrence == [token_id : Int, token_count : Int]
Item == [id : Int, field : Seq(Occurrence)]
Batch == [token : Seq(Keyword), class_id : Seq(ClassId), item : Seq(Item)]

EmptyBatch == [token |-> <<>>, class_id |-> <<>>, item |-> <<>>]

NoIds == [id \in {} |-> 0]
WithId(ids, id, new) == [x \in DOMAIN ids \cup {id} |-> IF x = id THEN new ELSE ids[x]]

PopulateClassId(batch) ==
  IF Len(batch.class_id) = Len(batch.token) THEN batch
  ELSE [batch EXCEPT !.class_id = [i \in DOMAIN batch.token |-> DefaultClass]]

-----------------------------------------------------------------------------
TokenIds(batch) ==
  FlattenSeq([i \in DOMAIN batch.item |->
                [k \in DOMAIN batch.item[i].field |-> batch.item[i].field[k].token_id]])

\* CompactBatch throws for any other token id.
HasValidIds(batch) == ToSet(TokenIds(batch)) \subseteq DOMAIN batch.token

\* orig_to_compacted_id_map: the tokens that are used, in the order of their use.
CompactedIds(batch) ==
  FoldLeft(LAMBDA ids, id : IF id \in DOMAIN ids THEN ids
                            ELSE WithId(ids, id, Cardinality(DOMAIN ids) + 1),
           NoIds, TokenIds(batch))

\* Mutant of CompactBatch: the occurrences keep their token ids.
CompactDictionary(batch) ==
  LET ids == CompactedIds(batch)
  IN [EmptyBatch EXCEPT
        !.token = [new \in 1..Cardinality(DOMAIN ids) |->
                     batch.token[CHOOSE id \in DOMAIN ids : ids[id] = new]],
        !.item = batch.item]

\* The compacted batch gets no class ids.
CompactBatch(batch) ==
  LET ids == CompactedIds(batch)
      Renamed(occurrence) == [occurrence EXCEPT !.token_id = ids[@]]
  IN [EmptyBatch EXCEPT
        !.token = [new \in 1..Cardinality(DOMAIN ids) |->
                     batch.token[CHOOSE id \in DOMAIN ids : ids[id] = new]],
        !.item = [i \in DOMAIN batch.item |->
                    [id |-> batch.item[i].id,
                     field |-> [k \in DOMAIN batch.item[i].field |->
                                  Renamed(batch.item[i].field[k])]]]]

-----------------------------------------------------------------------------
\* What a reader of the batch sees: every document with its words.
Word(batch, occurrence) ==
  [keyword |-> batch.token[occurrence.token_id],
   class_id |-> PopulateClassId(batch).class_id[occurrence.token_id],
   token_count |-> occurrence.token_count]

Documents(batch) ==
  [i \in DOMAIN batch.item |->
     [id |-> batch.item[i].id,
      words |-> [k \in DOMAIN batch.item[i].field |-> Word(batch, batch.item[i].field[k])]]]
=============================================================================
