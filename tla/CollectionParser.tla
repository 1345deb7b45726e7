-------------------------- MODULE CollectionParser --------------------------
(***************************************************************************)
(* CollectionParser::ParseBagOfWordsUci (core/collection_parser.cc): the   *)
(* lines "item_id token_id token_count" of a docword file become batches   *)
(* in the target folder and two dictionaries with statistics; and the way  *)
(* a batch takes from there into a data loader (LocalDataLoader::AddBatch).*)
(***************************************************************************)
EXTENDS BatchHelpers

CONSTANTS Nil,
          Vocab,              \* the vocab file: a keyword for each token
          Header,             \* what the three numbers of the docword file may be
          ItemId, LineTokenId, LineTokenCount,   \* what a line may hold
          NumItemsPerBatch,
          CooccurrenceTokens, \* keywords to collect co-occurrences of
          DictionaryFiles,    \* the dictionaries to save
          ExistingFiles,      \* what the target folder may contain
          UserBatches,        \* batches a user adds without the parser
          CompactBatches,     \* values of MasterComponentConfig.compact_batches
          MaxLines, MaxBatches\* bounds on the lines and on the batches added

Files == {"dictionary", "cooccurrence"}
Token == DOMAIN Vocab

\* Keywords are compared.  No document has the id -1, the initial
\* prev_item_id: its words would be added to no item.
ASSUME ParserAssumption ==
  /\ Keyword \subseteq Int /\ Vocab \in Seq(Keyword)
  /\ Header \subseteq [num_docs : Int, num_unique_tokens : Int, num_tokens : Int]
  /\ ItemId \subseteq Nat /\ LineTokenId \subseteq Int /\ LineTokenCount \subseteq Nat
  /\ NumItemsPerBatch \in Nat \ {0}
  /\ CooccurrenceTokens \subseteq Keyword
  /\ DictionaryFiles \subseteq Files /\ ExistingFiles \subseteq SUBSET Files
  /\ UserBatches \subseteq Batch /\ CompactBatches \subseteq BOOLEAN
  /\ MaxLines \in Nat /\ MaxBatches \in Nat

VARIABLES pc, header, token_info, batch, batch_dictionary, prev_item_id,
          total_token_count, total_items_count, token_count_zero,
          item_tokens, token_coocurrence,   \* CoocurrenceStatisticsAccumulator
          target_folder, files,             \* the batches and dictionaries saved
          dictionary, cooccurrence,         \* the results, or Nil
          generation,                       \* the batches of the data loader
          docword,                          \* ghost: the lines that count
          added                             \* ghost: the batches as they were added

statistics == <<token_info, total_token_count, total_items_count>>
accumulator == <<item_tokens, token_coocurrence>>
current == <<batch, batch_dictionary, prev_item_id>>
folder == <<target_folder, files>>
loaded == <<generation, added>>
vars == <<pc, header, statistics, current, token_count_zero, accumulator, folder,
          dictionary, cooccurrence, loaded, docword>>

Init ==
  /\ pc = "open"
  /\ header \in Header
  /\ token_info = <<>> /\ total_token_count = 0 /\ total_items_count = 0
  /\ batch = EmptyBatch /\ batch_dictionary = NoIds /\ prev_item_id = -1
  /\ token_count_zero = 0
  /\ item_tokens = {} /\ token_coocurrence = NoIds
  /\ target_folder = <<>> /\ files \in ExistingFiles
  /\ dictionary = Nil /\ cooccurrence = Nil
  /\ generation = <<>> /\ added = <<>>
  /\ docword = <<>>

-----------------------------------------------------------------------------
\* The checks of header, configuration and vocabulary.
IsConsistent ==
  /\ header.num_docs > 0 /\ header.num_unique_tokens > 0 /\ header.num_tokens > 0
  /\ header.num_unique_tokens = Len(Vocab)
  /\ "cooccurrence" \in DictionaryFiles => CooccurrenceTokens # {}

ReadVocab ==
  /\ pc = "open"
  /\ \/ /\ IsConsistent
        /\ pc' = "lines"
        /\ token_info' = [token \in Token |-> [token_count |-> 0, items_count |-> 0]]
     \/ ~IsConsistent /\ pc' = "failed" /\ UNCHANGED token_info
  /\ UNCHANGED <<header, total_token_count, total_items_count, current,
                 token_count_zero, accumulator, folder, dictionary, cooccurrence, loaded, docword>>

\* The rest of the file is not read; the batches that were saved stay.
InvalidLine(token_id) ==
  /\ pc = "lines"
  /\ token_id \notin Token
  /\ pc' = "failed"
  /\ UNCHANGED <<header, statistics, current, token_count_zero, accumulator, folder,
                 dictionary, cooccurrence, loaded, docword>>

MoreLines == Len(docword) + token_count_zero < MaxLines

\* Mutant of ZeroLine: the word is counted before its zero is seen.
CountedZeroLine(token_id, token_count) ==
  /\ pc = "lines"
  /\ token_id \in Token
  /\ token_count = 0
  /\ MoreLines
  /\ token_count_zero' = token_count_zero + 1
  /\ token_info' = [token_info EXCEPT ![token_id].items_count = @ + 1]
  /\ UNCHANGED <<pc, header, total_token_count, total_items_count, current,
                 accumulator, folder, dictionary, cooccurrence, loaded, docword>>

\* A word without occurrences is ignored.
ZeroLine(token_id, token_count) ==
  /\ pc = "lines"
  /\ token_id \in Token
  /\ token_count = 0
  /\ MoreLines
  /\ token_count_zero' = token_count_zero + 1
  /\ UNCHANGED <<pc, header, statistics, current, accumulator, folder,
                 dictionary, cooccurrence, loaded, docword>>

Pairs(tokens) == {pair \in tokens \X tokens : pair[1] < pair[2]}

FlushNewItem ==
  [pair \in DOMAIN token_coocurrence \cup Pairs(item_tokens) |->
     (IF pair \in DOMAIN token_coocurrence THEN token_coocurrence[pair] ELSE 0)
       + (IF pair \in Pairs(item_tokens) THEN 1 ELSE 0)]

Collects == "cooccurrence" \in DictionaryFiles

AppendTokenId(token_id) ==
  IF Collects /\ Vocab[token_id] \in CooccurrenceTokens THEN {token_id} ELSE {}

\* Mutant of IsFull: one item too many.
IsOverfull == Len(batch.item) > NumItemsPerBatch

IsFull == Len(batch.item) >= NumItemsPerBatch

\* Mutant of NextIds: a new batch begins with the dictionary of the last one.
SameIds(new_item) == batch_dictionary

NextIds(new_item) == IF new_item /\ IsFull THEN NoIds ELSE batch_dictionary

\* The batch that the line's item belongs to, with that item.
NextBatch(new_item, item_id) ==
  LET begun == IF new_item /\ IsFull THEN EmptyBatch ELSE batch
  IN IF new_item
     THEN [token |-> begun.token, class_id |-> begun.class_id,
           item |-> Append(begun.item, [id |-> item_id, field |-> <<>>])]
     ELSE begun

\* Mutant of Numbered: counts from zero.
NumberedFromZero(ids, token_id) ==
  IF token_id \in DOMAIN ids THEN ids
  ELSE WithId(ids, token_id, Cardinality(DOMAIN ids))

Numbered(ids, token_id) ==
  IF token_id \in DOMAIN ids THEN ids
  ELSE WithId(ids, token_id, Cardinality(DOMAIN ids) + 1)

WithToken(begun, ids, token_id) ==
  IF token_id \in DOMAIN ids THEN begun
  ELSE [token |-> Append(begun.token, Vocab[token_id]), class_id |-> begun.class_id,
        item |-> begun.item]

WithOccurrence(begun, id, token_count) ==
  LET last == Len(begun.item)
      occurrence == [token_id |-> id, token_count |-> token_count]
  IN [token |-> begun.token, class_id |-> begun.class_id,
      item |-> [begun.item EXCEPT ![last] =
                  [id |-> @.id, field |-> Append(@.field, occurrence)]]]

ParsedLine(item_id, token_id, token_count) ==
  LET new_item == item_id # prev_item_id
      ids == NextIds(new_item)
  IN
  /\ pc = "lines"
  /\ token_id \in Token
  /\ token_count # 0
  /\ MoreLines
  /\ target_folder' =
       IF new_item /\ IsFull THEN Append(target_folder, batch) ELSE target_folder
  /\ batch_dictionary' = Numbered(ids, token_id)
  /\ batch' = WithOccurrence(WithToken(NextBatch(new_item, item_id), ids, token_id),
                             batch_dictionary'[token_id], token_count)
  /\ prev_item_id' = item_id
  /\ total_items_count' = total_items_count + (IF new_item THEN 1 ELSE 0)
  /\ total_token_count' = total_token_count + token_count
  /\ token_info' = [token_info EXCEPT ![token_id] =
                      [token_count |-> @.token_count + token_count,
                       items_count |-> @.items_count + 1]]
  /\ token_coocurrence' = IF new_item THEN FlushNewItem ELSE token_coocurrence
  /\ item_tokens' = (IF new_item THEN {} ELSE item_tokens) \cup AppendTokenId(token_id)
  /\ docword' = Append(docword, [item_id |-> item_id, token_id |-> token_id,
                                 token_count |-> token_count])
  /\ UNCHANGED <<pc, header, token_count_zero, files, dictionary, cooccurrence, loaded>>

-----------------------------------------------------------------------------
\* The entries of the two dictionaries, the second's key in the order of the
\* keywords.
Dictionary ==
  [total_items_count |-> total_items_count, total_token_count |-> total_token_count,
   entry |-> [token \in Token |-> [key_token |-> Vocab[token], class_id |-> DefaultClass,
                                   token_count |-> token_info[token].token_count,
                                   items_count |-> token_info[token].items_count]]]

Key(first, second) == IF first < second THEN <<first, second>> ELSE <<second, first>>

Export(coocurrence) ==
  {[key_token |-> Key(Vocab[pair[1]], Vocab[pair[2]]), items_count |-> coocurrence[pair]] :
     pair \in DOMAIN coocurrence}

\* Mutant of LastItem: the last item is not flushed.
NoLastItem == token_coocurrence

LastItem == IF batch.item # <<>> THEN FlushNewItem ELSE token_coocurrence

\* A dictionary that exists is not overwritten: Parse throws, and the batches
\* stay.  The second dictionary is saved after the first.
EndOfFile ==
  /\ pc = "lines"
  /\ target_folder' = IF batch.item # <<>> THEN Append(target_folder, batch) ELSE target_folder
  /\ token_coocurrence' = LastItem
  /\ item_tokens' = IF batch.item # <<>> THEN {} ELSE item_tokens
  /\ \/ /\ DictionaryFiles \cap files = {}
        /\ pc' = "done"
        /\ dictionary' = Dictionary
        /\ cooccurrence' = IF Collects THEN Export(LastItem) ELSE Nil
     \/ /\ DictionaryFiles \cap files # {}
        /\ pc' = "failed"
        /\ UNCHANGED <<dictionary, cooccurrence>>
  /\ files' = IF "dictionary" \in DictionaryFiles \cap files THEN files
              ELSE files \cup DictionaryFiles
  /\ UNCHANGED <<header, statistics, current, token_count_zero, loaded, docword>>

\* LocalDataLoader::AddBatch of a batch, which LoadBatch has read if it is in
\* the folder; CompactBatch throws for a token id out of range.
AddBatch(new, compact) ==
  /\ Len(added) < MaxBatches
  /\ compact => HasValidIds(new)
  /\ generation' = Append(generation, PopulateClassId(IF compact THEN CompactBatch(new) ELSE new))
  /\ added' = Append(added, new)
  /\ UNCHANGED <<pc, header, statistics, current, token_count_zero, accumulator,
                 folder, dictionary, cooccurrence, docword>>

LoadBatch(i) == PopulateClassId(target_folder[i])

Parse ==
  \/ ReadVocab
  \/ \E token_id \in LineTokenId : InvalidLine(token_id)
  \/ \E token_id \in LineTokenId, token_count \in LineTokenCount : ZeroLine(token_id, token_count)
  \/ \E item_id \in ItemId, token_id \in LineTokenId, token_count \in LineTokenCount :
       ParsedLine(item_id, token_id, token_count)
  \/ EndOfFile

Next ==
  \/ Parse
  \/ /\ pc \in {"done", "failed"}
     /\ \E compact \in CompactBatches :
          \/ \E i \in DOMAIN target_folder : AddBatch(LoadBatch(i), compact)
          \/ \E new \in UserBatches : AddBatch(new, compact)

Spec == Init /\ [][Next]_vars

-----------------------------------------------------------------------------
\* What the parser holds: token ids of the batch, and counters for each token.
TypeOK ==
  /\ pc \in {"open", "lines", "done", "failed"}
  /\ header \in Header
  /\ pc = "lines" => token_info \in [Token -> [token_count : Nat, items_count : Nat]]
  /\ total_token_count \in Nat /\ total_items_count \in Nat /\ token_count_zero \in Nat
  /\ batch \in Batch /\ prev_item_id \in ItemId \cup {-1}
  /\ DOMAIN batch_dictionary \subseteq Token
  /\ \A token \in DOMAIN batch_dictionary :
       /\ batch_dictionary[token] \in DOMAIN batch.token
       /\ batch.token[batch_dictionary[token]] = Vocab[token]
  /\ item_tokens \subseteq Token
  /\ DOMAIN token_coocurrence \subseteq Token \X Token
  /\ target_folder \in Seq(Batch) /\ files \subseteq Files
  /\ docword \in Seq([item_id : ItemId, token_id : Token, token_count : Nat])

\* The documents of all batches, the one being filled included.
AllDocuments ==
  FlattenSeq([i \in DOMAIN target_folder |-> Documents(target_folder[i])])
    \o (IF pc = "lines" THEN Documents(batch) ELSE <<>>)

\* Batches hold what the file says: the words of the documents, one after the
\* other, are the lines, with their keyword and count, none of them twice or
\* with another batch's dictionary; no document is split between two items or
\* two batches.
DocumentsKept ==
  pc \in {"lines", "done"} =>
    /\ HasValidIds(batch) /\ \A i \in DOMAIN target_folder : HasValidIds(target_folder[i])
    /\ FlattenSeq([d \in DOMAIN AllDocuments |->
                     [k \in DOMAIN AllDocuments[d].words |->
                        <<AllDocuments[d].id, AllDocuments[d].words[k].keyword,
                          AllDocuments[d].words[k].token_count>>]])
       = [i \in DOMAIN docword |-> <<docword[i].item_id, Vocab[docword[i].token_id],
                                     docword[i].token_count>>]
    /\ \A d \in 2..Len(AllDocuments) : AllDocuments[d].id # AllDocuments[d - 1].id

\* messages.txt "the desired number of items per batch": every batch but the
\* last is filled, and none is larger or empty.
BatchesFilled ==
  /\ \A i \in DOMAIN target_folder :
       IF i < Len(target_folder) \/ pc = "lines"
       THEN Len(target_folder[i].item) = NumItemsPerBatch
       ELSE Len(target_folder[i].item) \in 1..NumItemsPerBatch
  /\ Len(batch.item) <= NumItemsPerBatch

\* What a batch says is the same before and after it is added to the loader.
ContentKept ==
  \A i \in DOMAIN generation :
    HasValidIds(added[i]) =>
      HasValidIds(generation[i]) /\ Documents(generation[i]) = Documents(added[i])

-----------------------------------------------------------------------------
\* The statistics, counted anew from the lines.
Starts == {i \in DOMAIN docword : i = 1 \/ docword[i].item_id # docword[i - 1].item_id}
DocumentOf(i) == Cardinality({j \in Starts : j <= i})
DocumentsWith(token) == {DocumentOf(i) : i \in {j \in DOMAIN docword : docword[j].token_id = token}}

\* The file lists a token once for each document.
ListedOnce ==
  \A i, j \in DOMAIN docword :
    i # j /\ docword[i].token_id = docword[j].token_id => DocumentOf(i) # DocumentOf(j)

CountsOf(token) ==
  [i \in DOMAIN docword |-> IF docword[i].token_id = token THEN docword[i].token_count ELSE 0]
SumOf(counts) == FoldLeft(LAMBDA x, y : x + y, 0, counts)

\* messages.txt:1422 "the overall number of occurrences of the token in the
\* collection" and :1424 "the number of documents in the collection, containing
\* the token".
DictionaryExact ==
  dictionary # Nil =>
    /\ dictionary.total_items_count = Cardinality(Starts)
    /\ dictionary.total_token_count = SumOf([i \in DOMAIN docword |-> docword[i].token_count])
    /\ \A token \in Token :
         /\ dictionary.entry[token].token_count = SumOf(CountsOf(token))
         /\ ListedOnce =>
              dictionary.entry[token].items_count = Cardinality(DocumentsWith(token))

\* messages.txt:1452 "the number of documents in the collection, containing
\* both tokens", however often a document lists them.
CooccurrenceExact ==
  cooccurrence # Nil =>
    cooccurrence =
      {[key_token |-> Key(Vocab[pair[1]], Vocab[pair[2]]),
        items_count |-> Cardinality(DocumentsWith(pair[1]) \cap DocumentsWith(pair[2]))] :
         pair \in {p \in Pairs({token \in Token : Vocab[token] \in CooccurrenceTokens}) :
                     DocumentsWith(p[1]) \cap DocumentsWith(p[2]) # {}}}
=============================================================================
