------------------------ MODULE CollectionParserProofs ------------------------
(* The parser's state is well typed, its batches are filled and say what the  *)
(* file says, its dictionaries are exact, and a batch says the same when it    *)
(* is loaded: for every vocabulary, every file and every size of batches.     *)
EXTENDS CollectionParser, FiniteSetTheorems, WellFoundedInduction, TLAPS

\* The dictionary of the batch numbers its tokens without gaps, and an item is
\* open when a line may continue one.
DictionaryOK(ids, tokens) ==
  /\ DOMAIN ids \subseteq Token
  /\ IsFiniteSet(DOMAIN ids)
  /\ Cardinality(DOMAIN ids) = Len(tokens)
  /\ \A token \in DOMAIN ids :
       ids[token] \in 1..Len(tokens) /\ tokens[ids[token]] = Vocab[token]

ParserInv ==
  /\ TypeOK
  /\ DictionaryOK(batch_dictionary, batch.token)
  /\ prev_item_id # -1 => batch.item # <<>>
  /\ pc = "open" => target_folder = <<>>
  /\ BatchesFilled

parserVars == <<pc, header, statistics, current, token_count_zero, accumulator,
                folder, docword>>

\* A new token gets the next number.
LEMMA NumberedOK ==
  ASSUME NEW ids, NEW tokens \in Seq(Keyword), DictionaryOK(ids, tokens),
         NEW token \in Token
  PROVE  LET numbered == Numbered(ids, token)
             extended == IF token \in DOMAIN ids THEN tokens ELSE Append(tokens, Vocab[token])
         IN /\ DictionaryOK(numbered, extended)
            /\ extended \in Seq(Keyword)
            /\ token \in DOMAIN numbered
<1>0. Vocab[token] \in Keyword
  BY ParserAssumption DEF Token
<1>1. CASE token \in DOMAIN ids
  BY <1>1 DEF Numbered
<1>2. CASE token \notin DOMAIN ids
  <2> DEFINE new == Cardinality(DOMAIN ids) + 1
             numbered == WithId(ids, token, new)
             extended == Append(tokens, Vocab[token])
  <2>1. DOMAIN numbered = DOMAIN ids \cup {token}
    BY DEF WithId
  <2>2. IsFiniteSet(DOMAIN numbered) /\ Cardinality(DOMAIN numbered) = Cardinality(DOMAIN ids) + 1
    BY <1>2, <2>1, FS_AddElement DEF DictionaryOK
  <2>3. extended \in Seq(Keyword) /\ Len(extended) = Len(tokens) + 1
    BY <1>0
  <2>4. new = Len(extended)
    BY <2>3 DEF DictionaryOK
  <2>5. ASSUME NEW other \in DOMAIN numbered
        PROVE  numbered[other] \in 1..Len(extended) /\ extended[numbered[other]] = Vocab[other]
    <3>1. CASE other = token
      <4>1. numbered[other] = Len(extended)
        BY <3>1, <2>4 DEF WithId
      <4> QED
        BY <3>1, <4>1, <2>3
    <3>2. CASE other # token
      <4>1. numbered[other] = ids[other] /\ other \in DOMAIN ids
        BY <3>2, <2>1 DEF WithId
      <4>2. ids[other] \in 1..Len(tokens) /\ tokens[ids[other]] = Vocab[other]
        BY <4>1 DEF DictionaryOK
      <4> QED
        BY <4>1, <4>2, <2>3
    <3> QED
      BY <3>1, <3>2
  <2>6. DictionaryOK(numbered, extended)
    <3>1. DOMAIN numbered \subseteq Token
      BY <2>1 DEF DictionaryOK
    <3>2. Cardinality(DOMAIN numbered) = Len(extended)
      BY <2>2, <2>4
    <3> QED
      BY <3>1, <3>2, <2>2, <2>5 DEF DictionaryOK
  <2> QED
    BY <1>2, <2>1, <2>3, <2>6 DEF Numbered
<1> QED
  BY <1>1, <1>2

\* An occurrence is added to the last item and leaves the rest.
LEMMA OccurrenceOK ==
  ASSUME NEW begun \in Batch, begun.item # <<>>, NEW id \in Int, NEW count \in Int
  PROVE  LET extended == WithOccurrence(begun, id, count)
         IN /\ extended \in Batch
            /\ extended.token = begun.token
            /\ Len(extended.item) = Len(begun.item)
            /\ extended.item # <<>>
<1> DEFINE last == Len(begun.item)
           occurrence == [token_id |-> id, token_count |-> count]
           item == [id |-> begun.item[last].id, field |-> Append(begun.item[last].field, occurrence)]
           items == [begun.item EXCEPT ![last] = item]
<1>1. begun.token \in Seq(Keyword) /\ begun.class_id \in Seq(ClassId) /\ begun.item \in Seq(Item)
  BY DEF Batch
<1>2. last \in 1..Len(begun.item)
  BY <1>1
<1>3. begun.item[last] \in Item
  BY <1>1, <1>2
<1>4. item \in Item
  <2>1. occurrence \in Occurrence
    BY DEF Occurrence
  <2>2. begun.item[last].id \in Int /\ begun.item[last].field \in Seq(Occurrence)
    BY <1>3 DEF Item
  <2>3. Append(begun.item[last].field, occurrence) \in Seq(Occurrence)
    BY <2>1, <2>2
  <2> QED
    BY <2>2, <2>3 DEF Item
<1>5. items \in Seq(Item) /\ Len(items) = Len(begun.item)
  BY <1>1, <1>2, <1>4
<1>6. items # <<>>
  BY <1>2, <1>5
<1>7. WithOccurrence(begun, id, count)
        = [token |-> begun.token, class_id |-> begun.class_id, item |-> items]
  BY DEF WithOccurrence
<1>8. [token |-> begun.token, class_id |-> begun.class_id, item |-> items] \in Batch
  BY <1>1, <1>5 DEF Batch
<1> QED
  BY <1>5, <1>6, <1>7, <1>8

\* The batch that a line goes to has an open item and room for it.
LEMMA NextBatchOK ==
  ASSUME ParserInv, pc = "lines", NEW item_id \in ItemId
  PROVE  LET new_item == item_id # prev_item_id
             next == NextBatch(new_item, item_id)
         IN /\ next \in Batch
            /\ next.item # <<>>
            /\ Len(next.item) <= NumItemsPerBatch
            /\ DictionaryOK(NextIds(new_item), next.token)
<1> DEFINE new_item == item_id # prev_item_id
           next == NextBatch(new_item, item_id)
           begun == IF new_item /\ IsFull THEN EmptyBatch ELSE batch
           item == [id |-> item_id, field |-> <<>>]
<1>1. batch \in Batch /\ Len(batch.item) <= NumItemsPerBatch
  BY DEF ParserInv, TypeOK, BatchesFilled
<1>2. EmptyBatch \in Batch /\ EmptyBatch.item = <<>> /\ EmptyBatch.token = <<>>
  BY DEF EmptyBatch, Batch
<1>3. begun \in Batch /\ begun.item \in Seq(Item)
  BY <1>1, <1>2 DEF Batch
<1>4. item_id \in Int /\ item_id # -1
  BY ParserAssumption
<1>5. item \in Item
  BY <1>4 DEF Item
<1>6. CASE new_item
  <2>1. next = [token |-> begun.token, class_id |-> begun.class_id,
                item |-> Append(begun.item, item)]
    BY <1>6 DEF NextBatch
  <2>2. Append(begun.item, item) \in Seq(Item) /\ Len(Append(begun.item, item)) = Len(begun.item) + 1
    BY <1>3, <1>5
  <2>3. next \in Batch
    <3> HIDE DEF begun, item, next
    <3>1. begun.token \in Seq(Keyword) /\ begun.class_id \in Seq(ClassId)
      BY <1>3 DEF Batch
    <3> QED
      BY <2>1, <2>2, <3>1 DEF Batch
  <2>4. Len(begun.item) + 1 <= NumItemsPerBatch
    BY <1>1, <1>2, <1>3, <1>6, ParserAssumption DEF IsFull, Batch
  <2>5. DictionaryOK(NextIds(new_item), begun.token)
    <3>1. CASE IsFull
      <4>1. NextIds(new_item) = NoIds /\ begun.token = <<>>
        BY <3>1, <1>2, <1>6 DEF NextIds
      <4>2. DOMAIN NoIds = {}
        BY DEF NoIds
      <4> QED
        BY <4>1, <4>2, FS_EmptySet DEF DictionaryOK
    <3>2. CASE ~IsFull
      BY <3>2 DEF NextIds, ParserInv
    <3> QED
      BY <3>1, <3>2
  <2>6. next.item # <<>>
    BY <2>1, <2>2, <1>3
  <2> QED
    BY <2>1, <2>2, <2>3, <2>4, <2>5, <2>6
<1>7. CASE ~new_item
  <2>1. next = batch /\ NextIds(new_item) = batch_dictionary
    BY <1>7 DEF NextBatch, NextIds
  <2>2. prev_item_id # -1
    BY <1>7, <1>4
  <2> QED
    BY <2>1, <2>2, <1>1 DEF ParserInv
<1> QED
  BY <1>6, <1>7

LEMMA FlushOK ==
  ASSUME DOMAIN token_coocurrence \subseteq Token \X Token, item_tokens \subseteq Token
  PROVE  DOMAIN FlushNewItem \subseteq Token \X Token
  BY DEF FlushNewItem, Pairs

LEMMA InitOK == Init => ParserInv
<1> SUFFICES ASSUME Init PROVE ParserInv
  OBVIOUS
<1>1. EmptyBatch \in Batch /\ EmptyBatch.item = <<>> /\ EmptyBatch.token = <<>>
  BY DEF EmptyBatch, Batch
<1>2. DOMAIN NoIds = {}
  BY DEF NoIds
<1>3. TypeOK
  BY <1>1, <1>2, ParserAssumption DEF Init, TypeOK
<1>4. DictionaryOK(batch_dictionary, batch.token)
  BY <1>1, <1>2, FS_EmptySet DEF Init, DictionaryOK
<1>5. BatchesFilled
  BY <1>1, ParserAssumption DEF Init, BatchesFilled
<1> QED
  BY <1>3, <1>4, <1>5 DEF Init, ParserInv

LEMMA LineOK ==
  ASSUME ParserInv, NEW item_id \in ItemId, NEW token_id \in LineTokenId,
         NEW token_count \in LineTokenCount, ParsedLine(item_id, token_id, token_count)
  PROVE  ParserInv'
<1> DEFINE new_item == item_id # prev_item_id
           ids == NextIds(new_item)
           next == NextBatch(new_item, item_id)
           begun == WithToken(next, ids, token_id)
           id == Numbered(ids, token_id)[token_id]
           tokens == IF token_id \in DOMAIN ids THEN next.token
                     ELSE Append(next.token, Vocab[token_id])
<1>1. pc = "lines" /\ token_id \in Token
  BY DEF ParsedLine
<1>2. /\ next \in Batch /\ next.item # <<>>
      /\ Len(next.item) <= NumItemsPerBatch
      /\ DictionaryOK(ids, next.token)
  BY <1>1, NextBatchOK
<1>3. next.token \in Seq(Keyword)
  BY <1>2 DEF Batch
<1>4. /\ DictionaryOK(Numbered(ids, token_id), tokens)
      /\ tokens \in Seq(Keyword)
      /\ token_id \in DOMAIN Numbered(ids, token_id)
  BY <1>1, <1>2, <1>3, NumberedOK
<1>5. begun \in Batch /\ begun.token = tokens /\ begun.item = next.item
  BY <1>2, <1>4 DEF WithToken, Batch
<1>6. id \in Int /\ token_count \in Int
  BY <1>4, ParserAssumption DEF DictionaryOK
<1>7. batch_dictionary' = Numbered(ids, token_id)
  BY DEF ParsedLine
<1>8. batch' = WithOccurrence(begun, id, token_count)
  BY <1>7 DEF ParsedLine
<1>9. /\ batch' \in Batch
      /\ batch'.token = tokens
      /\ Len(batch'.item) <= NumItemsPerBatch
      /\ batch'.item # <<>>
  BY <1>2, <1>5, <1>6, <1>8, OccurrenceOK
<1>10. DictionaryOK(batch_dictionary, batch.token)'
  BY <1>4, <1>7, <1>9 DEF DictionaryOK
<1>11. TypeOK'
  <2>1. pc' = pc /\ header' \in Header
    BY DEF ParsedLine, ParserInv, TypeOK
  <2>2. token_count \in Nat
    BY ParserAssumption
  <2>3. token_info' \in [Token -> [token_count : Nat, items_count : Nat]]
    <3> DEFINE info == [token_count |-> token_info[token_id].token_count + token_count,
                        items_count |-> token_info[token_id].items_count + 1]
    <3>1. token_info \in [Token -> [token_count : Nat, items_count : Nat]]
      BY <1>1 DEF ParserInv, TypeOK
    <3>2. info \in [token_count : Nat, items_count : Nat]
      BY <3>1, <1>1, <2>2
    <3>3. token_info' = [token_info EXCEPT ![token_id] = info]
      BY DEF ParsedLine
    <3> QED
      BY <3>1, <3>2, <3>3, <1>1
  <2>4. total_token_count' \in Nat /\ total_items_count' \in Nat /\ token_count_zero' \in Nat
    BY <2>2 DEF ParsedLine, ParserInv, TypeOK
  <2>5. prev_item_id' \in ItemId \cup {-1}
    BY DEF ParsedLine
  <2>6. /\ DOMAIN batch_dictionary' \subseteq Token
        /\ \A token \in DOMAIN batch_dictionary' :
             /\ batch_dictionary'[token] \in DOMAIN batch'.token
             /\ batch'.token[batch_dictionary'[token]] = Vocab[token]
    BY <1>4, <1>7, <1>9 DEF DictionaryOK
  <2>7. item_tokens' \subseteq Token
    BY <1>1 DEF ParsedLine, AppendTokenId, ParserInv, TypeOK
  <2>8. DOMAIN token_coocurrence' \subseteq Token \X Token
    BY FlushOK DEF ParsedLine, ParserInv, TypeOK
  <2>9. target_folder' \in Seq(Batch) /\ files' \subseteq Files
    BY DEF ParsedLine, ParserInv, TypeOK
  <2>10. docword' \in Seq([item_id : ItemId, token_id : Token, token_count : Nat])
    <3> DEFINE line == [item_id |-> item_id, token_id |-> token_id, token_count |-> token_count]
    <3>1. line \in [item_id : ItemId, token_id : Token, token_count : Nat]
      BY <1>1, <2>2
    <3>2. docword' = Append(docword, line)
      BY DEF ParsedLine
    <3> QED
      BY <3>1, <3>2 DEF ParserInv, TypeOK
  <2> QED
    BY <1>1, <1>9, <2>1, <2>3, <2>4, <2>5, <2>6, <2>7, <2>8, <2>9, <2>10 DEF TypeOK
<1>12. BatchesFilled'
  <2>1. target_folder \in Seq(Batch) /\ pc' = "lines"
    BY <1>1 DEF ParsedLine, ParserInv, TypeOK
  <2>2. \A i \in DOMAIN target_folder : Len(target_folder[i].item) = NumItemsPerBatch
    BY <1>1 DEF ParserInv, BatchesFilled
  <2>3. Len(batch.item) <= NumItemsPerBatch /\ Len(batch.item) \in Nat
    BY DEF ParserInv, BatchesFilled, TypeOK, Batch
  <2>4. \A i \in DOMAIN target_folder' : Len(target_folder'[i].item) = NumItemsPerBatch
    <3>1. CASE new_item /\ IsFull
      <4>1. target_folder' = Append(target_folder, batch)
        BY <3>1 DEF ParsedLine
      <4>2. Len(batch.item) = NumItemsPerBatch
        BY <3>1, <2>3, ParserAssumption DEF IsFull
      <4>3. batch \in Batch
        BY DEF ParserInv, TypeOK
      <4> QED
        BY <4>1, <4>2, <4>3, <2>1, <2>2
    <3>2. CASE ~(new_item /\ IsFull)
      BY <3>2, <2>2 DEF ParsedLine
    <3> QED
      BY <3>1, <3>2
  <2> QED
    BY <2>1, <2>4, <1>9 DEF BatchesFilled
<1>13. (prev_item_id # -1 => batch.item # <<>>)' /\ (pc = "open" => target_folder = <<>>)'
  BY <1>1, <1>9 DEF ParsedLine
<1> QED
  BY <1>10, <1>11, <1>12, <1>13 DEF ParserInv

LEMMA EndOK ==
  ASSUME ParserInv, EndOfFile
  PROVE  ParserInv'
<1>1. pc = "lines" /\ pc' \in {"done", "failed"}
  BY DEF EndOfFile
<1>2. batch \in Batch /\ target_folder \in Seq(Batch)
  BY DEF ParserInv, TypeOK
<1>3. batch' = batch /\ batch_dictionary' = batch_dictionary /\ prev_item_id' = prev_item_id
  BY DEF EndOfFile, current
<1>4. target_folder' \in Seq(Batch)
  BY <1>2 DEF EndOfFile
<1>5. TypeOK'
  <2>1. item_tokens' \subseteq Token /\ DOMAIN token_coocurrence' \subseteq Token \X Token
    BY FlushOK DEF EndOfFile, LastItem, ParserInv, TypeOK
  <2>2. files' \subseteq Files
    BY ParserAssumption DEF EndOfFile, ParserInv, TypeOK
  <2>3. /\ header' = header /\ total_token_count' = total_token_count
        /\ total_items_count' = total_items_count /\ token_count_zero' = token_count_zero
        /\ docword' = docword
    BY DEF EndOfFile, statistics
  <2> QED
    BY <1>1, <1>3, <1>4, <2>1, <2>2, <2>3 DEF TypeOK, ParserInv
<1>6. BatchesFilled'
  <2>1. \A i \in DOMAIN target_folder : Len(target_folder[i].item) = NumItemsPerBatch
    BY <1>1 DEF ParserInv, BatchesFilled
  <2>2. Len(batch.item) <= NumItemsPerBatch /\ batch.item \in Seq(Item)
    BY <1>2 DEF ParserInv, BatchesFilled, Batch
  <2>3. CASE batch.item # <<>>
    <3>1. Len(batch.item) \in 1..NumItemsPerBatch
      BY <2>2, <2>3, ParserAssumption
    <3>2. target_folder' = Append(target_folder, batch)
      BY <2>3 DEF EndOfFile
    <3> QED
      BY <1>1, <1>2, <1>3, <2>1, <2>2, <3>1, <3>2, ParserAssumption DEF BatchesFilled
  <2>4. CASE batch.item = <<>>
    <3>1. target_folder' = target_folder
      BY <2>4 DEF EndOfFile
    <3> QED
      BY <1>1, <1>2, <1>3, <2>1, <2>2, <3>1, ParserAssumption DEF BatchesFilled
  <2> QED
    BY <2>3, <2>4
<1> QED
  BY <1>1, <1>3, <1>5, <1>6 DEF ParserInv, DictionaryOK

\* A step that leaves the parser alone.
LEMMA Frame ==
  ASSUME ParserInv, UNCHANGED parserVars
  PROVE  ParserInv'
<1> USE DEF parserVars, statistics, current, accumulator, folder
<1>1. TypeOK'
  BY DEF ParserInv, TypeOK
<1>2. BatchesFilled'
  BY DEF ParserInv, BatchesFilled
<1> QED
  BY <1>1, <1>2 DEF ParserInv, DictionaryOK

LEMMA StepOK == ParserInv /\ [Next]_vars => ParserInv'
<1> SUFFICES ASSUME ParserInv, [Next]_vars PROVE ParserInv'
  OBVIOUS
<1>1. ASSUME ReadVocab PROVE ParserInv'
  <2> USE <1>1 DEF ReadVocab, current, accumulator, folder, loaded
  <2>1. TypeOK'
    BY DEF ParserInv, TypeOK
  <2>2. target_folder = <<>>
    BY DEF ParserInv
  <2>3. BatchesFilled'
    BY <2>2 DEF ParserInv, BatchesFilled
  <2> QED
    BY <2>1, <2>3 DEF ParserInv, DictionaryOK
<1>2. ASSUME NEW token_id \in LineTokenId, InvalidLine(token_id) PROVE ParserInv'
  <2> USE <1>2 DEF InvalidLine, statistics, current, accumulator, folder, loaded
  <2>1. TypeOK'
    BY DEF ParserInv, TypeOK
  <2>2. BatchesFilled'
    <3>1. \A i \in DOMAIN target_folder : Len(target_folder[i].item) = NumItemsPerBatch
      BY DEF ParserInv, BatchesFilled
    <3> QED
      BY <3>1, ParserAssumption DEF ParserInv, BatchesFilled
  <2> QED
    BY <2>1, <2>2 DEF ParserInv, DictionaryOK
<1>3. ASSUME NEW token_id \in LineTokenId, NEW token_count \in LineTokenCount,
             ZeroLine(token_id, token_count)
      PROVE  ParserInv'
  <2>1. /\ UNCHANGED <<pc, header, statistics, current, accumulator, folder, docword>>
        /\ token_count_zero' = token_count_zero + 1
    BY <1>3 DEF ZeroLine
  <2> USE <2>1 DEF statistics, current, accumulator, folder
  <2>2. token_count_zero' \in Nat
    BY DEF ParserInv, TypeOK
  <2>3. BatchesFilled'
    BY DEF ParserInv, BatchesFilled
  <2>4. TypeOK'
    BY <2>2 DEF ParserInv, TypeOK
  <2> QED
    BY <2>3, <2>4 DEF ParserInv, DictionaryOK
<1>4. ASSUME NEW item_id \in ItemId, NEW token_id \in LineTokenId,
             NEW token_count \in LineTokenCount, ParsedLine(item_id, token_id, token_count)
      PROVE  ParserInv'
  BY <1>4, LineOK
<1>5. ASSUME EndOfFile PROVE ParserInv'
  BY <1>5, EndOK
<1>6. ASSUME NEW new, NEW compact, AddBatch(new, compact) PROVE ParserInv'
  BY <1>6, Frame DEF AddBatch, parserVars
<1>7. ASSUME UNCHANGED vars PROVE ParserInv'
  BY <1>7, Frame DEF vars, parserVars
<1> QED
  BY <1>1, <1>2, <1>3, <1>4, <1>5, <1>6, <1>7 DEF Next, Parse

\* collection_parser.cc: the parser's state is well typed; the dictionary of
\* the batch always leads to the keyword of the token.
THEOREM ParserTypeCorrect == Spec => []TypeOK
<1>1. Spec => []ParserInv
  BY InitOK, StepOK, PTL DEF Spec
<1>2. ParserInv => TypeOK
  BY DEF ParserInv
<1> QED
  BY <1>1, <1>2, PTL

\* collection_parser.cc:218: whatever the file, every batch but the last has
\* num_items_per_batch items, and none is empty or larger.
THEOREM BatchesAreFilled == Spec => []BatchesFilled
<1>1. Spec => []ParserInv
  BY InitOK, StepOK, PTL DEF Spec
<1>2. ParserInv => BatchesFilled
  BY DEF ParserInv
<1> QED
  BY <1>1, <1>2, PTL

-----------------------------------------------------------------------------
(* Sums of sequences.                                                      *)
\* What holds for 0 and is kept from i - 1 to i holds up to n.
LEMMA Induction ==
  ASSUME NEW n \in Nat, NEW P, 0 \in P,
         \A i \in 1..n : i - 1 \in P => i \in P
  PROVE  \A i \in 0..n : i \in P
<1> DEFINE S == (0..n) \ P
           R == {ss \in Nat \X Nat : ss[1] < ss[2]}
<1> SUFFICES ASSUME S # {} PROVE FALSE
  OBVIOUS
<1>1. IsWellFoundedOn(R, Nat)
  BY NatLessThanWellFounded, Zenon DEF OpToRel
<1>2. \A x, y \in Nat : x < y => <<x, y>> \in R
  OBVIOUS
<1> HIDE DEF R
<1>3. S \in SUBSET Nat
  OBVIOUS
<1>4. PICK x \in S : \A y \in S : ~ (<<y, x>> \in R)
  BY <1>1, <1>3, WFMin
<1>5. x \in 1..n /\ x - 1 \in 0..n /\ x - 1 \in Nat /\ x \in Nat /\ x - 1 < x
  OBVIOUS
<1>6. x - 1 \notin S
  BY <1>2, <1>4, <1>5
<1>7. QED
  BY <1>5, <1>6

\* The largest of the numbers 1 to n.
LEMMA MaxIs ==
  ASSUME NEW S \in SUBSET Nat, NEW n \in S, \A k \in S : k <= n
  PROVE  Max(S) = n
<1>1. \E k \in S : \A j \in S : k >= j
  OBVIOUS
<1>2. Max(S) \in S /\ \A j \in S : Max(S) >= j
  BY <1>1, Zenon DEF Max
<1>3. n \in Nat /\ Max(S) \in Nat /\ Max(S) >= n /\ Max(S) <= n
  BY <1>2
<1>4. QED
  BY <1>3

\* The function that FoldLeft computes: the sum over the indices in s.
IsSum(f, c, n) ==
  f = [s \in SUBSET (1..n) |-> IF s = {} THEN 0 ELSE f[s \ {Max(s)}] + c[Max(s)]]

TheSum(c, n) == CHOOSE f : IsSum(f, c, n)

LEMMA SumIs ==
  ASSUME NEW c, NEW n, DOMAIN c = 1..n
  PROVE  SumOf(c) = TheSum(c, n)[1..n]
BY Zenon DEF SumOf, FoldLeft, MapThenFoldSet, TheSum, IsSum

LEMMA SumExists ==
  ASSUME NEW n \in Nat, NEW c
  PROVE  IsSum(TheSum(c, n), c, n)
<1> DEFINE P == {k \in 0..n : \E f : IsSum(f, c, k)}
<1>1. 0 \in P
  <2> DEFINE f == [s \in SUBSET (1..0) |-> 0]
  <2>1. 1..0 = {} /\ SUBSET (1..0) = {{}}
    OBVIOUS
  <2>2. f = [s \in SUBSET (1..0) |-> IF s = {} THEN 0 ELSE f[s \ {Max(s)}] + c[Max(s)]]
    BY <2>1
  <2>3. IsSum(f, c, 0)
    BY <2>2 DEF IsSum
  <2>4. QED
    BY <2>3
<1>2. ASSUME NEW k \in 1..n, k - 1 \in P PROVE k \in P
  <2>1. PICK f : IsSum(f, c, k - 1)
    BY <1>2
  <2> DEFINE g == [s \in SUBSET (1..k) |-> IF k \in s THEN f[s \ {k}] + c[k] ELSE f[s]]
  <2>2. /\ 1..k = (1..(k - 1)) \cup {k} /\ k \notin 1..(k - 1) /\ 1..k \in SUBSET Nat
        /\ \A j \in 1..k : j <= k
    OBVIOUS
  <2>3. ASSUME NEW s \in SUBSET (1..k)
        PROVE  g[s] = IF s = {} THEN 0 ELSE g[s \ {Max(s)}] + c[Max(s)]
    <3>1. CASE k \in s
      <4>1. Max(s) = k
        BY <2>2, <3>1, MaxIs
      <4>2. g[s] = f[s \ {k}] + c[k] /\ g[s \ {k}] = f[s \ {k}]
        BY <3>1
      <4>3. QED
        BY <3>1, <4>1, <4>2
    <3>2. CASE k \notin s
      <4>1. s \in SUBSET (1..(k - 1))
        BY <2>2, <3>2
      <4>2. f[s] = IF s = {} THEN 0 ELSE f[s \ {Max(s)}] + c[Max(s)]
        BY <2>1, <4>1 DEF IsSum
      <4>3. g[s] = f[s] /\ g[s \ {Max(s)}] = f[s \ {Max(s)}]
        BY <3>2
      <4>4. QED
        BY <4>2, <4>3
    <3>3. QED
      BY <3>1, <3>2
  <2>4. g = [s \in SUBSET (1..k) |-> g[s]]
    OBVIOUS
  <2> HIDE DEF g
  <2>5. IsSum(g, c, k)
    BY <2>3, <2>4 DEF IsSum
  <2>6. QED
    BY <2>5
<1>3. n \in P
  <2>1. \A i \in 0..n : i \in P
    <3> HIDE DEF P
    <3>1. QED
      BY <1>1, <1>2, Induction
  <2>2. QED
    BY <2>1
<1>4. QED
  BY <1>3, Zenon DEF TheSum

\* The sum of the first k elements.
LEMMA SumStep ==
  ASSUME NEW n \in Nat, NEW c, NEW k \in 1..n
  PROVE  /\ TheSum(c, n)[1..0] = 0
         /\ TheSum(c, n)[1..k] = TheSum(c, n)[1..(k - 1)] + c[k]
<1> DEFINE f == TheSum(c, n)
<1>1. IsSum(f, c, n)
  BY SumExists
<1> HIDE DEF f
<1>2. 1..0 = {} /\ 1..k \in SUBSET (1..n) /\ 1..k \in SUBSET Nat /\ k \in 1..k /\ 1..k # {}
      /\ (1..k) \ {k} = 1..(k - 1) /\ \A j \in 1..k : j <= k
  OBVIOUS
<1>3. Max(1..k) = k
  BY <1>2, MaxIs
<1>4. \A s \in SUBSET (1..n) : f[s] = IF s = {} THEN 0 ELSE f[s \ {Max(s)}] + c[Max(s)]
  BY <1>1 DEF IsSum
<1>5. QED
  BY <1>2, <1>3, <1>4 DEF f

\* Sums of sequences that begin in the same way.
LEMMA SumAgrees ==
  ASSUME NEW n \in Nat, NEW m \in Nat, NEW k \in Nat, k <= n, k <= m, NEW c, NEW d,
         \A i \in 1..k : c[i] \in Nat /\ d[i] = c[i]
  PROVE  TheSum(c, n)[1..k] = TheSum(d, m)[1..k] /\ TheSum(c, n)[1..k] \in Nat
<1> DEFINE f == TheSum(c, n)
           g == TheSum(d, m)
           P == {i \in 0..k : f[1..i] = g[1..i] /\ f[1..i] \in Nat}
<1>1. /\ \A i \in 1..n : f[1..i] = f[1..(i - 1)] + c[i]
      /\ \A i \in 1..m : g[1..i] = g[1..(i - 1)] + d[i]
  BY SumStep
<1>2. f[1..0] = 0 /\ g[1..0] = 0
  <2>1. {} \in SUBSET (1..n) /\ {} \in SUBSET (1..m) /\ 1..0 = {}
    OBVIOUS
  <2>2. IsSum(f, c, n) /\ IsSum(g, d, m)
    BY SumExists
  <2> HIDE DEF f, g
  <2>3. QED
    BY <2>1, <2>2 DEF IsSum
<1> HIDE DEF f, g
<1>3. 0 \in P
  BY <1>2
<1>4. ASSUME NEW i \in 1..k, i - 1 \in P PROVE i \in P
  <2>1. i \in 1..n /\ i \in 1..m /\ f[1..(i - 1)] = g[1..(i - 1)] /\ f[1..(i - 1)] \in Nat
    BY <1>4
  <2>2. f[1..i] = f[1..(i - 1)] + c[i] /\ g[1..i] = g[1..(i - 1)] + d[i]
    BY <1>1, <2>1
  <2>3. c[i] \in Nat /\ d[i] = c[i]
    OBVIOUS
  <2>4. QED
    BY <2>1, <2>2, <2>3
<1>5. k \in P
  <2>1. \A i \in 0..k : i \in P
    <3> HIDE DEF P
    <3>1. QED
      BY <1>3, <1>4, Induction
  <2>2. QED
    BY <2>1
<1>6. QED
  BY <1>5 DEF f, g

\* The sum of a sequence with one element more.
LEMMA SumOneMore ==
  ASSUME NEW n \in Nat, NEW c, NEW d, DOMAIN c = 1..n, DOMAIN d = 1..(n + 1),
         \A i \in 1..n : c[i] \in Nat /\ d[i] = c[i], d[n + 1] \in Nat
  PROVE  SumOf(c) \in Nat /\ SumOf(d) = SumOf(c) + d[n + 1]
<1>1. SumOf(c) = TheSum(c, n)[1..n] /\ SumOf(d) = TheSum(d, n + 1)[1..(n + 1)]
  BY SumIs
<1>2. TheSum(c, n)[1..n] = TheSum(d, n + 1)[1..n] /\ TheSum(c, n)[1..n] \in Nat
  BY SumAgrees
<1>3. n + 1 \in 1..(n + 1) /\ n + 1 - 1 = n /\ n + 1 \in Nat
  OBVIOUS
<1>4. TheSum(d, n + 1)[1..(n + 1)] = TheSum(d, n + 1)[1..n] + d[n + 1]
  BY <1>3, SumStep
<1>5. QED
  BY <1>1, <1>2, <1>4

LEMMA SumOfNone == ASSUME NEW c, DOMAIN c = {} PROVE SumOf(c) = 0
<1>1. DOMAIN c = 1..0 /\ 1..0 = {} /\ {} \in SUBSET (1..0)
  OBVIOUS
<1>2. SumOf(c) = TheSum(c, 0)[1..0] /\ IsSum(TheSum(c, 0), c, 0)
  BY <1>1, SumIs, SumExists
<1> DEFINE f == TheSum(c, 0)
<1> HIDE DEF f
<1>3. f[{}] = 0
  BY <1>1, <1>2 DEF IsSum, f
<1>4. QED
  BY <1>1, <1>2, <1>3 DEF f

-----------------------------------------------------------------------------
(* The statistics of the lines read so far.                                *)
Line == [item_id : ItemId, token_id : Token, token_count : Nat]

LinesWith(token) == {j \in DOMAIN docword : docword[j].token_id = token}

\* The document under way.
LastDocument == Cardinality(Starts)

LEMMA DocumentsAre ==
  ASSUME docword \in Seq(Line)
  PROVE  /\ IsFiniteSet(Starts) /\ LastDocument \in Nat
         /\ \A i \in DOMAIN docword : DocumentOf(i) \in 0..LastDocument
         /\ \A token : DocumentsWith(token) \subseteq 0..LastDocument
<1>1. IsFiniteSet(1..Len(docword)) /\ DOMAIN docword = 1..Len(docword) /\ Len(docword) \in Nat
  BY FS_Interval
<1>2. Starts \in SUBSET (1..Len(docword))
  BY <1>1 DEF Starts
<1>3. IsFiniteSet(Starts)
  BY <1>1, <1>2, FS_Subset
<1>4. LastDocument \in Nat
  BY <1>3, FS_CardinalityType DEF LastDocument
<1>5. ASSUME NEW i \in DOMAIN docword
      PROVE  DocumentOf(i) \in 0..LastDocument
  <2> DEFINE T == {j \in Starts : j <= i}
  <2>1. T \in SUBSET Starts
    OBVIOUS
  <2> HIDE DEF T
  <2>2. IsFiniteSet(T) /\ Cardinality(T) <= Cardinality(Starts)
    BY <1>3, <2>1, FS_Subset
  <2>3. Cardinality(T) \in Nat
    BY <2>2, FS_CardinalityType
  <2>4. Cardinality(T) \in 0..LastDocument
    BY <1>4, <2>2, <2>3 DEF LastDocument
  <2>5. QED
    BY <2>4 DEF T, DocumentOf
<1>6. ASSUME NEW token PROVE DocumentsWith(token) \subseteq 0..LastDocument
  BY <1>5 DEF DocumentsWith
<1>7. QED
  BY <1>3, <1>4, <1>5, <1>6

\* A line more: it begins a document, or goes on with the last one.
LEMMA LineStarts ==
  ASSUME docword \in Seq(Line), NEW line \in Line, docword' = Append(docword, line),
         NEW new \in BOOLEAN,
         new <=> (docword = <<>> \/ line.item_id # docword[Len(docword)].item_id)
  PROVE  /\ LastDocument' = LastDocument + (IF new THEN 1 ELSE 0)
         /\ \A i \in DOMAIN docword : DocumentOf(i)' = DocumentOf(i)
         /\ \A token : DocumentsWith(token)' = DocumentsWith(token) \cup
                         (IF token = line.token_id THEN {LastDocument'} ELSE {})
         /\ \A token : LinesWith(token)' = LinesWith(token) \cup
                         (IF token = line.token_id THEN {Len(docword) + 1} ELSE {})
<1>0. PICK n \in Nat : n = Len(docword)
  OBVIOUS
<1>1. /\ n \in Nat /\ DOMAIN docword = 1..n /\ DOMAIN docword' = 1..(n + 1)
      /\ \A i \in 1..n : docword'[i] = docword[i]
      /\ docword'[n + 1] = line
  BY <1>0
<1>2. IsFiniteSet(Starts) /\ Starts \subseteq 1..n
  BY <1>1, DocumentsAre DEF Starts
<1>3. docword = <<>> <=> n = 0
  BY <1>0
<1>4. Starts' = Starts \cup (IF new THEN {n + 1} ELSE {})
  <2>1. Starts' = {i \in 1..(n + 1) : i = 1 \/ docword'[i].item_id # docword'[i - 1].item_id}
    BY <1>1 DEF Starts
  <2>2. Starts = {i \in 1..n : i = 1 \/ docword[i].item_id # docword[i - 1].item_id}
    BY <1>1 DEF Starts
  <2>3. ASSUME NEW i \in 1..n PROVE i \in Starts' <=> i \in Starts
    <3>1. i = 1 \/ i - 1 \in 1..n
      BY <1>1
    <3>2. docword'[i] = docword[i] /\ (i = 1 \/ docword'[i - 1] = docword[i - 1])
      BY <1>1, <3>1
    <3>3. i \in 1..(n + 1)
      BY <1>1
    <3>4. QED
      BY <2>1, <2>2, <3>2, <3>3
  <2>4. n + 1 \in Starts' <=> new
    <3>1. CASE n = 0
      <4>1. n + 1 = 1 /\ new
        BY <1>3, <3>1
      <4>2. 1 \in 1..(n + 1)
        BY <1>1
      <4>3. 1 \in Starts'
        BY <2>1, <4>2, Zenon
      <4>4. n + 1 \in Starts'
        BY <4>1, <4>3, Zenon
      <4>5. QED
        BY <4>1, <4>4, Zenon
    <3>2. CASE n # 0
      <4>1. PICK m \in 1..(n + 1) : m = n + 1
        BY <1>1
      <4>2. m - 1 = n /\ n \in 1..n /\ m # 1
        BY <1>1, <3>2, <4>1
      <4>3. docword'[m - 1] = docword[n] /\ docword'[m] = line
        BY <1>1, <4>1, <4>2
      <4>4. new <=> line.item_id # docword[n].item_id
        BY <1>0, <1>3, <3>2
      <4>5. m \in Starts' <=> (m = 1 \/ docword'[m].item_id # docword'[m - 1].item_id)
        BY <2>1, <4>1
      <4>6. m \in Starts' <=> line.item_id # docword[n].item_id
        BY <4>2, <4>3, <4>5, Zenon
      <4>7. QED
        BY <4>1, <4>4, <4>6, Zenon
    <3>3. QED
      BY <3>1, <3>2
  <2>5. Starts' \subseteq 1..(n + 1) /\ Starts \subseteq 1..n
    BY <2>1, <2>2
  <2>6. \A i \in 1..(n + 1) : i \in 1..n \/ i = n + 1
    BY <1>1
  <2>7. n + 1 \notin 1..n
    BY <1>1
  <2>8. QED
    BY <2>3, <2>4, <2>5, <2>6, <2>7
<1>5. n + 1 \notin Starts
  BY <1>1, <1>2
<1>6. LastDocument' = LastDocument + (IF new THEN 1 ELSE 0)
  <2>1. CASE new
    <3>1. Cardinality(Starts \cup {n + 1}) = Cardinality(Starts) + 1
      BY <1>2, <1>5, FS_AddElement
    <3>2. QED
      BY <1>4, <2>1, <3>1 DEF LastDocument
  <2>2. CASE ~new
    <3>1. Starts' = Starts /\ LastDocument \in Nat
      BY <1>4, <2>2, DocumentsAre
    <3>2. QED
      BY <2>2, <3>1 DEF LastDocument
  <2>3. QED
    BY <2>1, <2>2
<1>7. ASSUME NEW i \in 1..n PROVE DocumentOf(i)' = DocumentOf(i)
  <2>1. {j \in Starts' : j <= i} = {j \in Starts : j <= i}
    BY <1>1, <1>2, <1>4
  <2>2. QED
    BY <2>1 DEF DocumentOf
<1>8. DocumentOf(n + 1)' = LastDocument'
  <2>1. {j \in Starts' : j <= n + 1} = Starts'
    <3>1. \A j \in 1..n : j <= n + 1
      BY <1>1
    <3>2. n + 1 <= n + 1
      BY <1>1
    <3>3. \A j \in Starts' : j \in 1..n \/ j = n + 1
      BY <1>2, <1>4
    <3>4. \A j \in Starts' : j <= n + 1
      BY <3>1, <3>2, <3>3, Zenon
    <3>5. QED
      BY <3>4, Zenon
  <2>2. DocumentOf(n + 1)' = Cardinality({j \in Starts' : j <= n + 1})
    BY Zenon DEF DocumentOf
  <2>3. QED
    BY <2>1, <2>2, Zenon DEF LastDocument
<1>9. ASSUME NEW token
      PROVE  LinesWith(token)' = LinesWith(token) \cup
               (IF token = line.token_id THEN {n + 1} ELSE {})
  BY <1>1 DEF LinesWith
<1>10. ASSUME NEW token
       PROVE  DocumentsWith(token)' = DocumentsWith(token) \cup
                (IF token = line.token_id THEN {LastDocument'} ELSE {})
  <2>1. \A d : d \in DocumentsWith(token) <=> \E i \in LinesWith(token) : d = DocumentOf(i)
    BY DEF DocumentsWith, LinesWith
  <2>2. \A d : d \in DocumentsWith(token)' <=> \E i \in LinesWith(token)' : d = DocumentOf(i)'
    BY Zenon DEF DocumentsWith, LinesWith
  <2>3. \A i \in LinesWith(token) : DocumentOf(i)' = DocumentOf(i)
    BY <1>1, <1>7 DEF LinesWith
  <2>4. ASSUME NEW d
        PROVE  d \in DocumentsWith(token)' <=>
                 d \in DocumentsWith(token) \/ (token = line.token_id /\ d = LastDocument')
    BY <1>8, <1>9, <2>1, <2>2, <2>3, Zenon
  <2>5. QED
    BY <2>4, Zenon
<1>11. QED
  BY <1>0, <1>1, <1>6, <1>7, <1>9, <1>10

\* In a file that lists a token once for each document, there are as many documents with
\* a token as lines.
LEMMA DocumentsCounted ==
  ASSUME docword \in Seq(Line), ListedOnce, NEW token
  PROVE  Cardinality(DocumentsWith(token)) = Cardinality(LinesWith(token))
<1> DEFINE f == [j \in LinesWith(token) |-> DocumentOf(j)]
<1>1. DocumentsWith(token) = {DocumentOf(i) : i \in LinesWith(token)}
  BY DEF DocumentsWith, LinesWith
<1>2. f \in Surjection(LinesWith(token), DocumentsWith(token))
  BY <1>1 DEF Surjection
<1>3. f \in Injection(LinesWith(token), DocumentsWith(token))
  <2>1. \A i, j \in LinesWith(token) : i # j => DocumentOf(i) # DocumentOf(j)
    BY DEF ListedOnce, LinesWith
  <2>2. QED
    BY <1>1, <2>1 DEF Injection, IsInjective
<1>4. IsFiniteSet(LinesWith(token))
  <2>1. LinesWith(token) \in SUBSET (1..Len(docword)) /\ IsFiniteSet(1..Len(docword))
    BY FS_Interval DEF LinesWith
  <2>2. QED
    BY <2>1, FS_Subset
<1>5. Cardinality(DocumentsWith(token)) = Cardinality(LinesWith(token))
          <=> f \in Injection(LinesWith(token), DocumentsWith(token))
  BY <1>2, <1>4, FS_Surjection
<1>6. QED
  BY <1>3, <1>5

-----------------------------------------------------------------------------
(* The statistics are those of the lines.                                  *)
\* The tokens whose co-occurrences are collected, the documents with both of two
\* tokens, and those of them that have ended.
Collected == {token \in Token : Collects /\ Vocab[token] \in CooccurrenceTokens}
Common(pair) == DocumentsWith(pair[1]) \cap DocumentsWith(pair[2])
Ended(pair) == Common(pair) \ {LastDocument}

AllCounts == [i \in DOMAIN docword |-> docword[i].token_count]

Counted(token) ==
  [token_count |-> SumOf(CountsOf(token)), items_count |-> Cardinality(LinesWith(token))]

\* The accumulator holds the tokens of the document under way, and has counted the
\* others.
AccumulatorOK ==
  /\ item_tokens = {token \in Collected : LastDocument \in DocumentsWith(token)}
  /\ token_coocurrence =
       [pair \in {p \in Pairs(Collected) : Ended(p) # {}} |-> Cardinality(Ended(pair))]

LinesCounted ==
  /\ prev_item_id = IF docword = <<>> THEN -1 ELSE docword[Len(docword)].item_id
  /\ total_items_count = LastDocument
  /\ total_token_count = SumOf(AllCounts)
  /\ pc = "lines" => token_info = [token \in Token |-> Counted(token)]

StatInv ==
  /\ pc = "open" => docword = <<>>
  /\ pc \in {"open", "lines"} =>
       LinesCounted /\ AccumulatorOK /\ dictionary = Nil /\ cooccurrence = Nil
  /\ DictionaryExact
  /\ CooccurrenceExact

\* Every document has been counted once the one under way ends.
LEMMA FlushCounts ==
  ASSUME docword \in Seq(Line), AccumulatorOK
  PROVE  FlushNewItem =
           [pair \in {p \in Pairs(Collected) : Common(p) # {}} |-> Cardinality(Common(pair))]
<1> DEFINE D == {p \in Pairs(Collected) : Common(p) # {}}
           E == {p \in Pairs(Collected) : Ended(p) # {}}
           N == Pairs(item_tokens)
<1>1. \A p : p \in N <=> p \in Pairs(Collected) /\ LastDocument \in Common(p)
  BY DEF AccumulatorOK, Pairs, Common
<1>2. DOMAIN token_coocurrence = E /\ \A p \in E : token_coocurrence[p] = Cardinality(Ended(p))
  BY DEF AccumulatorOK
<1>3. \A p : p \in D <=> p \in E \/ p \in N
  BY <1>1 DEF Ended
<1>4. ASSUME NEW p \in D
      PROVE  Cardinality(Common(p)) =
               (IF p \in E THEN Cardinality(Ended(p)) ELSE 0) + (IF p \in N THEN 1 ELSE 0)
  <2>1. IsFiniteSet(Ended(p))
    <3>1. Ended(p) \in SUBSET (0..LastDocument) /\ LastDocument \in Nat
      BY DocumentsAre DEF Ended, Common
    <3>2. IsFiniteSet(0..LastDocument)
      BY <3>1, FS_Interval
    <3>3. QED
      BY <3>1, <3>2, FS_Subset
  <2>2. Cardinality(Ended(p)) \in Nat /\ (Ended(p) = {} => Cardinality(Ended(p)) = 0)
    BY <2>1, FS_CardinalityType, FS_EmptySet
  <2>3. (IF p \in E THEN Cardinality(Ended(p)) ELSE 0) = Cardinality(Ended(p))
    BY <2>2
  <2>4. CASE p \in N
    <3>1. LastDocument \in Common(p)
      BY <1>1, <2>4
    <3>2. Common(p) = Ended(p) \cup {LastDocument} /\ LastDocument \notin Ended(p)
      BY <3>1 DEF Ended
    <3>3. Cardinality(Common(p)) = Cardinality(Ended(p)) + 1
      BY <2>1, <3>2, FS_AddElement
    <3>4. QED
      BY <2>3, <2>4, <3>3
  <2>5. CASE p \notin N
    <3>1. LastDocument \notin Common(p)
      BY <1>1, <2>5
    <3>2. Common(p) = Ended(p)
      BY <3>1 DEF Ended
    <3>3. QED
      BY <2>2, <2>3, <2>5, <3>2
  <2>6. QED
    BY <2>4, <2>5
<1> HIDE DEF D, E, N
<1>5. FlushNewItem = [p \in E \cup N |->
                       (IF p \in E THEN token_coocurrence[p] ELSE 0) + (IF p \in N THEN 1 ELSE 0)]
  BY <1>2 DEF FlushNewItem, N
<1>6. E \cup N = D
  BY <1>3
<1>7. FlushNewItem = [p \in D |-> Cardinality(Common(p))]
  BY <1>2, <1>4, <1>5, <1>6
<1>8. QED
  BY <1>7 DEF D

\* A line of the same document or of a new one is counted.
LEMMA LineAccumulated ==
  ASSUME docword \in Seq(Line), AccumulatorOK, NEW line \in Line, docword' = Append(docword, line),
         NEW new \in BOOLEAN,
         new <=> (docword = <<>> \/ line.item_id # docword[Len(docword)].item_id),
         line.token_id \in Token,
         token_coocurrence' = IF new THEN FlushNewItem ELSE token_coocurrence,
         item_tokens' = (IF new THEN {} ELSE item_tokens) \cup AppendTokenId(line.token_id)
  PROVE  AccumulatorOK'
<1>1. PICK last : last = LastDocument
  OBVIOUS
<1>2. PICK next : next = LastDocument'
  OBVIOUS
<1>3. /\ last \in Nat /\ next = last + (IF new THEN 1 ELSE 0)
      /\ \A token : DocumentsWith(token) \subseteq 0..last
  BY <1>1, <1>2, DocumentsAre, LineStarts
<1>4. \A token : DocumentsWith(token)' = DocumentsWith(token) \cup
                   (IF token = line.token_id THEN {next} ELSE {})
  BY <1>2, LineStarts
<1>5. Collected' = Collected
  BY Zenon DEF Collected, Collects, Token
<1>6. AppendTokenId(line.token_id) =
        IF line.token_id \in Collected THEN {line.token_id} ELSE {}
  BY Zenon DEF Collected, AppendTokenId
<1>7. item_tokens' = {token \in Collected : next \in DocumentsWith(token)'}
  <2>1. ASSUME NEW token \in Collected
        PROVE  token \in item_tokens' <=> next \in DocumentsWith(token)'
    <3>1. CASE new
      <4>1. next \notin DocumentsWith(token)
        BY <1>3, <3>1
      <4>2. token \in item_tokens' <=> token = line.token_id
        BY <1>6, <3>1
      <4>3. QED
        BY <1>4, <4>1, <4>2
    <3>2. CASE ~new
      <4>1. next = last
        BY <1>3, <3>2
      <4>2. token \in item_tokens <=> next \in DocumentsWith(token)
        BY <1>1, <4>1 DEF AccumulatorOK
      <4>3. token \in item_tokens' <=> token \in item_tokens \/ token = line.token_id
        BY <1>6, <3>2
      <4>4. QED
        BY <1>4, <4>2, <4>3
    <3>3. QED
      BY <3>1, <3>2
  <2>2. item_tokens' \subseteq Collected
    BY <1>6 DEF AccumulatorOK
  <2>3. QED
    BY <2>1, <2>2
<1>8. ASSUME NEW pair PROVE Ended(pair)' = IF new THEN Common(pair) ELSE Ended(pair)
  <2>1. /\ Ended(pair)' = (DocumentsWith(pair[1])' \cap DocumentsWith(pair[2])') \ {next}
        /\ Ended(pair) = (DocumentsWith(pair[1]) \cap DocumentsWith(pair[2])) \ {last}
        /\ Common(pair) = DocumentsWith(pair[1]) \cap DocumentsWith(pair[2])
    BY <1>1, <1>2 DEF Ended, Common
  <2>2. Ended(pair)' = (DocumentsWith(pair[1]) \cap DocumentsWith(pair[2])) \ {next}
    BY <1>4, <2>1
  <2>3. new => next \notin DocumentsWith(pair[1])
    BY <1>3
  <2>4. ~new => next = last
    BY <1>3
  <2>5. QED
    BY <2>1, <2>2, <2>3, <2>4
<1>9. token_coocurrence' =
        [pair \in {p \in Pairs(Collected) : Ended(p)' # {}} |-> Cardinality(Ended(pair)')]
  <2>1. CASE new
    BY <1>8, <2>1, FlushCounts
  <2>2. CASE ~new
    BY <1>8, <2>2 DEF AccumulatorOK
  <2>3. QED
    BY <2>1, <2>2
<1>10. QED
  BY <1>2, <1>5, <1>7, <1>9 DEF AccumulatorOK

\* The sums over the lines grow by the line's count.
LEMMA LineCounted ==
  ASSUME docword \in Seq(Line), NEW line \in Line, docword' = Append(docword, line)
  PROVE  /\ SumOf(AllCounts)'
              = SumOf(AllCounts) + line.token_count
         /\ \A token :
              /\ SumOf(CountsOf(token)) \in Nat
              /\ Cardinality(LinesWith(token)) \in Nat
              /\ Counted(token)' =
                   [token_count |-> SumOf(CountsOf(token)) +
                                      (IF token = line.token_id THEN line.token_count ELSE 0),
                    items_count |-> Cardinality(LinesWith(token)) +
                                      (IF token = line.token_id THEN 1 ELSE 0)]
<1>1. PICK n \in Nat : n = Len(docword)
  OBVIOUS
<1>2. PICK words : words = docword'
  OBVIOUS
<1>3. PICK old : old = docword
  OBVIOUS
<1>4. /\ DOMAIN old = 1..n /\ DOMAIN words = 1..(n + 1)
      /\ \A i \in 1..n : words[i] = old[i] /\ old[i] \in Line
      /\ words[n + 1] = line
  BY <1>1, <1>2, <1>3
<1>5. \A i \in 1..n : old[i].token_count \in Nat /\ line.token_count \in Nat
  BY <1>4 DEF Line
<1>6. line.token_count \in Nat /\ n + 1 \in 1..(n + 1) /\ \A i \in 1..n : i \in 1..(n + 1)
  BY <1>4 DEF Line
<1>7. SumOf([i \in 1..(n + 1) |-> words[i].token_count])
        = SumOf([i \in 1..n |-> old[i].token_count]) + line.token_count
  <2> DEFINE c == [i \in 1..n |-> old[i].token_count]
             d == [i \in 1..(n + 1) |-> words[i].token_count]
  <2>1. /\ DOMAIN c = 1..n /\ DOMAIN d = 1..(n + 1)
        /\ \A i \in 1..n : c[i] \in Nat /\ d[i] = c[i]
        /\ d[n + 1] = line.token_count
    BY <1>4, <1>5, <1>6
  <2> HIDE DEF c, d
  <2>2. SumOf(d) = SumOf(c) + d[n + 1]
    BY <1>6, <2>1, SumOneMore
  <2>3. QED
    BY <2>1, <2>2 DEF c, d
<1>8. ASSUME NEW token
      PROVE  /\ SumOf(CountsOf(token)) \in Nat
             /\ SumOf(CountsOf(token))' = SumOf(CountsOf(token)) +
                  (IF token = line.token_id THEN line.token_count ELSE 0)
  <2> DEFINE c == [i \in 1..n |-> IF old[i].token_id = token THEN old[i].token_count ELSE 0]
             d == [i \in 1..(n + 1) |-> IF words[i].token_id = token THEN words[i].token_count ELSE 0]
  <2>1. /\ DOMAIN c = 1..n /\ DOMAIN d = 1..(n + 1)
        /\ \A i \in 1..n : c[i] \in Nat /\ d[i] = c[i]
        /\ d[n + 1] = IF line.token_id = token THEN line.token_count ELSE 0
    BY <1>4, <1>5, <1>6
  <2>2. CountsOf(token) = c
    BY <1>3, <1>4 DEF CountsOf
  <2>3. CountsOf(token)' = d
    BY <1>2, <1>4 DEF CountsOf
  <2> HIDE DEF c, d
  <2>4. SumOf(CountsOf(token))' = SumOf(d)
    BY <2>3, Zenon DEF SumOf, FoldLeft, MapThenFoldSet
  <2>5. d[n + 1] \in Nat
    BY <1>6, <2>1
  <2>6. SumOf(c) \in Nat /\ SumOf(d) = SumOf(c) + d[n + 1]
    BY <2>1, <2>5, SumOneMore
  <2>7. QED
    BY <2>1, <2>2, <2>4, <2>6
<1>9. ASSUME NEW token
      PROVE  /\ Cardinality(LinesWith(token)) \in Nat
             /\ Cardinality(LinesWith(token))' = Cardinality(LinesWith(token)) +
                  (IF token = line.token_id THEN 1 ELSE 0)
  <2>1. LinesWith(token) \in SUBSET (1..n) /\ IsFiniteSet(1..n)
    BY <1>3, <1>4, FS_Interval DEF LinesWith
  <2>2. IsFiniteSet(LinesWith(token))
    BY <2>1, FS_Subset
  <2>3. Cardinality(LinesWith(token)) \in Nat
    BY <2>2, FS_CardinalityType
  <2>4. n + 1 \notin LinesWith(token)
    BY <2>1
  <2>5. LinesWith(token)' = LinesWith(token) \cup (IF token = line.token_id THEN {n + 1} ELSE {})
    <3>1. PICK new \in BOOLEAN :
            new <=> (docword = <<>> \/ line.item_id # docword[Len(docword)].item_id)
      OBVIOUS
    <3>2. QED
      BY <1>1, <3>1, LineStarts
  <2>6. CASE token = line.token_id
    <3>1. Cardinality(LinesWith(token) \cup {n + 1}) = Cardinality(LinesWith(token)) + 1
      BY <2>2, <2>4, FS_AddElement
    <3>2. QED
      BY <2>3, <2>5, <2>6, <3>1
  <2>7. CASE token # line.token_id
    BY <2>3, <2>5, <2>7
  <2>8. QED
    BY <2>6, <2>7
<1>10. AllCounts = [i \in 1..n |-> old[i].token_count]
  BY <1>3, <1>4 DEF AllCounts
<1>11. SumOf(AllCounts)' = SumOf([i \in 1..(n + 1) |-> words[i].token_count])
  <2> DEFINE d == [i \in 1..(n + 1) |-> words[i].token_count]
  <2>1. AllCounts' = d
    BY <1>2, <1>4 DEF AllCounts
  <2> HIDE DEF d
  <2>2. SumOf(AllCounts)' = SumOf(d)
    BY <2>1, Zenon DEF SumOf, FoldLeft, MapThenFoldSet
  <2>3. QED
    BY <2>2 DEF d
<1>12. ASSUME NEW token
       PROVE  Counted(token)' =
                [token_count |-> SumOf(CountsOf(token)) +
                                   (IF token = line.token_id THEN line.token_count ELSE 0),
                 items_count |-> Cardinality(LinesWith(token)) +
                                   (IF token = line.token_id THEN 1 ELSE 0)]
  BY <1>8, <1>9, Zenon DEF Counted
<1>13. QED
  BY <1>7, <1>8, <1>9, <1>10, <1>11, <1>12

LEMMA StatInit == Init => StatInv
<1> SUFFICES ASSUME Init PROVE StatInv
  OBVIOUS
<1>1. pc = "open" /\ docword = <<>> /\ dictionary = Nil /\ cooccurrence = Nil
  BY DEF Init
<1>2. DOMAIN docword = {} /\ Starts = {} /\ \A token : DocumentsWith(token) = {}
  BY <1>1 DEF Starts, DocumentsWith
<1>3. LastDocument = 0
  BY <1>2, FS_EmptySet DEF LastDocument
<1>4. SumOf(AllCounts) = 0
  BY <1>2, SumOfNone DEF AllCounts
<1>5. LinesCounted
  BY <1>1, <1>3, <1>4 DEF Init, LinesCounted
<1>6. \A pair : Ended(pair) = {}
  BY <1>2 DEF Ended, Common
<1>7. AccumulatorOK
  <2>1. {p \in Pairs(Collected) : Ended(p) # {}} = {}
    BY <1>6
  <2>2. NoIds = [pair \in {p \in Pairs(Collected) : Ended(p) # {}} |-> Cardinality(Ended(pair))]
    BY <2>1 DEF NoIds
  <2>3. item_tokens = {token \in Collected : LastDocument \in DocumentsWith(token)}
    BY <1>2 DEF Init
  <2>4. QED
    BY <2>2, <2>3 DEF Init, AccumulatorOK
<1>8. QED
  BY <1>1, <1>5, <1>7 DEF StatInv, DictionaryExact, CooccurrenceExact

\* The lines decide what is said of them.
LEMMA SameLines ==
  ASSUME UNCHANGED docword
  PROVE  /\ LastDocument' = LastDocument /\ Cardinality(Starts)' = Cardinality(Starts)
         /\ \A token : DocumentsWith(token)' = DocumentsWith(token)
         /\ ListedOnce' = ListedOnce
         /\ SumOf(AllCounts)' = SumOf(AllCounts)
         /\ \A token : SumOf(CountsOf(token))' = SumOf(CountsOf(token))
         /\ \A token : Counted(token)' = Counted(token)
<1>1. Starts' = Starts
  BY DEF Starts
<1>2. ASSUME NEW i PROVE DocumentOf(i)' = DocumentOf(i)
  BY <1>1, Zenon DEF DocumentOf
<1>3. LastDocument' = LastDocument /\ Cardinality(Starts)' = Cardinality(Starts)
  BY <1>1, Zenon DEF LastDocument
<1>4. ASSUME NEW token PROVE DocumentsWith(token)' = DocumentsWith(token)
  BY <1>2 DEF DocumentsWith
<1>5. ListedOnce' = ListedOnce
  BY <1>2 DEF ListedOnce
<1>6. AllCounts' = AllCounts
  BY DEF AllCounts
<1>7. SumOf(AllCounts)' = SumOf(AllCounts)
  BY <1>6, Zenon DEF SumOf, FoldLeft, MapThenFoldSet
<1>8. ASSUME NEW token PROVE SumOf(CountsOf(token))' = SumOf(CountsOf(token))
  <2>1. CountsOf(token)' = CountsOf(token)
    BY DEF CountsOf
  <2>2. QED
    BY <2>1, Zenon DEF SumOf, FoldLeft, MapThenFoldSet
<1>9. ASSUME NEW token PROVE Counted(token)' = Counted(token)
  <2>1. LinesWith(token)' = LinesWith(token)
    BY DEF LinesWith
  <2>2. QED
    BY <1>8, <2>1, Zenon DEF Counted
<1>10. QED
  BY <1>3, <1>4, <1>5, <1>7, <1>8, <1>9

\* What a step keeps that leaves the lines and the results alone.
LEMMA StatFrame ==
  ASSUME StatInv,
         UNCHANGED <<docword, dictionary, cooccurrence>>,
         pc' = pc \/ pc' \notin {"open", "lines"},
         pc' = pc => UNCHANGED <<statistics, prev_item_id, accumulator>>
  PROVE  StatInv'
<1>1. DictionaryExact'
  <2>1. DictionaryExact
    BY DEF StatInv
  <2>2. QED
    BY <2>1, SameLines DEF DictionaryExact, Token
<1>2. CooccurrenceExact'
  <2>1. CooccurrenceExact
    BY DEF StatInv
  <2>2. QED
    BY <2>1, SameLines DEF CooccurrenceExact, Token
<1>3. CASE pc' # pc
  BY <1>1, <1>2, <1>3 DEF StatInv
<1>4. CASE pc' = pc
  <2>1. ASSUME LinesCounted PROVE LinesCounted'
    <3>1. statistics' = statistics /\ prev_item_id' = prev_item_id
      BY <1>4
    <3>2. QED
      BY <1>4, <2>1, <3>1, SameLines DEF LinesCounted, statistics, Token
  <2>2. ASSUME AccumulatorOK PROVE AccumulatorOK'
    <3>1. accumulator' = accumulator
      BY <1>4
    <3>2. Collected' = Collected
      BY DEF Collected, Collects, Token
    <3>3. ASSUME NEW p PROVE Ended(p)' = Ended(p)
      BY SameLines DEF Ended, Common
    <3>4. QED
      BY <2>2, <3>1, <3>2, <3>3, SameLines DEF AccumulatorOK, accumulator
  <2>3. QED
    BY <1>1, <1>2, <1>4, <2>1, <2>2, Zenon DEF StatInv
<1>5. QED
  BY <1>3, <1>4

LEMMA StatRead ==
  ASSUME StatInv, ReadVocab
  PROVE  StatInv'
<1>1. /\ pc = "open" /\ docword = <<>> /\ pc' \in {"lines", "failed"}
      /\ UNCHANGED <<docword, dictionary, cooccurrence, total_token_count, total_items_count,
                     prev_item_id, item_tokens, token_coocurrence>>
  BY DEF ReadVocab, StatInv, current, accumulator
<1>2. CASE pc' = "failed"
  BY <1>1, <1>2, StatFrame
<1>3. CASE pc' = "lines"
  <2>1. DictionaryExact' /\ CooccurrenceExact'
    BY <1>1 DEF StatInv, DictionaryExact, CooccurrenceExact
  <2>2. token_info' = [token \in Token |-> [token_count |-> 0, items_count |-> 0]]
    BY <1>3 DEF ReadVocab
  <2>3. ASSUME NEW token PROVE Counted(token)' = [token_count |-> 0, items_count |-> 0]
    <3>1. DOMAIN CountsOf(token) = {} /\ LinesWith(token) = {}
      BY <1>1 DEF CountsOf, LinesWith
    <3>2. SumOf(CountsOf(token)) = 0 /\ Cardinality(LinesWith(token)) = 0
      BY <3>1, SumOfNone, FS_EmptySet
    <3>3. Counted(token)' = Counted(token)
      BY <1>1, SameLines
    <3>4. QED
      BY <3>2, <3>3 DEF Counted
  <2>4. (pc = "lines" => token_info = [token \in Token |-> Counted(token)])'
    BY <2>2, <2>3 DEF Token
  <2>5. LinesCounted'
    BY <1>1, <2>4, SameLines DEF LinesCounted, StatInv
  <2>6. AccumulatorOK'
    <3>1. AccumulatorOK
      BY <1>1 DEF StatInv
    <3>2. Collected' = Collected
      BY DEF Collected, Collects, Token
    <3>3. ASSUME NEW p PROVE Ended(p)' = Ended(p)
      BY <1>1, SameLines DEF Ended, Common
    <3>4. QED
      BY <1>1, <3>1, <3>2, <3>3, SameLines DEF AccumulatorOK
  <2>7. QED
    BY <1>1, <1>3, <2>1, <2>5, <2>6 DEF StatInv
<1>4. QED
  BY <1>1, <1>2, <1>3

LEMMA StatLine ==
  ASSUME ParserInv, StatInv, NEW item_id \in ItemId, NEW token_id \in LineTokenId,
         NEW token_count \in LineTokenCount, ParsedLine(item_id, token_id, token_count)
  PROVE  StatInv'
<1> DEFINE line == [item_id |-> item_id, token_id |-> token_id, token_count |-> token_count]
           new == item_id # prev_item_id
<1>1. /\ pc = "lines" /\ pc' = "lines" /\ token_id \in Token
      /\ UNCHANGED <<dictionary, cooccurrence>>
      /\ docword' = Append(docword, line) /\ prev_item_id' = item_id
      /\ total_items_count' = total_items_count + (IF new THEN 1 ELSE 0)
      /\ total_token_count' = total_token_count + token_count
      /\ token_coocurrence' = IF new THEN FlushNewItem ELSE token_coocurrence
      /\ item_tokens' = (IF new THEN {} ELSE item_tokens) \cup AppendTokenId(token_id)
  BY DEF ParsedLine
<1>2. token_info' = [token_info EXCEPT ![token_id] =
                       [token_count |-> @.token_count + token_count,
                        items_count |-> @.items_count + 1]]
  BY DEF ParsedLine
<1>3. docword \in Seq(Line) /\ line \in Line /\ item_id \in Nat /\ token_count \in Nat
  BY <1>1, ParserAssumption DEF ParserInv, TypeOK, Line
<1>4. LinesCounted /\ AccumulatorOK /\ dictionary = Nil /\ cooccurrence = Nil
  BY <1>1 DEF StatInv
<1>5. /\ line.item_id = item_id /\ line.token_id = token_id /\ line.token_count = token_count
  OBVIOUS
<1>6. new <=> (docword = <<>> \/ item_id # docword[Len(docword)].item_id)
  BY <1>3, <1>4 DEF LinesCounted
<1>7. PICK n \in BOOLEAN : n <=> new
  OBVIOUS
<1> HIDE DEF line
<1>8. LastDocument' = LastDocument + (IF new THEN 1 ELSE 0)
  BY <1>1, <1>3, <1>5, <1>6, <1>7, LineStarts
<1>9. AccumulatorOK'
  <2>1. token_coocurrence' = (IF n THEN FlushNewItem ELSE token_coocurrence)
    BY <1>1, <1>7
  <2>2. item_tokens' = (IF n THEN {} ELSE item_tokens) \cup AppendTokenId(line.token_id)
    BY <1>1, <1>5, <1>7
  <2>3. n <=> (docword = <<>> \/ line.item_id # docword[Len(docword)].item_id)
    BY <1>5, <1>6, <1>7
  <2>4. line.token_id \in Token
    BY <1>1, <1>5
  <2>5. QED
    BY <1>1, <1>3, <1>4, <2>1, <2>2, <2>3, <2>4, LineAccumulated
<1>10. SumOf(AllCounts)' = SumOf(AllCounts) + token_count
  BY <1>1, <1>3, <1>5, LineCounted
<1>11. token_info' = [token \in Token |-> Counted(token)']
  <2>1. token_info = [token \in Token |-> Counted(token)]
    BY <1>1, <1>4 DEF LinesCounted
  <2>2. ASSUME NEW token \in Token PROVE token_info'[token] = Counted(token)'
    <3>1. /\ SumOf(CountsOf(token)) \in Nat /\ Cardinality(LinesWith(token)) \in Nat
          /\ Counted(token)' =
               [token_count |-> SumOf(CountsOf(token)) +
                                  (IF token = token_id THEN token_count ELSE 0),
                items_count |-> Cardinality(LinesWith(token)) +
                                  (IF token = token_id THEN 1 ELSE 0)]
      BY <1>1, <1>3, <1>5, LineCounted
    <3>2. token_info[token].token_count = SumOf(CountsOf(token))
          /\ token_info[token].items_count = Cardinality(LinesWith(token))
          /\ token_info[token] = [token_count |-> SumOf(CountsOf(token)),
                                  items_count |-> Cardinality(LinesWith(token))]
      BY <2>1 DEF Counted
    <3>3. CASE token = token_id
      <4>1. token_info'[token] = [token_count |-> token_info[token].token_count + token_count,
                                  items_count |-> token_info[token].items_count + 1]
        BY <1>2, <2>1, <3>3
      <4>2. QED
        BY <3>1, <3>2, <3>3, <4>1
    <3>4. CASE token # token_id
      <4>1. token_info'[token] = token_info[token]
        BY <1>2, <2>1, <3>4
      <4>2. SumOf(CountsOf(token)) + 0 = SumOf(CountsOf(token))
            /\ Cardinality(LinesWith(token)) + 0 = Cardinality(LinesWith(token))
        BY <3>1
      <4>3. QED
        BY <3>1, <3>2, <3>4, <4>1, <4>2
    <3>5. QED
      BY <3>3, <3>4
  <2>3. DOMAIN token_info' = Token /\ token_info' = [token \in Token |-> token_info'[token]]
    BY <1>2, <2>1
  <2>4. QED
    BY <2>2, <2>3
<1>12. prev_item_id' = IF docword' = <<>> THEN -1 ELSE docword'[Len(docword')].item_id
  <2>1. docword' # <<>> /\ docword'[Len(docword')] = line
    BY <1>1, <1>3
  <2>2. QED
    BY <1>1, <1>5, <2>1
<1>13. LinesCounted'
  <2>1. total_items_count' = LastDocument'
    BY <1>1, <1>4, <1>8 DEF LinesCounted
  <2>2. total_token_count' = SumOf(AllCounts)'
    BY <1>1, <1>4, <1>10 DEF LinesCounted
  <2>3. QED
    BY <1>11, <1>12, <2>1, <2>2 DEF LinesCounted, Token
<1>14. DictionaryExact' /\ CooccurrenceExact'
  BY <1>1, <1>4 DEF DictionaryExact, CooccurrenceExact
<1>15. QED
  BY <1>1, <1>4, <1>9, <1>13, <1>14 DEF StatInv

\* What EndOfFile saves.
LEMMA StatEnd ==
  ASSUME ParserInv, StatInv, EndOfFile
  PROVE  StatInv'
<1>1. pc = "lines" /\ docword' = docword /\ pc' \in {"done", "failed"}
  BY DEF EndOfFile
<1>2. CASE pc' = "failed"
  <2>1. UNCHANGED <<dictionary, cooccurrence>>
    BY <1>2 DEF EndOfFile
  <2>2. QED
    BY <1>1, <1>2, <2>1, StatFrame
<1>3. CASE pc' = "done"
  <2>1. dictionary' = Dictionary /\ cooccurrence' = IF Collects THEN Export(LastItem) ELSE Nil
    BY <1>3 DEF EndOfFile
  <2>2. docword \in Seq(Line) /\ LinesCounted /\ AccumulatorOK
    BY <1>1 DEF StatInv, ParserInv, TypeOK, Line
  <2>3. DictionaryExact'
    <3>1. token_info = [token \in Token |-> Counted(token)]
      BY <1>1, <2>2 DEF LinesCounted
    <3>2. /\ Dictionary.total_items_count = Cardinality(Starts)
          /\ Dictionary.total_token_count = SumOf(AllCounts)
      BY <2>2 DEF Dictionary, LinesCounted, LastDocument
    <3>3. ASSUME NEW token \in Token
          PROVE  /\ Dictionary.entry[token].token_count = SumOf(CountsOf(token))
                 /\ Dictionary.entry[token].items_count = Cardinality(LinesWith(token))
      BY <3>1 DEF Dictionary, Counted
    <3>4. ASSUME NEW token \in Token, ListedOnce
          PROVE  Dictionary.entry[token].items_count = Cardinality(DocumentsWith(token))
      BY <2>2, <3>3, <3>4, DocumentsCounted
    <3> HIDE DEF Dictionary
    <3>5. DictionaryExact' <=>
            (dictionary' # Nil =>
              /\ dictionary'.total_items_count = Cardinality(Starts)
              /\ dictionary'.total_token_count = SumOf(AllCounts)
              /\ \A token \in Token :
                   /\ dictionary'.entry[token].token_count = SumOf(CountsOf(token))
                   /\ ListedOnce =>
                        dictionary'.entry[token].items_count = Cardinality(DocumentsWith(token)))
      BY <1>1, SameLines DEF DictionaryExact, Token, AllCounts
    <3>6. QED
      BY <2>1, <3>2, <3>3, <3>4, <3>5
  <2>4. CooccurrenceExact'
    <3> DEFINE D == {p \in Pairs(Collected) : Common(p) # {}}
    <3>1. LastItem = [pair \in D |-> Cardinality(Common(pair))]
      <4>1. CASE batch.item # <<>>
        BY <2>2, <4>1, FlushCounts DEF LastItem
      <4>2. CASE batch.item = <<>>
        <5>1. prev_item_id = -1
          BY <4>2 DEF ParserInv
        <5>2. docword = <<>>
          <6>1. ASSUME docword # <<>> PROVE FALSE
            <7>1. docword[Len(docword)] \in Line
              BY <2>2, <6>1
            <7>2. docword[Len(docword)].item_id \in Nat
              BY <7>1, ParserAssumption DEF Line
            <7>3. QED
              BY <2>2, <5>1, <6>1, <7>2 DEF LinesCounted
          <6>2. QED
            BY <6>1
        <5>3. \A pair : Common(pair) = {} /\ Ended(pair) = {}
          BY <5>2 DEF Common, Ended, DocumentsWith
        <5>4. token_coocurrence = [pair \in D |-> Cardinality(Common(pair))]
          BY <2>2, <5>3 DEF AccumulatorOK
        <5>5. QED
          BY <4>2, <5>4 DEF LastItem
      <4>3. QED
        BY <4>1, <4>2
    <3> HIDE DEF D
    <3>2. Export(LastItem) =
            {[key_token |-> Key(Vocab[pair[1]], Vocab[pair[2]]),
              items_count |-> Cardinality(Common(pair))] : pair \in D}
      BY <3>1 DEF Export
    <3>3. CASE ~Collects
      BY <2>1, <3>3 DEF CooccurrenceExact
    <3>4. CASE Collects
      <4>1. Collected = {token \in Token : Vocab[token] \in CooccurrenceTokens}
        BY <3>4 DEF Collected
      <4>2. cooccurrence' =
              {[key_token |-> Key(Vocab[pair[1]], Vocab[pair[2]]),
                items_count |-> Cardinality(Common(pair))] : pair \in D}
        BY <2>1, <3>2, <3>4
      <4>3. QED
        BY <1>1, <4>1, <4>2, SameLines DEF CooccurrenceExact, D, Common, Token
    <3>5. QED
      BY <3>3, <3>4
  <2>5. QED
    BY <1>3, <2>3, <2>4 DEF StatInv
<1>4. QED
  BY <1>1, <1>2, <1>3

LEMMA StatStep == ParserInv /\ StatInv /\ [Next]_vars => StatInv'
<1> SUFFICES ASSUME ParserInv, StatInv, [Next]_vars PROVE StatInv'
  OBVIOUS
<1>1. ASSUME NEW token_id \in LineTokenId, InvalidLine(token_id) PROVE StatInv'
  <2>1. pc' = "failed" /\ pc = "lines" /\ UNCHANGED <<docword, dictionary, cooccurrence>>
    BY <1>1 DEF InvalidLine
  <2>2. QED
    BY <2>1, StatFrame
<1>2. ASSUME NEW token_id \in LineTokenId, NEW token_count \in LineTokenCount,
             ZeroLine(token_id, token_count)
      PROVE  StatInv'
  <2>1. UNCHANGED <<pc, docword, dictionary, cooccurrence, statistics, prev_item_id, accumulator>>
    BY <1>2 DEF ZeroLine, current
  <2>2. QED
    BY <2>1, StatFrame
<1>3. ASSUME NEW new, NEW compact, AddBatch(new, compact) PROVE StatInv'
  <2>1. UNCHANGED <<pc, docword, dictionary, cooccurrence, statistics, prev_item_id, accumulator>>
    BY <1>3 DEF AddBatch, current
  <2>2. QED
    BY <2>1, StatFrame
<1>4. ASSUME UNCHANGED vars PROVE StatInv'
  <2>1. UNCHANGED <<pc, docword, dictionary, cooccurrence, statistics, prev_item_id, accumulator>>
    BY <1>4 DEF vars, current
  <2>2. QED
    BY <2>1, StatFrame
<1>5. QED
  BY <1>1, <1>2, <1>3, <1>4, StatRead, StatLine, StatEnd DEF Next, Parse

LEMMA StatAlways == Spec => []StatInv
<1>1. ParserInv /\ StatInv /\ [Next]_vars => ParserInv' /\ StatInv'
  BY StepOK, StatStep
<1>2. Init => ParserInv /\ StatInv
  BY InitOK, StatInit
<1>3. QED
  BY <1>1, <1>2, PTL DEF Spec

\* collection_parser.cc:247-265: the dictionary that a file gives counts its documents and
\* words as a recount of all lines does, and for each token its occurrences and, when the
\* file lists it once for each document, the documents with it.
THEOREM DictionaryIsExact == Spec => []DictionaryExact
<1>1. StatInv => DictionaryExact
  BY DEF StatInv
<1>2. QED
  BY <1>1, StatAlways, PTL

\* collection_parser.cc:61: the flushes at the end of each document and of the file give,
\* for every two collected tokens, the number of documents with both.
THEOREM CooccurrenceIsExact == Spec => []CooccurrenceExact
<1>1. StatInv => CooccurrenceExact
  BY DEF StatInv
<1>2. QED
  BY <1>1, StatAlways, PTL

-----------------------------------------------------------------------------
(* Sequences of sequences, one after the other.                            *)
\* The function that FlattenSeq computes: the first i of them.
IsFlat(f, s, n) == f = [i \in 1..n |-> IF i = 1 THEN s[i] ELSE f[i - 1] \o s[i]]

TheFlat(s, n) == CHOOSE f : IsFlat(f, s, n)

LEMMA FlatIs ==
  ASSUME NEW s
  PROVE  FlattenSeq(s) = IF Len(s) = 0 THEN s ELSE TheFlat(s, Len(s))[Len(s)]
BY Zenon DEF FlattenSeq, TheFlat, IsFlat

LEMMA FlatOf ==
  ASSUME NEW s, NEW n, Len(s) = n, n # 0
  PROVE  FlattenSeq(s) = TheFlat(s, n)[n]
BY FlatIs, Zenon

LEMMA EmptySeq == ASSUME NEW S, NEW s \in Seq(S), Len(s) = 0 PROVE s = <<>>
OBVIOUS

LEMMA FlatExists ==
  ASSUME NEW n \in Nat, NEW s
  PROVE  IsFlat(TheFlat(s, n), s, n)
<1> DEFINE P == {k \in 0..n : \E f : IsFlat(f, s, k)}
<1>1. 0 \in P
  <2> DEFINE f == [i \in 1..0 |-> {}]
  <2>1. f = [i \in 1..0 |-> IF i = 1 THEN s[i] ELSE f[i - 1] \o s[i]]
    OBVIOUS
  <2> HIDE DEF f
  <2>2. IsFlat(f, s, 0)
    BY <2>1 DEF IsFlat
  <2>3. QED
    BY <2>2
<1>2. ASSUME NEW k \in 1..n, k - 1 \in P PROVE k \in P
  <2>1. PICK f : IsFlat(f, s, k - 1)
    BY <1>2
  <2>2. \A i \in 1..(k - 1) : f[i] = IF i = 1 THEN s[i] ELSE f[i - 1] \o s[i]
    BY <2>1, Zenon DEF IsFlat
  <2> DEFINE g == [i \in 1..k |-> IF i = k THEN (IF k = 1 THEN s[k] ELSE f[k - 1] \o s[k])
                                  ELSE f[i]]
  <2>3. ASSUME NEW i \in 1..k
        PROVE  g[i] = IF i = 1 THEN s[i] ELSE g[i - 1] \o s[i]
    <3>1. CASE i = k
      <4>1. i = 1 \/ g[i - 1] = f[k - 1]
        BY <3>1
      <4>2. QED
        BY <3>1, <4>1
    <3>2. CASE i # k
      <4>1. i \in 1..(k - 1) /\ g[i] = f[i] /\ (i = 1 \/ g[i - 1] = f[i - 1])
        BY <3>2
      <4>2. QED
        BY <2>2, <4>1
    <3>3. QED
      BY <3>1, <3>2
  <2>4. g = [i \in 1..k |-> g[i]]
    OBVIOUS
  <2> HIDE DEF g
  <2>5. IsFlat(g, s, k)
    BY <2>3, <2>4 DEF IsFlat
  <2>6. QED
    BY <2>5
<1>3. \A i \in 0..n : i \in P
  <2> HIDE DEF P
  <2>1. QED
    BY <1>1, <1>2, Induction
<1>4. n \in P
  <2>1. n \in 0..n
    OBVIOUS
  <2>2. QED
    BY <1>3, <2>1
<1>5. QED
  BY <1>4, Zenon DEF TheFlat

LEMMA FlatStep ==
  ASSUME NEW n \in Nat, NEW s, NEW i \in 1..n
  PROVE  TheFlat(s, n)[i] = IF i = 1 THEN s[i] ELSE TheFlat(s, n)[i - 1] \o s[i]
<1> DEFINE f == TheFlat(s, n)
<1>1. IsFlat(f, s, n)
  BY FlatExists
<1> HIDE DEF f
<1>2. f[i] = IF i = 1 THEN s[i] ELSE f[i - 1] \o s[i]
  BY <1>1, Zenon DEF IsFlat
<1>3. QED
  BY <1>2 DEF f

\* Sequences of sequences that begin in the same way.
BeginAlike(S, s, t, k) == \A i \in 1..k : s[i] \in Seq(S) /\ t[i] = s[i]
Within(k, n) == n \in Nat /\ k \in 1..n

LEMMA FlatPrefix ==
  ASSUME NEW S, NEW s, NEW t, NEW k, BeginAlike(S, s, t, k),
         NEW n, Within(k, n), NEW m, Within(k, m)
  PROVE  TheFlat(s, n)[k] = TheFlat(t, m)[k] /\ TheFlat(s, n)[k] \in Seq(S)
<1> DEFINE f == TheFlat(s, n)
           g == TheFlat(t, m)
           P == {i \in 0..k : i = 0 \/ (f[i] = g[i] /\ f[i] \in Seq(S))}
<1>0. k \in Nat /\ k \in 1..k /\ \A i \in 1..k : s[i] \in Seq(S) /\ t[i] = s[i]
  BY DEF BeginAlike, Within
<1>01. n \in Nat /\ m \in Nat /\ \A i \in 1..k : i \in 1..n /\ i \in 1..m
  BY DEF Within
<1>1. \A i \in 1..k : /\ f[i] = IF i = 1 THEN s[i] ELSE f[i - 1] \o s[i]
                      /\ g[i] = IF i = 1 THEN t[i] ELSE g[i - 1] \o t[i]
  BY <1>01, FlatStep
<1> HIDE DEF f, g
<1>2. 0 \in P
  BY <1>0
<1>3. ASSUME NEW i \in 1..k, i - 1 \in P PROVE i \in P
  <2>1. CASE i = 1
    BY <1>0, <1>1, <2>1
  <2>2. CASE i # 1
    <3>1. f[i - 1] = g[i - 1] /\ f[i - 1] \in Seq(S)
      BY <1>3, <2>2
    <3>2. f[i - 1] \o s[i] \in Seq(S)
      BY <1>0, <3>1
    <3>3. f[i] = f[i - 1] \o s[i] /\ g[i] = g[i - 1] \o t[i]
      BY <1>0, <1>1, <2>2
    <3>4. f[i] = g[i] /\ f[i] \in Seq(S)
      BY <1>0, <3>1, <3>2, <3>3
    <3>5. QED
      BY <3>4
  <2>3. QED
    BY <2>1, <2>2
<1>4. \A i \in 0..k : i \in P
  <2> HIDE DEF P
  <2>1. QED
    BY <1>0, <1>2, <1>3, Induction
<1>5. f[k] = g[k] /\ f[k] \in Seq(S)
  BY <1>0, <1>4
<1>6. QED
  BY <1>5 DEF f, g

LEMMA FlatType ==
  ASSUME NEW S, NEW s \in Seq(Seq(S))
  PROVE  FlattenSeq(s) \in Seq(S)
<1>1. CASE Len(s) = 0
  <2>1. FlattenSeq(s) = s /\ s = <<>>
    BY <1>1, FlatIs
  <2>2. QED
    BY <2>1
<1>2. CASE Len(s) # 0
  <2>1. PICK n \in Nat : n = Len(s)
    OBVIOUS
  <2>2. Within(n, n) /\ BeginAlike(S, s, s, n)
    BY <1>2, <2>1 DEF BeginAlike, Within
  <2>3. TheFlat(s, n)[n] \in Seq(S)
    BY <2>2, FlatPrefix
  <2>4. QED
    BY <1>2, <2>1, <2>3, FlatIs
<1>3. QED
  BY <1>1, <1>2

\* One more at the end.
LEMMA FlatAppend ==
  ASSUME NEW S, NEW s \in Seq(Seq(S)), NEW x \in Seq(S)
  PROVE  FlattenSeq(Append(s, x)) = FlattenSeq(s) \o x
<1>1. PICK n \in Nat : n = Len(s)
  OBVIOUS
<1>2. PICK m \in Nat : m = n + 1
  OBVIOUS
<1>3. PICK t : t = Append(s, x)
  OBVIOUS
<1>4. /\ m # 0 /\ m \in 1..m /\ m - 1 = n /\ n \in 0..m /\ (m = 1 <=> n = 0) /\ (n # 0 => n \in 1..n /\ n \in 1..m)
      /\ Len(t) = m /\ t[m] = x
  BY <1>1, <1>2, <1>3
<1>5. BeginAlike(S, s, t, n)
  BY <1>1, <1>3 DEF BeginAlike
<1>6. FlattenSeq(s) = IF n = 0 THEN s ELSE TheFlat(s, n)[n]
  BY <1>1, FlatIs
<1>7. FlattenSeq(t) = TheFlat(t, m)[m]
  BY <1>4, FlatIs
<1>8. TheFlat(t, m)[m] = IF m = 1 THEN t[m] ELSE TheFlat(t, m)[m - 1] \o t[m]
  BY <1>2, <1>4, FlatStep, Zenon
<1>9. CASE n = 0
  <2>1. s = <<>>
    BY <1>1, <1>9, EmptySeq, Zenon
  <2>2. <<>> \o x = x
    OBVIOUS
  <2>3. FlattenSeq(s) = <<>> /\ FlattenSeq(t) = x
    BY <1>4, <1>6, <1>7, <1>8, <1>9, <2>1, Zenon
  <2>4. QED
    BY <1>3, <2>2, <2>3, Zenon
<1>10. CASE n # 0
  <2>1. TheFlat(s, n)[n] = TheFlat(t, m)[n]
    <3>1. Within(n, n) /\ Within(n, m)
      BY <1>1, <1>2, <1>4, <1>10 DEF Within
    <3>2. QED
      BY <1>5, <3>1, FlatPrefix
  <2>2. FlattenSeq(t) = TheFlat(t, m)[n] \o x
    BY <1>4, <1>7, <1>8, <1>10, Zenon
  <2>3. QED
    BY <1>3, <1>6, <1>10, <2>1, <2>2, Zenon
<1>11. QED
  BY <1>9, <1>10

\* The last of them.
LEMMA FlatTop ==
  ASSUME NEW n \in Nat, n # 0, NEW s
  PROVE  TheFlat(s, n)[n] = IF n = 1 THEN s[n] ELSE TheFlat(s, n)[n - 1] \o s[n]
<1>1. n \in 1..n
  OBVIOUS
<1>2. QED
  BY <1>1, FlatStep, Zenon

\* An element more in the last of them.
LEMMA FlatLast ==
  ASSUME NEW S, NEW s \in Seq(Seq(S)), s # <<>>, NEW y \in S,
         NEW t, t = [s EXCEPT ![Len(s)] = Append(s[Len(s)], y)]
  PROVE  FlattenSeq(t) = Append(FlattenSeq(s), y)
<1>1. PICK n \in Nat : n = Len(s)
  OBVIOUS
<1>2. /\ n # 0 /\ n \in 1..n /\ Len(t) = n /\ t[n] = Append(s[n], y)
      /\ \A i \in 1..n : s[i] \in Seq(S)
      /\ \A i \in 1..n : i # n => t[i] = s[i]
  BY <1>1
<1>3. /\ FlattenSeq(s) = TheFlat(s, n)[n]
      /\ FlattenSeq(t) = TheFlat(t, n)[n]
  <2>1. Len(s) = n /\ Len(t) = n /\ n # 0
    BY <1>1, <1>2
  <2>2. FlattenSeq(s) = TheFlat(s, n)[n]
    BY <2>1, FlatOf
  <2>3. FlattenSeq(t) = TheFlat(t, n)[n]
    BY <2>1, FlatOf
  <2>4. QED
    BY <2>2, <2>3
<1>4. /\ TheFlat(s, n)[n] = IF n = 1 THEN s[n] ELSE TheFlat(s, n)[n - 1] \o s[n]
      /\ TheFlat(t, n)[n] = IF n = 1 THEN t[n] ELSE TheFlat(t, n)[n - 1] \o t[n]
  <2>0. n \in Nat /\ n # 0
    BY <1>1, <1>2
  <2>1. TheFlat(s, n)[n] = IF n = 1 THEN s[n] ELSE TheFlat(s, n)[n - 1] \o s[n]
    BY <2>0, FlatTop
  <2>2. TheFlat(t, n)[n] = IF n = 1 THEN t[n] ELSE TheFlat(t, n)[n - 1] \o t[n]
    BY <2>0, FlatTop
  <2>3. QED
    BY <2>1, <2>2, Zenon
<1>5. CASE n = 1
  BY <1>2, <1>3, <1>4, <1>5
<1>6. CASE n # 1
  <2>1. n - 1 \in Nat /\ n - 1 \in 1..(n - 1) /\ n - 1 <= n /\ \A i \in 1..(n - 1) : i \in 1..n /\ i # n
    BY <1>2, <1>6
  <2>2. BeginAlike(S, s, t, n - 1)
    BY <1>2, <2>1 DEF BeginAlike
  <2>0. Within(n - 1, n)
    BY <1>1, <1>2, <1>6 DEF Within
  <2>3. TheFlat(s, n)[n - 1] = TheFlat(t, n)[n - 1] /\ TheFlat(s, n)[n - 1] \in Seq(S)
    BY <2>0, <2>2, FlatPrefix
  <2>4. PICK a \in Seq(S) : a = TheFlat(s, n)[n - 1]
    BY <2>3
  <2>5. PICK b \in Seq(S) : b = s[n]
    BY <1>2
  <2>6. a \o Append(b, y) = Append(a \o b, y)
    OBVIOUS
  <2>7. FlattenSeq(s) = a \o b /\ FlattenSeq(t) = a \o Append(b, y)
    BY <1>2, <1>3, <1>4, <1>6, <2>3, <2>4, <2>5
  <2>8. QED
    BY <2>6, <2>7
<1>7. QED
  BY <1>5, <1>6

-----------------------------------------------------------------------------
(* The documents of the batches say what the lines say.                    *)
WordSet == [keyword : Keyword, class_id : ClassId, token_count : Int]
DocumentSet == [id : Int, words : Seq(WordSet)]
Said == Int \X Keyword \X Int

SaidBy(document) ==
  [k \in DOMAIN document.words |->
     <<document.id, document.words[k].keyword, document.words[k].token_count>>]
SaidByAll(documents) == FlattenSeq([d \in DOMAIN documents |-> SaidBy(documents[d])])
SaidByLines ==
  [i \in DOMAIN docword |-> <<docword[i].item_id, Vocab[docword[i].token_id],
                              docword[i].token_count>>]

\* The parser sets no class ids, and an occurrence names a token of its batch.
RefersOK(b) ==
  /\ b.class_id = <<>>
  /\ \A i \in DOMAIN b.item : \A k \in DOMAIN b.item[i].field :
       b.item[i].field[k].token_id \in DOMAIN b.token

Apart(documents) == \A d \in 2..Len(documents) : documents[d].id # documents[d - 1].id

Refers(b) ==
  \A i \in DOMAIN b.item : \A k \in DOMAIN b.item[i].field :
    b.item[i].field[k].token_id \in DOMAIN b.token

FolderDocuments(batches) == FlattenSeq([i \in DOMAIN batches |-> Documents(batches[i])])

DocInv ==
  /\ RefersOK(batch)
  /\ \A i \in DOMAIN target_folder : RefersOK(target_folder[i])
  /\ pc = "open" => batch.item = <<>> /\ docword = <<>>
  /\ pc \in {"open", "lines"} /\ AllDocuments # <<>> =>
       AllDocuments[Len(AllDocuments)].id = prev_item_id
  /\ pc \in {"open", "lines", "done"} =>
       SaidByAll(AllDocuments) = SaidByLines /\ Apart(AllDocuments)

\* Sequences of any elements.
LEMMA LenDomain == ASSUME NEW S, NEW s \in Seq(S) PROVE \E m \in Nat : m = Len(s) /\ DOMAIN s = 1..m
OBVIOUS

LEMMA ElementOf == ASSUME NEW S, NEW s \in Seq(S), NEW i \in DOMAIN s PROVE s[i] \in S
OBVIOUS

LEMMA SeqMade ==
  ASSUME NEW S, NEW n \in Nat, NEW f, f = [i \in 1..n |-> f[i]], \A i \in 1..n : f[i] \in S
  PROVE  f \in Seq(S) /\ Len(f) = n
OBVIOUS

LEMMA AppendIs ==
  ASSUME NEW S, NEW s \in Seq(S), NEW x, NEW n, n = Len(s)
  PROVE  /\ n \in Nat /\ DOMAIN s = 1..n /\ DOMAIN Append(s, x) = 1..(n + 1)
         /\ Append(s, x) = [i \in 1..(n + 1) |-> Append(s, x)[i]]
         /\ Append(s, x)[n + 1] = x
         /\ \A i \in 1..n : Append(s, x)[i] = s[i]
<1>1. s \in Seq(S \cup {x}) /\ x \in S \cup {x}
  OBVIOUS
<1>2. n \in Nat /\ DOMAIN s = 1..n
  OBVIOUS
<1>3. /\ Append(s, x) \in Seq(S \cup {x}) /\ Len(Append(s, x)) = n + 1
      /\ Append(s, x)[n + 1] = x
      /\ \A i \in 1..n : Append(s, x)[i] = s[i]
  BY <1>1
<1>4. PICK t \in Seq(S \cup {x}) : t = Append(s, x)
  BY <1>3
<1>5. Len(t) = n + 1
  BY <1>3, <1>4
<1>6. DOMAIN t = 1..(n + 1) /\ t = [i \in 1..(n + 1) |-> t[i]]
  BY <1>5
<1>7. QED
  BY <1>2, <1>3, <1>4, <1>6

\* A document says words.
LEMMA SaidType == ASSUME NEW d \in DocumentSet PROVE SaidBy(d) \in Seq(Said)
<1>1. d.id \in Int /\ d.words \in Seq(WordSet)
  BY DEF DocumentSet
<1>2. PICK n \in Nat : DOMAIN d.words = 1..n
  BY <1>1
<1>3. \A k \in 1..n : d.words[k] \in WordSet
  BY <1>1, <1>2, ElementOf
<1>4. \A k \in 1..n : <<d.id, d.words[k].keyword, d.words[k].token_count>> \in Said
  BY <1>1, <1>3 DEF Said, WordSet
<1>5. SaidBy(d) = [k \in 1..n |-> <<d.id, d.words[k].keyword, d.words[k].token_count>>]
  BY <1>2 DEF SaidBy
<1>6. QED
  BY <1>4, <1>5

\* What is said by a document more, and by a word more in the last one.
LEMMA SaidAppend ==
  ASSUME NEW documents \in Seq(DocumentSet), NEW document \in DocumentSet
  PROVE  /\ SaidByAll(documents) \in Seq(Said)
         /\ SaidByAll(Append(documents, document)) = SaidByAll(documents) \o SaidBy(document)
<1> DEFINE said == [d \in DOMAIN documents |-> SaidBy(documents[d])]
<1>1. \A d \in DocumentSet : SaidBy(d) \in Seq(Said)
  BY SaidType
<1>2. said \in Seq(Seq(Said))
  <2>1. PICK n \in Nat : DOMAIN documents = 1..n
    OBVIOUS
  <2>2. \A d \in 1..n : SaidBy(documents[d]) \in Seq(Said)
    BY <1>1, <2>1
  <2>3. said = [d \in 1..n |-> SaidBy(documents[d])]
    BY <2>1
  <2>4. QED
    BY <2>2, <2>3
<1>3. SaidByAll(documents) \in Seq(Said)
  BY <1>2, FlatType DEF SaidByAll
<1>4. [d \in DOMAIN Append(documents, document) |-> SaidBy(Append(documents, document)[d])]
        = Append(said, SaidBy(document))
  <2>1. PICK n \in Nat : n = Len(documents) /\ DOMAIN documents = 1..n
    OBVIOUS
  <2>2. PICK more : more = Append(documents, document)
    OBVIOUS
  <2>3. /\ DOMAIN more = 1..(n + 1) /\ more[n + 1] = document
        /\ \A d \in 1..n : more[d] = documents[d]
    BY <2>1, <2>2
  <2>4. said = [d \in 1..n |-> SaidBy(documents[d])]
    BY <2>1
  <2>5. PICK old \in Seq(Seq(Said)) : old = said
    BY <1>2
  <2>6. Len(old) = n /\ \A d \in 1..n : old[d] = SaidBy(documents[d])
    BY <2>4, <2>5
  <2>7. PICK new : new = [d \in DOMAIN more |-> SaidBy(more[d])]
    OBVIOUS
  <2>8. DOMAIN new = 1..(n + 1) /\ \A d \in 1..(n + 1) : new[d] = SaidBy(more[d])
    BY <2>3, <2>7
  <2>9. /\ DOMAIN Append(old, SaidBy(document)) = 1..(n + 1)
        /\ Append(old, SaidBy(document))[n + 1] = SaidBy(document)
        /\ \A d \in 1..n : Append(old, SaidBy(document))[d] = old[d]
    BY <2>6
  <2>10. \A d \in 1..(n + 1) : new[d] = Append(old, SaidBy(document))[d]
    <3>1. \A d \in 1..(n + 1) : d \in 1..n \/ d = n + 1
      OBVIOUS
    <3>2. ASSUME NEW d \in 1..(n + 1) PROVE new[d] = Append(old, SaidBy(document))[d]
      <4>1. CASE d \in 1..n
        BY <2>3, <2>6, <2>8, <2>9, <4>1
      <4>2. CASE d = n + 1
        BY <2>3, <2>8, <2>9, <4>2
      <4>3. QED
        BY <3>1, <4>1, <4>2
    <3>3. QED
      BY <3>2
  <2>11. new = [d \in 1..(n + 1) |-> new[d]]
    BY <2>7, <2>8
  <2>12. Append(old, SaidBy(document)) = [d \in 1..(n + 1) |-> Append(old, SaidBy(document))[d]]
    BY <2>5, <2>6, AppendIs
  <2>13. new = Append(old, SaidBy(document))
    BY <2>10, <2>11, <2>12
  <2>14. QED
    BY <2>2, <2>5, <2>7, <2>13
<1>5. QED
  <2> HIDE DEF said
  <2>1. FlattenSeq(Append(said, SaidBy(document))) = FlattenSeq(said) \o SaidBy(document)
    BY <1>1, <1>2, FlatAppend
  <2>2. SaidByAll(Append(documents, document)) = FlattenSeq(Append(said, SaidBy(document)))
    BY <1>4 DEF SaidByAll
  <2>3. SaidByAll(documents) = FlattenSeq(said)
    BY DEF SaidByAll, said
  <2>4. QED
    BY <1>3, <2>1, <2>2, <2>3

LEMMA SaidLast ==
  ASSUME NEW documents \in Seq(DocumentSet), documents # <<>>, NEW word \in WordSet,
         NEW last, last = documents[Len(documents)],
         NEW longer,
         longer = [documents EXCEPT ![Len(documents)] =
                     [id |-> last.id, words |-> Append(last.words, word)]]
  PROVE  SaidByAll(longer) =
           Append(SaidByAll(documents), <<last.id, word.keyword, word.token_count>>)
<1>1. PICK n \in Nat : n = Len(documents) /\ DOMAIN documents = 1..n /\ n \in 1..n
  OBVIOUS
<1>2. /\ last = documents[n] /\ last \in DocumentSet
      /\ DOMAIN longer = 1..n
      /\ longer[n] = [id |-> last.id, words |-> Append(last.words, word)]
      /\ \A d \in 1..n : d # n => longer[d] = documents[d]
  <2>1. last = documents[n] /\ last \in DocumentSet
    BY <1>1, ElementOf
  <2>2. PICK new : new = [id |-> last.id, words |-> Append(last.words, word)]
    OBVIOUS
  <2>3. longer = [documents EXCEPT ![n] = new]
    BY <1>1, <2>2
  <2>4. DOMAIN longer = 1..n /\ longer[n] = new /\ \A d \in 1..n : d # n => longer[d] = documents[d]
    BY <1>1, <2>3
  <2>5. QED
    BY <2>1, <2>2, <2>4
<1>3. last.id \in Int /\ last.words \in Seq(WordSet)
  BY <1>2 DEF DocumentSet
<1>4. PICK triple : triple = <<last.id, word.keyword, word.token_count>>
  OBVIOUS
<1>5. triple \in Said
  BY <1>3, <1>4 DEF Said, WordSet
<1>6. SaidBy(longer[n]) = Append(SaidBy(last), triple) /\ SaidBy(last) \in Seq(Said)
  <2>1. PICK m \in Nat : m = Len(last.words) /\ DOMAIN last.words = 1..m
    BY <1>3, LenDomain
  <2>2. PICK words : words = Append(last.words, word)
    OBVIOUS
  <2>3. /\ DOMAIN words = 1..(m + 1) /\ words[m + 1] = word
        /\ \A k \in 1..m : words[k] = last.words[k]
    BY <1>3, <2>1, <2>2
  <2>4. longer[n].id = last.id /\ longer[n].words = words
    BY <1>2, <2>2
  <2>5. PICK new : new = SaidBy(longer[n])
    OBVIOUS
  <2>6. /\ DOMAIN new = 1..(m + 1)
        /\ \A k \in 1..(m + 1) : new[k] = <<last.id, words[k].keyword, words[k].token_count>>
        /\ new = [k \in 1..(m + 1) |-> new[k]]
    BY <2>3, <2>4, <2>5 DEF SaidBy
  <2>7. PICK old : old = SaidBy(last)
    OBVIOUS
  <2>8. old = [k \in 1..m |-> <<last.id, last.words[k].keyword, last.words[k].token_count>>]
    BY <2>1, <2>7 DEF SaidBy
  <2>9. \A k \in 1..m : <<last.id, last.words[k].keyword, last.words[k].token_count>> \in Said
    <3>1. \A k \in 1..m : last.words[k] \in WordSet
      BY <1>3, <2>1, ElementOf
    <3>2. QED
      BY <1>3, <3>1 DEF Said, WordSet
  <2>10. old \in Seq(Said) /\ Len(old) = m
         /\ \A k \in 1..m : old[k] = <<last.id, last.words[k].keyword, last.words[k].token_count>>
    <3>1. /\ old = [k \in 1..m |-> old[k]]
          /\ \A k \in 1..m : old[k] = <<last.id, last.words[k].keyword, last.words[k].token_count>>
      BY <2>8, Zenon
    <3>2. \A k \in 1..m : old[k] \in Said
      BY <2>9, <3>1
    <3>3. QED
      BY <3>1, <3>2, SeqMade
  <2>11. /\ Append(old, triple) = [k \in 1..(m + 1) |-> Append(old, triple)[k]]
         /\ Append(old, triple)[m + 1] = triple
         /\ \A k \in 1..m : Append(old, triple)[k] = old[k]
    BY <2>10, AppendIs
  <2>12. ASSUME NEW k \in 1..(m + 1) PROVE new[k] = Append(old, triple)[k]
    <3>1. CASE k \in 1..m
      <4>1. words[k] = last.words[k]
        BY <2>3, <3>1
      <4>2. new[k] = <<last.id, last.words[k].keyword, last.words[k].token_count>>
        BY <2>6, <4>1
      <4>3. QED
        BY <2>10, <2>11, <3>1, <4>2
    <3>2. CASE k = m + 1
      <4>1. new[k] = triple
        BY <1>4, <2>3, <2>6, <3>2
      <4>2. QED
        BY <2>11, <3>2, <4>1
    <3>3. k \in 1..m \/ k = m + 1
      OBVIOUS
    <3>4. QED
      BY <3>1, <3>2, <3>3
  <2>13. new = Append(old, triple)
    BY <2>6, <2>11, <2>12
  <2>14. QED
    BY <2>5, <2>7, <2>10, <2>13
<1>7. PICK said : said = [d \in DOMAIN documents |-> SaidBy(documents[d])]
  OBVIOUS
<1>8. said \in Seq(Seq(Said)) /\ Len(said) = n /\ said[n] = SaidBy(last)
  <2>1. \A d \in 1..n : SaidBy(documents[d]) \in Seq(Said)
    <3>1. ASSUME NEW d \in 1..n PROVE SaidBy(documents[d]) \in Seq(Said)
      <4>1. documents[d] \in DocumentSet
        BY <1>1
      <4>2. QED
        BY <4>1, SaidType
    <3>2. QED
      BY <3>1
  <2>2. said = [d \in 1..n |-> SaidBy(documents[d])]
    BY <1>1, <1>7
  <2>3. QED
    BY <1>1, <1>2, <2>1, <2>2
<1>9. [d \in DOMAIN longer |-> SaidBy(longer[d])] = [said EXCEPT ![n] = Append(said[n], triple)]
  <2>1. PICK new : new = [d \in DOMAIN longer |-> SaidBy(longer[d])]
    OBVIOUS
  <2>2. new = [d \in 1..n |-> SaidBy(longer[d])]
    BY <1>2, <2>1
  <2>3. \A d \in 1..n : d # n => SaidBy(longer[d]) = said[d]
    BY <1>1, <1>2, <1>7
  <2>4. SaidBy(longer[n]) = Append(said[n], triple)
    BY <1>6, <1>8
  <2>5. DOMAIN said = 1..n
    BY <1>1, <1>7
  <2>6. PICK longest : longest = Append(said[n], triple)
    OBVIOUS
  <2>7. new = [said EXCEPT ![n] = longest]
    BY <1>1, <2>2, <2>3, <2>4, <2>5, <2>6
  <2>8. QED
    BY <2>1, <2>6, <2>7
<1>10. said # <<>>
  BY <1>1, <1>8
<1>11. FlattenSeq([said EXCEPT ![n] = Append(said[n], triple)]) = Append(FlattenSeq(said), triple)
  BY <1>5, <1>8, <1>10, FlatLast
<1>12. QED
  BY <1>4, <1>7, <1>9, <1>11 DEF SaidByAll

\* The words of an item as a reader of the batch sees them.
WordIs(b, o) ==
  [keyword |-> b.token[o.token_id], class_id |-> DefaultClass, token_count |-> o.token_count]
WordsOf(b, i) == [k \in DOMAIN b.item[i].field |-> WordIs(b, b.item[i].field[k])]

LEMMA AppendTyped ==
  ASSUME NEW S, NEW s \in Seq(S), NEW x \in S
  PROVE  Append(s, x) \in Seq(S) /\ Len(Append(s, x)) = Len(s) + 1
OBVIOUS

LEMMA BatchTypes ==
  ASSUME NEW b \in Batch, NEW i \in DOMAIN b.item, NEW k \in DOMAIN b.item[i].field
  PROVE  /\ b.token \in Seq(Keyword) /\ b.item \in Seq(Item)
         /\ b.item[i].id \in Int /\ b.item[i].field \in Seq(Occurrence)
         /\ b.item[i].field[k].token_id \in Int /\ b.item[i].field[k].token_count \in Int
<1>1. b.token \in Seq(Keyword) /\ b.item \in Seq(Item)
  BY DEF Batch
<1>2. b.item[i] \in Item
  BY <1>1, ElementOf
<1>3. b.item[i].id \in Int /\ b.item[i].field \in Seq(Occurrence)
  BY <1>2 DEF Item
<1>4. b.item[i].field[k] \in Occurrence
  BY <1>3, ElementOf
<1>5. QED
  BY <1>1, <1>3, <1>4 DEF Occurrence

LEMMA DocumentsIs ==
  ASSUME NEW b \in Batch, RefersOK(b)
  PROVE  /\ b.item \in Seq(Item) /\ b.token \in Seq(Keyword)
         /\ Documents(b) = [i \in DOMAIN b.item |-> [id |-> b.item[i].id, words |-> WordsOf(b, i)]]
         /\ \A i \in DOMAIN b.item : WordsOf(b, i) \in Seq(WordSet) /\ b.item[i].id \in Int
         /\ Documents(b) \in Seq(DocumentSet) /\ Len(Documents(b)) = Len(b.item)
<1>1. b.token \in Seq(Keyword) /\ b.item \in Seq(Item)
  BY DEF Batch
<1>2. ASSUME NEW i \in DOMAIN b.item, NEW k \in DOMAIN b.item[i].field
      PROVE  /\ Word(b, b.item[i].field[k]) = WordIs(b, b.item[i].field[k])
             /\ WordIs(b, b.item[i].field[k]) \in WordSet
  <2>1. b.item[i].field[k].token_id \in DOMAIN b.token
    BY DEF RefersOK
  <2>2. PICK id \in DOMAIN b.token : id = b.item[i].field[k].token_id
    BY <2>1
  <2>3. b.token # <<>> /\ b.class_id = <<>> /\ Len(b.token) # 0
    BY <1>1, <2>2 DEF RefersOK
  <2>4. Len(b.class_id) # Len(b.token)
    BY <2>3
  <2>5. PopulateClassId(b) = [b EXCEPT !.class_id = [x \in DOMAIN b.token |-> DefaultClass]]
    BY <2>4 DEF PopulateClassId
  <2>6. PopulateClassId(b).class_id = [x \in DOMAIN b.token |-> DefaultClass]
    BY <2>5 DEF Batch
  <2>7. PopulateClassId(b).class_id[id] = DefaultClass
    BY <2>6
  <2>8. b.token[id] \in Keyword /\ b.item[i].field[k].token_count \in Int
    BY <1>1, BatchTypes, ElementOf
  <2>9. WordIs(b, b.item[i].field[k]) \in WordSet
    BY <2>2, <2>8, BatchAssumption DEF WordIs, WordSet
  <2>10. QED
    BY <2>2, <2>7, <2>9 DEF Word, WordIs
<1>3. Documents(b) = [i \in DOMAIN b.item |-> [id |-> b.item[i].id, words |-> WordsOf(b, i)]]
  <2>1. ASSUME NEW i \in DOMAIN b.item
        PROVE  [k \in DOMAIN b.item[i].field |-> Word(b, b.item[i].field[k])] = WordsOf(b, i)
    BY <1>2 DEF WordsOf
  <2>2. QED
    BY <2>1 DEF Documents
<1>4. ASSUME NEW i \in DOMAIN b.item PROVE WordsOf(b, i) \in Seq(WordSet) /\ b.item[i].id \in Int
  <2>1. b.item[i] \in Item
    BY <1>1, ElementOf
  <2>2. b.item[i].id \in Int /\ b.item[i].field \in Seq(Occurrence)
    BY <2>1 DEF Item
  <2>3. PICK n \in Nat : DOMAIN b.item[i].field = 1..n
    BY <2>2
  <2>4. WordsOf(b, i) = [k \in 1..n |-> WordsOf(b, i)[k]] /\ \A k \in 1..n : WordsOf(b, i)[k] \in WordSet
    BY <1>2, <2>3 DEF WordsOf
  <2>5. WordsOf(b, i) \in Seq(WordSet)
    BY <2>4, SeqMade
  <2>6. QED
    BY <2>2, <2>5
<1>5. Documents(b) \in Seq(DocumentSet) /\ Len(Documents(b)) = Len(b.item)
  <2>1. PICK n \in Nat : n = Len(b.item) /\ DOMAIN b.item = 1..n
    BY <1>1
  <2>2. \A i \in 1..n : [id |-> b.item[i].id, words |-> WordsOf(b, i)] \in DocumentSet
    BY <1>4, <2>1 DEF DocumentSet
  <2>3. Documents(b) = [i \in 1..n |-> [id |-> b.item[i].id, words |-> WordsOf(b, i)]]
    BY <1>3, <2>1
  <2>4. Documents(b) = [i \in 1..n |-> Documents(b)[i]] /\ \A i \in 1..n : Documents(b)[i] \in DocumentSet
    BY <2>2, <2>3
  <2>5. QED
    BY <2>1, <2>4, SeqMade
<1>6. QED
  BY <1>1, <1>3, <1>4, <1>5

\* Every occurrence names a token of the batch.
LEMMA IdsAreValid ==
  ASSUME NEW b \in Batch, Refers(b)
  PROVE  HasValidIds(b)
<1> DEFINE ids == [i \in DOMAIN b.item |-> [k \in DOMAIN b.item[i].field |-> b.item[i].field[k].token_id]]
<1>1. b.item \in Seq(Item)
  BY DEF Batch
<1>2. PICK n \in Nat : DOMAIN b.item = 1..n
  BY <1>1
<1>3. ASSUME NEW i \in 1..n PROVE ids[i] \in Seq(DOMAIN b.token)
  <2>1. b.item[i] \in Item
    BY <1>1, <1>2, ElementOf
  <2>2. b.item[i].field \in Seq(Occurrence)
    BY <2>1 DEF Item
  <2>3. PICK m \in Nat : DOMAIN b.item[i].field = 1..m
    BY <2>2
  <2>4. \A k \in 1..m : b.item[i].field[k].token_id \in DOMAIN b.token
    BY <1>2, <2>3 DEF Refers
  <2>5. PICK f : f = ids[i]
    OBVIOUS
  <2>6. f = [k \in 1..m |-> b.item[i].field[k].token_id]
    BY <1>2, <2>3, <2>5
  <2>7. f = [k \in 1..m |-> f[k]] /\ \A k \in 1..m : f[k] \in DOMAIN b.token
    BY <2>4, <2>6
  <2>8. f \in Seq(DOMAIN b.token)
    BY <2>3, <2>7, SeqMade, Zenon
  <2>9. QED
    BY <2>5, <2>8
<1>4. ids = [i \in 1..n |-> ids[i]]
  BY <1>2
<1> HIDE DEF ids
<1>5. ids \in Seq(Seq(DOMAIN b.token))
  BY <1>3, <1>4, SeqMade
<1>6. FlattenSeq(ids) \in Seq(DOMAIN b.token)
  BY <1>5, FlatType
<1>7. TokenIds(b) \in Seq(DOMAIN b.token)
  BY <1>6 DEF TokenIds, ids
<1>8. QED
  BY <1>7, ElementOf DEF HasValidIds, ToSet

\* A token more changes no document.
LEMMA TokenKeeps ==
  ASSUME NEW b \in Batch, RefersOK(b), NEW ids, NEW token \in Token
  PROVE  LET more == WithToken(b, ids, token)
         IN RefersOK(more) /\ more \in Batch /\ Documents(more) = Documents(b) /\ more.item = b.item
<1>1. CASE token \in DOMAIN ids
  BY <1>1 DEF WithToken
<1>2. CASE token \notin DOMAIN ids
  <2>0. b.token \in Seq(Keyword) /\ b.item \in Seq(Item) /\ b.class_id \in Seq(ClassId)
    BY DEF Batch
  <2>01. Vocab[token] \in Keyword
    BY ParserAssumption DEF Token
  <2>1. PICK tokens \in Seq(Keyword) : tokens = Append(b.token, Vocab[token])
    <3>1. Append(b.token, Vocab[token]) \in Seq(Keyword)
      BY <2>0, <2>01, AppendTyped
    <3>2. QED
      BY <3>1
  <2>2. PICK more : more = [token |-> tokens, class_id |-> b.class_id, item |-> b.item]
    OBVIOUS
  <2>3. more = WithToken(b, ids, token)
    BY <1>2, <2>1, <2>2 DEF WithToken
  <2>4. more.token = tokens /\ more.class_id = b.class_id /\ more.item = b.item /\ more \in Batch
    BY <2>0, <2>1, <2>2 DEF Batch
  <2>5. \A id \in DOMAIN b.token : id \in DOMAIN tokens /\ tokens[id] = b.token[id]
    BY <2>0, <2>1
  <2>6. RefersOK(more)
    BY <2>4, <2>5 DEF RefersOK
  <2>7. ASSUME NEW i \in DOMAIN b.item PROVE WordsOf(more, i) = WordsOf(b, i)
    <3>1. \A k \in DOMAIN b.item[i].field :
            tokens[b.item[i].field[k].token_id] = b.token[b.item[i].field[k].token_id]
      BY <2>5 DEF RefersOK
    <3>2. QED
      BY <2>4, <3>1 DEF WordsOf, WordIs
  <2>8. Documents(more) = Documents(b)
    BY <2>4, <2>6, <2>7, DocumentsIs
  <2>9. QED
    BY <2>3, <2>4, <2>6, <2>8
<1>3. QED
  BY <1>1, <1>2

\* The documents with a word more in the last one.
WithWord(documents, n, word) ==
  [documents EXCEPT ![n] = [id |-> documents[n].id, words |-> Append(documents[n].words, word)]]
WordFor(b, id, count) ==
  [keyword |-> b.token[id], class_id |-> DefaultClass, token_count |-> count]

\* An occurrence more is a word more in the last document.
LEMMA OccurrenceSays ==
  ASSUME NEW b \in Batch, RefersOK(b), b.item # <<>>,
         NEW id \in DOMAIN b.token, NEW count \in Int, NEW n, n = Len(b.item),
         NEW more, more = WithOccurrence(b, id, count)
  PROVE  /\ RefersOK(more) /\ more \in Batch /\ n \in DOMAIN b.item
         /\ Documents(more) = WithWord(Documents(b), n, WordFor(b, id, count))
         /\ WordFor(b, id, count) \in WordSet
<1>1. /\ b.token \in Seq(Keyword) /\ b.item \in Seq(Item) /\ b.class_id \in Seq(ClassId)
      /\ n \in Nat /\ DOMAIN b.item = 1..n /\ n \in 1..n
  BY DEF Batch
<1>2. PICK o : o = [token_id |-> id, token_count |-> count]
  OBVIOUS
<1>3. o \in Occurrence /\ o.token_id = id /\ o.token_count = count
  BY <1>1, <1>2 DEF Occurrence
<1>4. b.item[n] \in Item
  BY <1>1, ElementOf
<1>5. b.item[n].id \in Int /\ b.item[n].field \in Seq(Occurrence)
  BY <1>4 DEF Item
<1>6. PICK m : m = Len(b.item[n].field)
  OBVIOUS
<1>7. PICK field \in Seq(Occurrence) : field = Append(b.item[n].field, o)
  <2>1. Append(b.item[n].field, o) \in Seq(Occurrence)
    BY <1>3, <1>5, AppendTyped
  <2>2. QED
    BY <2>1
<1>8. /\ m \in Nat /\ DOMAIN b.item[n].field = 1..m /\ DOMAIN field = 1..(m + 1)
      /\ field[m + 1] = o /\ \A k \in 1..m : field[k] = b.item[n].field[k]
  BY <1>5, <1>6, <1>7, AppendIs
<1>9. PICK item \in Item : item = [id |-> b.item[n].id, field |-> field]
  BY <1>5, <1>7 DEF Item
<1>10. PICK items : items = [b.item EXCEPT ![n] = item]
  OBVIOUS
<1>11. /\ items \in Seq(Item) /\ DOMAIN items = 1..n /\ Len(items) = n /\ items[n] = item
       /\ \A i \in 1..n : i # n => items[i] = b.item[i]
  BY <1>1, <1>9, <1>10
<1>12. more = [token |-> b.token, class_id |-> b.class_id, item |-> items]
  <2>1. items = [b.item EXCEPT ![n] = [id |-> @.id, field |-> Append(@.field, o)]]
    BY <1>7, <1>9, <1>10, Zenon
  <2>2. QED
    BY <1>2, <2>1, Zenon DEF WithOccurrence
<1>13. /\ more \in Batch /\ more.token = b.token /\ more.item = items /\ more.class_id = b.class_id
  BY <1>1, <1>11, <1>12 DEF Batch
<1>14. RefersOK(more)
  <2>1. more.class_id = <<>>
    BY <1>13 DEF RefersOK
  <2>2. ASSUME NEW i \in 1..n, NEW k \in DOMAIN items[i].field
        PROVE  items[i].field[k].token_id \in DOMAIN b.token
    <3>1. CASE i # n
      <4>1. items[i] = b.item[i]
        BY <1>11, <3>1
      <4>2. QED
        BY <1>1, <2>2, <4>1 DEF RefersOK
    <3>2. CASE i = n
      <4>1. items[i].field = field
        BY <1>9, <1>11, <3>2
      <4>2. k \in 1..m \/ k = m + 1
        BY <1>8, <2>2, <4>1
      <4>3. CASE k \in 1..m
        <5>1. field[k] = b.item[n].field[k] /\ k \in DOMAIN b.item[n].field
          BY <1>8, <4>3
        <5>2. QED
          BY <1>1, <4>1, <5>1 DEF RefersOK
      <4>4. CASE k = m + 1
        BY <1>3, <1>8, <4>1, <4>4
      <4>5. QED
        BY <4>2, <4>3, <4>4
    <3>3. QED
      BY <3>1, <3>2
  <2>3. QED
    BY <1>11, <1>13, <2>1, <2>2 DEF RefersOK
<1>15. PICK word : word = [keyword |-> b.token[id], class_id |-> DefaultClass, token_count |-> count]
  OBVIOUS
<1>16. WordsOf(more, n) = Append(WordsOf(b, n), word)
  <2>1. PICK old : old = WordsOf(b, n)
    OBVIOUS
  <2>2. old \in Seq(WordSet) /\ old = [k \in 1..m |-> WordIs(b, b.item[n].field[k])]
    BY <1>1, <1>8, <2>1, DocumentsIs DEF WordsOf
  <2>3. DOMAIN old = 1..m /\ Len(old) = m
    BY <1>8, <2>2
  <2>4. PICK appended : appended = Append(old, word)
    OBVIOUS
  <2>5. /\ appended = [k \in 1..(m + 1) |-> appended[k]] /\ appended[m + 1] = word
        /\ \A k \in 1..m : appended[k] = old[k]
    <3>1. m = Len(old) /\ old \in Seq(WordSet)
      BY <2>2, <2>3
    <3>2. /\ Append(old, word) = [k \in 1..(m + 1) |-> Append(old, word)[k]]
          /\ Append(old, word)[m + 1] = word
          /\ \A k \in 1..m : Append(old, word)[k] = old[k]
      BY <3>1, AppendIs
    <3>3. QED
      BY <2>4, <3>2, Zenon
  <2>6. WordsOf(more, n) = [k \in 1..(m + 1) |-> WordIs(more, field[k])]
    BY <1>8, <1>9, <1>11, <1>13 DEF WordsOf
  <2>7. \A x : WordIs(more, x) = WordIs(b, x)
    BY <1>13 DEF WordIs
  <2>8. WordIs(b, o) = word
    BY <1>3, <1>15 DEF WordIs
  <2>9. ASSUME NEW k \in 1..(m + 1) PROVE WordIs(more, field[k]) = appended[k]
    <3>1. CASE k \in 1..m
      <4>1. old[k] = WordIs(b, b.item[n].field[k])
        BY <2>2, <3>1
      <4>2. QED
        BY <1>8, <2>5, <2>7, <3>1, <4>1
    <3>2. CASE k = m + 1
      BY <1>8, <2>5, <2>7, <2>8, <3>2
    <3>3. k \in 1..m \/ k = m + 1
      BY <1>8
    <3>4. QED
      BY <3>1, <3>2, <3>3
  <2>10. [k \in 1..(m + 1) |-> WordIs(more, field[k])] = [k \in 1..(m + 1) |-> appended[k]]
    BY <2>9
  <2>11. QED
    BY <2>1, <2>4, <2>5, <2>6, <2>10, Zenon
<1>17. ASSUME NEW i \in 1..n, i # n PROVE WordsOf(more, i) = WordsOf(b, i)
  <2>1. more.item[i] = b.item[i]
    BY <1>11, <1>13, <1>17
  <2>2. QED
    BY <1>13, <2>1 DEF WordsOf, WordIs
<1>18. PICK document : document = [id |-> b.item[n].id, words |-> Append(WordsOf(b, n), word)]
  OBVIOUS
<1>19. Documents(more) = [Documents(b) EXCEPT ![n] = document]
  <2>1. Documents(more) = [i \in 1..n |-> [id |-> items[i].id, words |-> WordsOf(more, i)]]
    BY <1>11, <1>13, <1>14, DocumentsIs
  <2>2. Documents(b) = [i \in 1..n |-> [id |-> b.item[i].id, words |-> WordsOf(b, i)]]
    BY <1>1, DocumentsIs
  <2>3. [id |-> items[n].id, words |-> WordsOf(more, n)] = document
    BY <1>9, <1>11, <1>16, <1>18
  <2>4. \A i \in 1..n : i # n => [id |-> items[i].id, words |-> WordsOf(more, i)]
                                  = [id |-> b.item[i].id, words |-> WordsOf(b, i)]
    BY <1>11, <1>17
  <2>5. PICK old : old = Documents(b)
    OBVIOUS
  <2>6. PICK new : new = Documents(more)
    OBVIOUS
  <2>7. DOMAIN old = 1..n /\ DOMAIN new = 1..n /\ new = [i \in 1..n |-> new[i]] /\ new[n] = document
    BY <1>1, <2>1, <2>2, <2>3, <2>5, <2>6
  <2>8. \A i \in 1..n : i # n => new[i] = old[i]
    BY <2>1, <2>2, <2>4, <2>5, <2>6
  <2>9. new = [old EXCEPT ![n] = document]
    BY <1>1, <2>7, <2>8
  <2>10. QED
    BY <2>5, <2>6, <2>9
<1>20. /\ Documents(b)[n].id = b.item[n].id /\ Documents(b)[n].words = WordsOf(b, n)
  <2>1. Documents(b)[n] = [id |-> b.item[n].id, words |-> WordsOf(b, n)]
    BY <1>1, DocumentsIs
  <2>2. QED
    BY <2>1
<1>21. Documents(more) = WithWord(Documents(b), n, WordFor(b, id, count))
  BY <1>15, <1>18, <1>19, <1>20, Zenon DEF WithWord, WordFor
<1>22. WordFor(b, id, count) \in WordSet
  <2>1. b.token[id] \in Keyword
    BY <1>1, ElementOf
  <2>2. QED
    BY <2>1, BatchAssumption DEF WordFor, WordSet
<1>23. QED
  BY <1>1, <1>13, <1>14, <1>20, <1>21, <1>22, Zenon

\* Sequences one after the other.
LEMMA ConcatAppend ==
  ASSUME NEW S, NEW a \in Seq(S), NEW b \in Seq(S), NEW x \in S
  PROVE  /\ a \o Append(b, x) = Append(a \o b, x) /\ a \o <<x>> = Append(a, x)
         /\ a \o <<>> = a /\ <<>> \o a = a /\ a \o b \in Seq(S)
OBVIOUS

LEMMA ConcatIs ==
  ASSUME NEW S, NEW a \in Seq(S), NEW b \in Seq(S), NEW k, k = Len(a), NEW n, n = Len(b)
  PROVE  /\ a \o b \in Seq(S) /\ Len(a \o b) = k + n
         /\ \A i \in 1..(k + n) : (a \o b)[i] = IF i <= k THEN a[i] ELSE b[i - k]
OBVIOUS

LEMMA ConcatLast ==
  ASSUME NEW S, NEW a \in Seq(S), NEW b \in Seq(S), b # <<>>, NEW x \in S,
         NEW n, n = Len(b), NEW m, m = Len(a \o b)
  PROVE  a \o [b EXCEPT ![n] = x] = [a \o b EXCEPT ![m] = x] /\ (a \o b)[m] = b[n] /\ a \o b # <<>>
<1>1. PICK k : k = Len(a)
  OBVIOUS
<1>2. /\ k \in Nat /\ n \in Nat /\ m = k + n /\ n \in 1..n /\ m \in 1..m /\ DOMAIN a = 1..k
      /\ DOMAIN b = 1..n
  BY <1>1
<1>3. PICK c : c = [b EXCEPT ![n] = x]
  OBVIOUS
<1>4. c \in Seq(S) /\ Len(c) = n /\ c[n] = x /\ \A i \in 1..n : i # n => c[i] = b[i]
  BY <1>2, <1>3
<1>5. PICK left : left = a \o c
  OBVIOUS
<1>6. PICK both : both = a \o b
  OBVIOUS
<1>7. /\ left \in Seq(S) /\ Len(left) = m /\ both \in Seq(S) /\ Len(both) = m
      /\ \A i \in 1..m : left[i] = IF i <= k THEN a[i] ELSE c[i - k]
      /\ \A i \in 1..m : both[i] = IF i <= k THEN a[i] ELSE b[i - k]
  <2>1. n = Len(c)
    BY <1>4
  <2>2. left \in Seq(S) /\ Len(left) = k + n
        /\ \A i \in 1..(k + n) : left[i] = IF i <= k THEN a[i] ELSE c[i - k]
    BY <1>1, <1>4, <1>5, <2>1, ConcatIs
  <2>3. both \in Seq(S) /\ Len(both) = k + n
        /\ \A i \in 1..(k + n) : both[i] = IF i <= k THEN a[i] ELSE b[i - k]
    BY <1>1, <1>6, ConcatIs
  <2>4. QED
    BY <1>2, <2>2, <2>3, Zenon
<1>8. DOMAIN left = 1..m /\ DOMAIN both = 1..m /\ left = [i \in 1..m |-> left[i]]
  BY <1>2, <1>7
<1>9. left[m] = x /\ both[m] = b[n]
  BY <1>2, <1>4, <1>7
<1>10. ASSUME NEW i \in 1..m, i # m PROVE left[i] = both[i]
  <2>1. CASE i <= k
    BY <1>7, <2>1
  <2>2. CASE ~(i <= k)
    <3>1. i - k \in 1..n /\ i - k # n
      BY <1>2, <1>10, <2>2
    <3>2. c[i - k] = b[i - k]
      BY <1>4, <3>1
    <3>3. QED
      BY <1>7, <2>2, <3>2
  <2>3. QED
    BY <2>1, <2>2
<1>11. left = [both EXCEPT ![m] = x]
  BY <1>2, <1>8, <1>9, <1>10
<1>12. both # <<>>
  BY <1>2, <1>7
<1>13. QED
  BY <1>3, <1>5, <1>6, <1>9, <1>11, <1>12

\* The documents of the batches in the folder, and with one more.
LEMMA FolderSays ==
  ASSUME NEW batches \in Seq(Batch), \A i \in DOMAIN batches : RefersOK(batches[i])
  PROVE  /\ FolderDocuments(batches) \in Seq(DocumentSet)
         /\ \A b \in Batch : RefersOK(b) =>
              FolderDocuments(Append(batches, b)) = FolderDocuments(batches) \o Documents(b)
<1> DEFINE of == [i \in DOMAIN batches |-> Documents(batches[i])]
<1>1. PICK n \in Nat : n = Len(batches) /\ DOMAIN batches = 1..n
  OBVIOUS
<1>2. \A i \in 1..n : Documents(batches[i]) \in Seq(DocumentSet)
  <2>1. ASSUME NEW i \in 1..n PROVE Documents(batches[i]) \in Seq(DocumentSet)
    <3>1. batches[i] \in Batch /\ RefersOK(batches[i])
      BY <1>1, ElementOf
    <3>2. QED
      BY <3>1, DocumentsIs
  <2>2. QED
    BY <2>1
<1>3. of = [i \in 1..n |-> of[i]] /\ \A i \in 1..n : of[i] = Documents(batches[i])
  BY <1>1
<1> HIDE DEF of
<1>4. of \in Seq(Seq(DocumentSet)) /\ Len(of) = n
  BY <1>2, <1>3, SeqMade
<1>5. FlattenSeq(of) \in Seq(DocumentSet) /\ FolderDocuments(batches) = FlattenSeq(of)
  BY <1>4, FlatType DEF FolderDocuments, of
<1>6. ASSUME NEW b \in Batch, RefersOK(b)
      PROVE  FolderDocuments(Append(batches, b)) = FolderDocuments(batches) \o Documents(b)
  <2>1. PICK more : more = Append(batches, b)
    OBVIOUS
  <2>2. DOMAIN more = 1..(n + 1) /\ more[n + 1] = b /\ \A i \in 1..n : more[i] = batches[i]
    BY <1>1, <2>1
  <2>3. Documents(b) \in Seq(DocumentSet)
    BY <1>6, DocumentsIs
  <2>4. PICK appended : appended = Append(of, Documents(b))
    OBVIOUS
  <2>5. n = Len(of)
    BY <1>4
  <2>6. /\ appended = [i \in 1..(n + 1) |-> appended[i]] /\ appended[n + 1] = Documents(b)
        /\ \A i \in 1..n : appended[i] = of[i]
    BY <1>4, <2>4, <2>5, AppendIs
  <2>7. ASSUME NEW i \in 1..(n + 1) PROVE Documents(more[i]) = appended[i]
    <3>1. CASE i \in 1..n
      BY <1>3, <2>2, <2>6, <3>1
    <3>2. CASE i = n + 1
      BY <2>2, <2>6, <3>2
    <3>3. i \in 1..n \/ i = n + 1
      BY <1>1
    <3>4. QED
      BY <3>1, <3>2, <3>3
  <2>8. [i \in DOMAIN more |-> Documents(more[i])] = [i \in 1..(n + 1) |-> appended[i]]
    BY <2>2, <2>7
  <2>9. [i \in DOMAIN more |-> Documents(more[i])] = appended
    BY <2>6, <2>8, Zenon
  <2>10. FlattenSeq(appended) = FlattenSeq(of) \o Documents(b)
    BY <1>4, <2>3, <2>4, FlatAppend
  <2>11. QED
    BY <1>5, <2>1, <2>9, <2>10, Zenon DEF FolderDocuments
<1>7. QED
  BY <1>5, <1>6

\* The item that a line begins, in the last batch or the next one.
LEMMA NextSays ==
  ASSUME ParserInv, DocInv, pc = "lines", NEW item_id \in ItemId, NEW new \in BOOLEAN,
         NEW next, next = NextBatch(new, item_id), next \in Batch,
         NEW chosen, chosen = IF new /\ IsFull THEN Append(target_folder, batch) ELSE target_folder
  PROVE  /\ RefersOK(next) /\ chosen \in Seq(Batch)
         /\ \A i \in DOMAIN chosen : RefersOK(chosen[i])
         /\ AllDocuments \in Seq(DocumentSet)
         /\ FolderDocuments(chosen) \o Documents(next) =
              IF new THEN Append(AllDocuments, [id |-> item_id, words |-> <<>>]) ELSE AllDocuments
<1> DEFINE begun == IF new /\ IsFull THEN EmptyBatch ELSE batch
           item == [id |-> item_id, field |-> <<>>]
           document == [id |-> item_id, words |-> <<>>]
<1>1. batch \in Batch /\ target_folder \in Seq(Batch) /\ RefersOK(batch)
      /\ \A i \in DOMAIN target_folder : RefersOK(target_folder[i])
  BY DEF ParserInv, TypeOK, DocInv
<1>2. EmptyBatch \in Batch /\ RefersOK(EmptyBatch) /\ EmptyBatch.item = <<>>
  BY DEF EmptyBatch, Batch, RefersOK
<1>3. Documents(batch) \in Seq(DocumentSet) /\ FolderDocuments(target_folder) \in Seq(DocumentSet)
  BY <1>1, DocumentsIs, FolderSays
<1>4. AllDocuments = FolderDocuments(target_folder) \o Documents(batch)
  BY DEF AllDocuments, FolderDocuments
<1>5. AllDocuments \in Seq(DocumentSet)
  BY <1>3, <1>4
<1>6. chosen \in Seq(Batch) /\ \A i \in DOMAIN chosen : RefersOK(chosen[i])
  <2>1. CASE new /\ IsFull
    <3>1. PICK n : n = Len(target_folder)
      OBVIOUS
    <3>2. PICK more : more = Append(target_folder, batch)
      OBVIOUS
    <3>3. /\ n \in Nat /\ DOMAIN target_folder = 1..n /\ DOMAIN more = 1..(n + 1)
          /\ more[n + 1] = batch /\ \A i \in 1..n : more[i] = target_folder[i]
      BY <1>1, <3>1, <3>2, AppendIs
    <3>4. more \in Seq(Batch)
      BY <1>1, <3>2, AppendTyped
    <3>5. \A i \in 1..(n + 1) : i \in 1..n \/ i = n + 1
      BY <3>3
    <3>6. \A i \in DOMAIN more : RefersOK(more[i])
      BY <1>1, <3>3, <3>5
    <3>7. QED
      BY <2>1, <3>2, <3>4, <3>6
  <2>2. CASE ~(new /\ IsFull)
    BY <1>1, <2>2
  <2>3. QED
    BY <2>1, <2>2
<1>7. FolderDocuments(chosen) \o Documents(begun) = AllDocuments
  <2>1. CASE new /\ IsFull
    <3>1. Documents(EmptyBatch) = <<>>
      BY <1>2, DocumentsIs
    <3>2. FolderDocuments(chosen) = AllDocuments
      BY <1>1, <1>4, <2>1, FolderSays
    <3>3. QED
      BY <1>5, <2>1, <3>1, <3>2
  <2>2. CASE ~(new /\ IsFull)
    BY <1>4, <2>2
  <2>3. QED
    BY <2>1, <2>2
<1>8. CASE ~new
  <2>1. next = begun /\ begun = batch
    BY <1>8 DEF NextBatch
  <2>2. QED
    BY <1>1, <1>5, <1>6, <1>7, <1>8, <2>1
<1>9. CASE new
  <2>1. begun \in Batch /\ RefersOK(begun)
    BY <1>1, <1>2
  <2>2. next = [token |-> begun.token, class_id |-> begun.class_id, item |-> Append(begun.item, item)]
    BY <1>9 DEF NextBatch
  <2> HIDE DEF begun
  <2>3. PICK n : n = Len(begun.item)
    OBVIOUS
  <2>4. begun.item \in Seq(Item) /\ DOMAIN begun.item = 1..n /\ n \in Nat
    BY <2>1, <2>3 DEF Batch
  <2>5. PICK items : items = Append(begun.item, item)
    OBVIOUS
  <2>6. /\ DOMAIN items = 1..(n + 1) /\ items[n + 1] = item
        /\ \A i \in 1..n : items[i] = begun.item[i]
    BY <2>3, <2>4, <2>5, AppendIs
  <2>7. \A i \in 1..(n + 1) : i \in 1..n \/ i = n + 1
    BY <2>4
  <2>8. next.item = items /\ next.token = begun.token /\ next.class_id = begun.class_id
    BY <2>2, <2>5
  <2>9. RefersOK(next)
    <3>1. \A i \in 1..(n + 1) : \A k \in DOMAIN items[i].field :
            items[i].field[k].token_id \in DOMAIN begun.token
      <4>1. ASSUME NEW i \in 1..(n + 1), NEW k \in DOMAIN items[i].field
            PROVE  items[i].field[k].token_id \in DOMAIN begun.token
        <5>1. CASE i \in 1..n
          BY <2>1, <2>4, <2>6, <5>1 DEF RefersOK
        <5>2. CASE i = n + 1
          <6>1. DOMAIN items[i].field = {}
            BY <2>6, <5>2
          <6>2. QED
            BY <6>1
        <5>3. QED
          BY <2>7, <5>1, <5>2
      <4>2. QED
        BY <4>1
    <3>2. QED
      BY <2>1, <2>6, <2>8, <3>1 DEF RefersOK
  <2>10. Documents(next) = Append(Documents(begun), document)
    <3>1. Documents(next) = [i \in 1..(n + 1) |-> [id |-> items[i].id, words |-> WordsOf(next, i)]]
      BY <2>6, <2>8, <2>9, DocumentsIs
    <3>2. /\ Documents(begun) = [i \in 1..n |-> [id |-> begun.item[i].id, words |-> WordsOf(begun, i)]]
          /\ Documents(begun) \in Seq(DocumentSet) /\ Len(Documents(begun)) = n
      BY <2>1, <2>3, <2>4, DocumentsIs
    <3>3. PICK old \in Seq(DocumentSet) : old = Documents(begun)
      BY <3>2
    <3>4. PICK appended : appended = Append(old, document)
      OBVIOUS
    <3>5. n = Len(old)
      BY <3>2, <3>3
    <3>6. /\ appended = [i \in 1..(n + 1) |-> appended[i]] /\ appended[n + 1] = document
          /\ \A i \in 1..n : appended[i] = old[i]
      BY <3>4, <3>5, AppendIs
    <3>7. ASSUME NEW i \in 1..(n + 1)
          PROVE  [id |-> items[i].id, words |-> WordsOf(next, i)] = appended[i]
      <4>1. CASE i \in 1..n
        <5>1. WordsOf(next, i) = WordsOf(begun, i)
          BY <2>6, <2>8, <4>1 DEF WordsOf, WordIs
        <5>2. appended[i] = [id |-> begun.item[i].id, words |-> WordsOf(begun, i)]
          BY <3>2, <3>3, <3>6, <4>1
        <5>3. QED
          BY <2>6, <4>1, <5>1, <5>2
      <4>2. CASE i = n + 1
        <5>1. WordsOf(next, i) = <<>>
          BY <2>6, <2>8, <4>2 DEF WordsOf
        <5>2. items[i].id = item_id
          BY <2>6, <4>2
        <5>3. QED
          BY <3>6, <4>2, <5>1, <5>2
      <4>3. QED
        BY <2>7, <4>1, <4>2
    <3>8. Documents(next) = [i \in 1..(n + 1) |-> appended[i]]
      BY <3>1, <3>7
    <3>9. QED
      BY <3>3, <3>4, <3>6, <3>8, Zenon
  <2>11. document \in DocumentSet
    BY ParserAssumption DEF DocumentSet
  <2>12. Documents(begun) \in Seq(DocumentSet) /\ FolderDocuments(chosen) \in Seq(DocumentSet)
    BY <1>6, <2>1, DocumentsIs, FolderSays
  <2>13. FolderDocuments(chosen) \o Append(Documents(begun), document)
           = Append(FolderDocuments(chosen) \o Documents(begun), document)
    BY <2>11, <2>12, ConcatAppend
  <2>14. QED
    BY <1>5, <1>6, <1>7, <1>9, <2>9, <2>10, <2>13
<1>10. QED
  BY <1>8, <1>9

\* A document is begun, or a word is added to the last one: what is said, and that no
\* document follows one of the same id.
Begun(documents, more, id) ==
  /\ more \in Seq(DocumentSet) /\ more # <<>> /\ more[Len(more)].id = id
  /\ SaidByAll(more) = SaidByAll(documents) /\ Apart(more)

LEMMA DocumentBegun ==
  ASSUME NEW documents \in Seq(DocumentSet), NEW id \in Int, Apart(documents),
         documents # <<>> => documents[Len(documents)].id # id,
         NEW more, more = Append(documents, [id |-> id, words |-> <<>>])
  PROVE  Begun(documents, more, id)
<1> DEFINE document == [id |-> id, words |-> <<>>]
<1>1. document \in DocumentSet /\ document.id = id /\ document.words = <<>>
  BY DEF DocumentSet
<1> HIDE DEF document
<1>2. PICK n : n = Len(documents)
  OBVIOUS
<1>3. /\ n \in Nat /\ DOMAIN documents = 1..n /\ DOMAIN more = 1..(n + 1)
      /\ more[n + 1] = document /\ \A i \in 1..n : more[i] = documents[i]
  BY <1>2, AppendIs DEF document
<1>4. more = Append(documents, document)
  BY DEF document
<1>5. more \in Seq(DocumentSet) /\ Len(more) = n + 1
  BY <1>1, <1>2, <1>4, AppendTyped
<1>6. SaidBy(document) = <<>>
  BY <1>1 DEF SaidBy
<1>7. SaidByAll(more) = SaidByAll(documents) \o <<>> /\ SaidByAll(documents) \in Seq(Said)
  BY <1>1, <1>4, <1>6, SaidAppend
<1>8. SaidByAll(more) = SaidByAll(documents)
  BY <1>7
<1>9. Apart(more)
  <2>1. ASSUME NEW d \in 2..(n + 1) PROVE more[d].id # more[d - 1].id
    <3>1. CASE d = n + 1
      <4>1. n # 0 /\ d - 1 = n /\ n \in 1..n
        BY <1>3, <3>1
      <4>2. documents # <<>>
        BY <1>2, <4>1
      <4>3. documents[n].id # id
        BY <1>2, <4>2
      <4>4. more[d].id = id /\ more[d - 1] = documents[n]
        BY <1>1, <1>3, <3>1, <4>1
      <4>5. QED
        BY <4>3, <4>4
    <3>2. CASE d # n + 1
      <4>1. d \in 2..n /\ d \in 1..n /\ d - 1 \in 1..n
        BY <1>3, <3>2
      <4>2. documents[d].id # documents[d - 1].id
        BY <1>2, <4>1 DEF Apart
      <4>3. QED
        BY <1>3, <4>1, <4>2
    <3>3. QED
      BY <3>1, <3>2
  <2>2. QED
    BY <1>5, <2>1 DEF Apart
<1>10. more # <<>> /\ more[Len(more)].id = id
  BY <1>1, <1>3, <1>5
<1>11. QED
  BY <1>5, <1>8, <1>9, <1>10 DEF Begun

LEMMA WordAdded ==
  ASSUME NEW documents \in Seq(DocumentSet), documents # <<>>, NEW word \in WordSet, Apart(documents),
         NEW n, n = Len(documents), NEW longer, longer = WithWord(documents, n, word)
  PROVE  /\ SaidByAll(longer) = Append(SaidByAll(documents),
                                       <<documents[n].id, word.keyword, word.token_count>>)
         /\ Apart(longer) /\ longer # <<>> /\ longer[Len(longer)].id = documents[n].id
<1>1. SaidByAll(longer) = Append(SaidByAll(documents),
                                 <<documents[n].id, word.keyword, word.token_count>>)
  BY SaidLast DEF WithWord
<1>2. n \in Nat /\ DOMAIN documents = 1..n /\ n \in 1..n
  OBVIOUS
<1>3. PICK last : last = [id |-> documents[n].id, words |-> Append(documents[n].words, word)]
  OBVIOUS
<1>4. /\ longer = [documents EXCEPT ![n] = last] /\ last.id = documents[n].id
  BY <1>3 DEF WithWord
<1>5. /\ Len(longer) = n /\ DOMAIN longer = 1..n
      /\ \A i \in 1..n : longer[i].id = documents[i].id
  BY <1>2, <1>4
<1>6. Apart(longer)
  <2>1. \A d \in 2..n : d \in 1..n /\ d - 1 \in 1..n
    BY <1>2
  <2>2. QED
    BY <1>5, <2>1 DEF Apart
<1>7. longer # <<>> /\ longer[Len(longer)].id = documents[n].id
  BY <1>2, <1>5
<1>8. QED
  BY <1>1, <1>6, <1>7, Zenon

EachSaid == [d \in DOMAIN AllDocuments |-> SaidBy(AllDocuments[d])]

LEMMA DocumentsLine ==
  ASSUME ParserInv, DocInv, NEW item_id \in ItemId, NEW token_id \in LineTokenId,
         NEW token_count \in LineTokenCount, ParsedLine(item_id, token_id, token_count)
  PROVE  DocInv'
<1> DEFINE new_item == item_id # prev_item_id
           line == [item_id |-> item_id, token_id |-> token_id, token_count |-> token_count]
<1>1. /\ pc = "lines" /\ pc' = "lines" /\ token_id \in Token /\ prev_item_id' = item_id
      /\ docword' = Append(docword, line)
  BY DEF ParsedLine
<1>2. item_id \in Int /\ token_count \in Int /\ item_id # -1 /\ Vocab[token_id] \in Keyword
  BY <1>1, ParserAssumption DEF Token
<1>3. PICK new \in BOOLEAN : new <=> new_item
  OBVIOUS
<1>4. PICK ids : ids = NextIds(new)
  OBVIOUS
<1>5. PICK next : next = NextBatch(new, item_id)
  OBVIOUS
<1>6. /\ next \in Batch /\ next.item # <<>> /\ DictionaryOK(ids, next.token)
  <2>1. new = new_item
    BY <1>3
  <2>2. QED
    BY <1>1, <1>4, <1>5, <2>1, NextBatchOK
<1>7. PICK chosen : chosen = IF new /\ IsFull THEN Append(target_folder, batch) ELSE target_folder
  OBVIOUS
<1>8. /\ RefersOK(next) /\ chosen \in Seq(Batch) /\ \A i \in DOMAIN chosen : RefersOK(chosen[i])
      /\ AllDocuments \in Seq(DocumentSet)
      /\ FolderDocuments(chosen) \o Documents(next) =
           IF new THEN Append(AllDocuments, [id |-> item_id, words |-> <<>>]) ELSE AllDocuments
  BY <1>1, <1>5, <1>6, <1>7, NextSays
<1>9. PICK begun : begun = WithToken(next, ids, token_id)
  OBVIOUS
<1>10. /\ RefersOK(begun) /\ begun \in Batch /\ begun.item = next.item
       /\ Documents(begun) = Documents(next)
  BY <1>1, <1>6, <1>8, <1>9, TokenKeeps
<1>11. PICK id : id = Numbered(ids, token_id)[token_id]
  OBVIOUS
<1>12. id \in DOMAIN begun.token /\ begun.token[id] = Vocab[token_id]
  <2>1. next.token \in Seq(Keyword)
    BY <1>6 DEF Batch
  <2>2. PICK tokens : tokens = IF token_id \in DOMAIN ids THEN next.token
                               ELSE Append(next.token, Vocab[token_id])
    OBVIOUS
  <2>3. /\ DictionaryOK(Numbered(ids, token_id), tokens) /\ tokens \in Seq(Keyword)
        /\ token_id \in DOMAIN Numbered(ids, token_id)
    BY <1>1, <1>6, <2>1, <2>2, NumberedOK
  <2>4. begun.token = tokens
    BY <1>6, <1>9, <2>2 DEF WithToken, Batch
  <2>5. id \in 1..Len(tokens) /\ tokens[id] = Vocab[token_id]
    BY <1>11, <2>3 DEF DictionaryOK
  <2>6. QED
    BY <2>3, <2>4, <2>5
<1>13. target_folder' = chosen /\ batch' = WithOccurrence(begun, id, token_count)
  <2>1. new = new_item
    BY <1>3
  <2>2. QED
    BY <1>4, <1>5, <1>7, <1>9, <1>11, <2>1 DEF ParsedLine
<1>14. PICK k : k = Len(begun.item)
  OBVIOUS
<1>15. PICK word : word = WordFor(begun, id, token_count)
  OBVIOUS
<1>16. word.keyword = Vocab[token_id] /\ word.token_count = token_count
  BY <1>12, <1>15 DEF WordFor
<1>17. PICK filled : filled = WithOccurrence(begun, id, token_count)
  OBVIOUS
<1>18. PICK own : own = Documents(begun)
  OBVIOUS
<1>19. /\ RefersOK(filled) /\ filled \in Batch /\ k \in DOMAIN begun.item
       /\ Documents(filled) = WithWord(own, k, word) /\ word \in WordSet
  <2>1. begun \in Batch /\ RefersOK(begun) /\ begun.item # <<>> /\ id \in DOMAIN begun.token
        /\ token_count \in Int
    BY <1>2, <1>6, <1>10, <1>12
  <2>2. QED
    BY <1>14, <1>15, <1>17, <1>18, <2>1, OccurrenceSays
<1>20. own \in Seq(DocumentSet) /\ Len(own) = k /\ own # <<>> /\ k \in DOMAIN own
  <2>1. begun.item # <<>> /\ begun.item \in Seq(Item)
    BY <1>6, <1>10, DocumentsIs
  <2>2. own \in Seq(DocumentSet) /\ Len(own) = k
    BY <1>10, <1>14, <1>18, DocumentsIs
  <2>3. QED
    BY <1>14, <2>1, <2>2
<1>21. PICK document : document = [id |-> own[k].id, words |-> Append(own[k].words, word)]
  OBVIOUS
<1>22. Documents(filled) = [own EXCEPT ![k] = document]
  BY <1>19, <1>21, Zenon DEF WithWord
<1>23. PICK before : before = FolderDocuments(chosen)
  OBVIOUS
<1>24. before \in Seq(DocumentSet)
  BY <1>8, <1>23, FolderSays
<1>25. PICK all : all = before \o own
  OBVIOUS
<1>26. /\ all \in Seq(DocumentSet) /\ all # <<>> /\ all[Len(all)].id = item_id
       /\ SaidByAll(all) = SaidByAll(AllDocuments) /\ Apart(all)
  <2>1. Apart(AllDocuments)
    BY <1>1 DEF DocInv
  <2>2. AllDocuments # <<>> => AllDocuments[Len(AllDocuments)].id = prev_item_id
    BY <1>1 DEF DocInv
  <2>3. CASE new
    <3>1. all = Append(AllDocuments, [id |-> item_id, words |-> <<>>])
      BY <1>8, <1>10, <1>18, <1>23, <1>25, <2>3
    <3>2. AllDocuments # <<>> => AllDocuments[Len(AllDocuments)].id # item_id
      BY <1>3, <2>2, <2>3
    <3>3. AllDocuments \in Seq(DocumentSet) /\ item_id \in Int
      BY <1>2, <1>8
    <3>4. Begun(AllDocuments, all, item_id)
      BY <2>1, <3>1, <3>2, <3>3, DocumentBegun
    <3>5. QED
      BY <3>4, Zenon DEF Begun
  <2>4. CASE ~new
    <3>1. all = AllDocuments
      BY <1>8, <1>10, <1>18, <1>23, <1>25, <2>4
    <3>2. all # <<>>
      BY <1>20, <1>24, <1>25, ConcatLast
    <3>3. QED
      BY <1>3, <1>8, <2>1, <2>2, <2>4, <3>1, <3>2
  <2>5. QED
    BY <2>3, <2>4
<1>27. PICK m : m = Len(all)
  OBVIOUS
<1>28. document \in DocumentSet
  <2>1. own[k] \in DocumentSet
    BY <1>20, ElementOf
  <2>2. own[k].id \in Int /\ own[k].words \in Seq(WordSet)
    BY <2>1 DEF DocumentSet
  <2>3. Append(own[k].words, word) \in Seq(WordSet)
    BY <1>19, <2>2, AppendTyped
  <2>4. QED
    BY <1>21, <2>2, <2>3 DEF DocumentSet
<1>29. PICK longer : longer = before \o Documents(filled)
  OBVIOUS
<1>30. longer = WithWord(all, m, word)
  <2>1. k = Len(own) /\ m = Len(before \o own)
    BY <1>20, <1>25, <1>27
  <2>2. /\ before \o [own EXCEPT ![k] = document] = [before \o own EXCEPT ![m] = document]
        /\ (before \o own)[m] = own[k]
    BY <1>20, <1>24, <1>28, <2>1, ConcatLast
  <2>3. longer = [all EXCEPT ![m] = document] /\ all[m] = own[k]
    BY <1>22, <1>25, <1>29, <2>2, Zenon
  <2>4. QED
    BY <1>21, <2>3, Zenon DEF WithWord
<1>31. /\ SaidByAll(longer) = Append(SaidByAll(all), <<item_id, Vocab[token_id], token_count>>)
       /\ Apart(longer) /\ longer # <<>> /\ longer[Len(longer)].id = item_id
  <2>1. all \in Seq(DocumentSet) /\ all # <<>> /\ Apart(all) /\ word \in WordSet /\ m = Len(all)
    BY <1>19, <1>26, <1>27
  <2>2. /\ SaidByAll(longer) = Append(SaidByAll(all), <<all[m].id, word.keyword, word.token_count>>)
        /\ Apart(longer) /\ longer # <<>> /\ longer[Len(longer)].id = all[m].id
    BY <1>30, <2>1, WordAdded
  <2>3. all[m].id = item_id
    BY <1>26, <1>27
  <2>4. QED
    BY <1>16, <2>2, <2>3, Zenon
<1>32. AllDocuments' = longer
  <2>1. AllDocuments' = FolderDocuments(chosen) \o Documents(filled)
    BY <1>1, <1>13, <1>17 DEF AllDocuments, FolderDocuments
  <2>2. QED
    BY <1>23, <1>29, <2>1
<1>33. SaidByLines' = Append(SaidByLines, <<item_id, Vocab[token_id], token_count>>)
  <2>1. docword \in Seq(Line) /\ line.item_id = item_id /\ line.token_id = token_id
        /\ line.token_count = token_count
    BY DEF ParserInv, TypeOK, Line
  <2> HIDE DEF line
  <2>2. PICK n : n = Len(docword)
    OBVIOUS
  <2>3. PICK words : words = docword'
    OBVIOUS
  <2>4. PICK old : old = docword
    OBVIOUS
  <2>5. /\ n \in Nat /\ DOMAIN old = 1..n /\ DOMAIN words = 1..(n + 1)
        /\ words[n + 1] = line /\ \A i \in 1..n : words[i] = old[i]
    BY <1>1, <2>1, <2>2, <2>3, <2>4, AppendIs
  <2>6. PICK said : said = SaidByLines
    OBVIOUS
  <2>7. said = [i \in 1..n |-> <<old[i].item_id, Vocab[old[i].token_id], old[i].token_count>>]
    BY <2>4, <2>5, <2>6 DEF SaidByLines
  <2>8. said \in Seq(Said) /\ Len(said) = n
        /\ \A i \in 1..n : said[i] = <<old[i].item_id, Vocab[old[i].token_id], old[i].token_count>>
    <3>1. ASSUME NEW i \in 1..n
          PROVE  <<old[i].item_id, Vocab[old[i].token_id], old[i].token_count>> \in Said
      <4>1. old[i] \in [item_id : ItemId, token_id : Token, token_count : Nat]
        BY <2>4, <2>5, ElementOf DEF ParserInv, TypeOK
      <4>2. old[i].item_id \in Int /\ Vocab[old[i].token_id] \in Keyword /\ old[i].token_count \in Int
        <5>1. old[i].item_id \in ItemId /\ old[i].token_id \in Token /\ old[i].token_count \in Nat
          BY <4>1
        <5>2. Vocab[old[i].token_id] \in Keyword
          BY <5>1, ParserAssumption, ElementOf DEF Token
        <5>3. QED
          <6>1. ItemId \subseteq Int
            BY ParserAssumption
          <6>2. old[i].item_id \in Int
            BY <5>1, <6>1
          <6>3. old[i].token_count \in Int
            BY <5>1
          <6>4. QED
            BY <5>2, <6>2, <6>3, Zenon
      <4>3. QED
        BY <4>2 DEF Said
    <3>2. /\ said = [i \in 1..n |-> said[i]]
          /\ \A i \in 1..n : said[i] = <<old[i].item_id, Vocab[old[i].token_id], old[i].token_count>>
      BY <2>7, Zenon
    <3>3. \A i \in 1..n : said[i] \in Said
      BY <3>1, <3>2
    <3>4. QED
      BY <2>5, <3>2, <3>3, SeqMade
  <2>9. PICK triple : triple = <<item_id, Vocab[token_id], token_count>>
    OBVIOUS
  <2>10. PICK appended : appended = Append(said, triple)
    OBVIOUS
  <2>11. n = Len(said) /\ said \in Seq(Said)
    BY <2>8
  <2>12. /\ appended = [i \in 1..(n + 1) |-> appended[i]] /\ appended[n + 1] = triple
         /\ \A i \in 1..n : appended[i] = said[i]
    BY <2>10, <2>11, AppendIs
  <2>13. SaidByLines' = [i \in 1..(n + 1) |-> <<words[i].item_id, Vocab[words[i].token_id],
                                               words[i].token_count>>]
    BY <2>3, <2>5 DEF SaidByLines
  <2>14. ASSUME NEW i \in 1..(n + 1)
         PROVE  <<words[i].item_id, Vocab[words[i].token_id], words[i].token_count>> = appended[i]
    <3>1. CASE i \in 1..n
      <4>1. words[i] = old[i] /\ appended[i] = said[i]
        BY <2>5, <2>12, <3>1
      <4>2. said[i] = <<old[i].item_id, Vocab[old[i].token_id], old[i].token_count>>
        BY <2>8, <3>1
      <4>3. QED
        BY <4>1, <4>2, Zenon
    <3>2. CASE i = n + 1
      <4>1. words[i] = line /\ appended[i] = triple
        BY <2>5, <2>12, <3>2
      <4>2. QED
        BY <2>1, <2>9, <4>1, Zenon
    <3>3. i \in 1..n \/ i = n + 1
      BY <2>5
    <3>4. QED
      BY <3>1, <3>2, <3>3
  <2>15. SaidByLines' = [i \in 1..(n + 1) |-> appended[i]]
    BY <2>13, <2>14
  <2>16. QED
    BY <2>6, <2>9, <2>10, <2>12, <2>15, Zenon
<1>34. SaidByAll(AllDocuments)' = SaidByLines' /\ Apart(AllDocuments)'
  <2>1. SaidByAll(AllDocuments) = SaidByLines
    BY <1>1 DEF DocInv
  <2>2. SaidByAll(longer) = SaidByLines'
    BY <1>26, <1>31, <1>33, <2>1
  <2>3. PICK documents : documents = AllDocuments'
    OBVIOUS
  <2>4. SaidByAll(AllDocuments)' = SaidByAll(documents) /\ (Apart(AllDocuments)' <=> Apart(documents))
    <3>1. Apart(AllDocuments)' <=> Apart(documents)
      BY <2>3 DEF Apart
    <3>2. SaidByAll(AllDocuments)' = SaidByAll(documents)
      <4>1. PICK each : each = [d \in DOMAIN documents |-> SaidBy(documents[d])]
        OBVIOUS
      <4>2. EachSaid' = each
        BY <2>3, <4>1 DEF EachSaid, SaidBy
      <4>3. FlattenSeq(EachSaid)' = FlattenSeq(each)
        BY <4>2
      <4>4. SaidByAll(AllDocuments)' = FlattenSeq(EachSaid)'
        BY Zenon DEF SaidByAll, EachSaid
      <4>5. QED
        BY <4>1, <4>3, <4>4, Zenon DEF SaidByAll
    <3>3. QED
      BY <3>1, <3>2
  <2>5. QED
    BY <1>31, <1>32, <2>2, <2>3, <2>4
<1>35. RefersOK(batch)' /\ (\A i \in DOMAIN target_folder : RefersOK(target_folder[i]))'
  <2>1. batch' = filled /\ target_folder' = chosen
    BY <1>13, <1>17
  <2>2. QED
    BY <1>8, <1>19, <2>1 DEF RefersOK
<1>36. QED
  BY <1>1, <1>31, <1>32, <1>34, <1>35 DEF DocInv

LEMMA DocumentsInit == Init => DocInv
<1> SUFFICES ASSUME Init PROVE DocInv
  OBVIOUS
<1>1. /\ pc = "open" /\ docword = <<>> /\ target_folder = <<>> /\ batch = EmptyBatch
  BY DEF Init
<1>2. batch.item = <<>> /\ RefersOK(batch)
  BY <1>1 DEF EmptyBatch, RefersOK
<1>3. AllDocuments = <<>>
  <2>1. [i \in DOMAIN target_folder |-> Documents(target_folder[i])] = <<>>
    BY <1>1
  <2>2. FlattenSeq(<<>>) = <<>>
    BY FlatIs
  <2>3. AllDocuments = <<>> \o <<>>
    BY <1>1, <2>1, <2>2 DEF AllDocuments
  <2>4. QED
    BY <2>3
<1>4. SaidByAll(AllDocuments) = <<>>
  <2>1. [d \in DOMAIN AllDocuments |-> SaidBy(AllDocuments[d])] = <<>>
    BY <1>3
  <2>2. QED
    BY <2>1, FlatIs DEF SaidByAll
<1>5. SaidByLines = <<>> /\ Apart(AllDocuments)
  BY <1>1, <1>3 DEF SaidByLines, Apart
<1>6. QED
  BY <1>1, <1>2, <1>3, <1>4, <1>5 DEF DocInv

\* What a step keeps that leaves the batch, the folder and the documents alone.
LEMMA DocumentsFrame ==
  ASSUME ParserInv, DocInv, UNCHANGED <<batch, docword, prev_item_id>>,
         target_folder' \in Seq(Batch), \A i \in DOMAIN target_folder' : RefersOK(target_folder'[i]),
         pc' # "open" \/ pc' = pc,
         pc' \in {"open", "lines"} => pc \in {"open", "lines"},
         pc' \in {"open", "lines", "done"} =>
           pc \in {"open", "lines", "done"} /\ AllDocuments' = AllDocuments
  PROVE  DocInv'
<1>1. RefersOK(batch)' /\ (\A i \in DOMAIN target_folder : RefersOK(target_folder[i]))'
  BY DEF DocInv, RefersOK
<1>2. (pc = "open" => batch.item = <<>> /\ docword = <<>>)'
  BY DEF DocInv
<1>3. (pc \in {"open", "lines"} /\ AllDocuments # <<>> =>
         AllDocuments[Len(AllDocuments)].id = prev_item_id)'
  BY DEF DocInv
<1>4. ASSUME pc' \in {"open", "lines", "done"}
      PROVE  SaidByAll(AllDocuments)' = SaidByLines' /\ Apart(AllDocuments)'
  <2>1. AllDocuments' = AllDocuments /\ SaidByAll(AllDocuments) = SaidByLines /\ Apart(AllDocuments)
    BY <1>4 DEF DocInv
  <2>2. SaidByLines' = SaidByLines
    BY DEF SaidByLines
  <2>3. EachSaid' = EachSaid
    BY <2>1 DEF EachSaid, SaidBy
  <2>4. FlattenSeq(EachSaid)' = FlattenSeq(EachSaid)
    BY <2>3
  <2>5. SaidByAll(AllDocuments)' = FlattenSeq(EachSaid)'
    BY Zenon DEF SaidByAll, EachSaid
  <2>6. SaidByAll(AllDocuments) = FlattenSeq(EachSaid)
    BY Zenon DEF SaidByAll, EachSaid
  <2>7. Apart(AllDocuments)'
    BY <2>1 DEF Apart
  <2>8. QED
    BY <2>1, <2>2, <2>4, <2>5, <2>6, <2>7, Zenon
<1>5. QED
  BY <1>1, <1>2, <1>3, <1>4 DEF DocInv

\* The last batch goes to the folder.
LEMMA DocumentsEnd ==
  ASSUME ParserInv, DocInv, EndOfFile
  PROVE  DocInv'
<1>1. /\ pc = "lines" /\ pc' \in {"done", "failed"} /\ UNCHANGED <<batch, docword, prev_item_id>>
      /\ target_folder' = IF batch.item # <<>> THEN Append(target_folder, batch) ELSE target_folder
  BY DEF EndOfFile, current
<1>2. /\ batch \in Batch /\ target_folder \in Seq(Batch) /\ RefersOK(batch)
      /\ \A i \in DOMAIN target_folder : RefersOK(target_folder[i])
  BY DEF ParserInv, TypeOK, DocInv
<1>3. PICK chosen : chosen = target_folder'
  OBVIOUS
<1>4. chosen \in Seq(Batch) /\ (\A i \in DOMAIN chosen : RefersOK(chosen[i]))
      /\ FolderDocuments(chosen) = FolderDocuments(target_folder) \o Documents(batch)
      /\ FolderDocuments(chosen) \in Seq(DocumentSet)
  <2>1. CASE batch.item # <<>>
    <3>1. PICK n : n = Len(target_folder)
      OBVIOUS
    <3>2. chosen = Append(target_folder, batch)
      BY <1>1, <1>3, <2>1
    <3>3. /\ n \in Nat /\ DOMAIN target_folder = 1..n /\ DOMAIN chosen = 1..(n + 1)
          /\ chosen[n + 1] = batch /\ \A i \in 1..n : chosen[i] = target_folder[i]
      BY <1>2, <3>1, <3>2, AppendIs
    <3>4. chosen \in Seq(Batch)
      BY <1>2, <3>2, AppendTyped
    <3>5. \A i \in 1..(n + 1) : i \in 1..n \/ i = n + 1
      BY <3>3
    <3>6. \A i \in DOMAIN chosen : RefersOK(chosen[i])
      BY <1>2, <3>3, <3>5
    <3>7. QED
      BY <1>2, <3>2, <3>4, <3>6, FolderSays
  <2>2. CASE batch.item = <<>>
    <3>1. chosen = target_folder
      BY <1>1, <1>3, <2>2
    <3>2. Documents(batch) = <<>>
      BY <1>2, <2>2, DocumentsIs
    <3>3. FolderDocuments(chosen) \in Seq(DocumentSet)
      BY <1>2, <3>1, FolderSays
    <3>4. FolderDocuments(chosen) \o <<>> = FolderDocuments(chosen)
      BY <3>3
    <3>5. QED
      BY <1>2, <3>1, <3>2, <3>3, <3>4
  <2>3. QED
    BY <2>1, <2>2
<1>5. pc' = "done" => AllDocuments' = AllDocuments
  <2>1. SUFFICES ASSUME pc' = "done" PROVE AllDocuments' = AllDocuments
    OBVIOUS
  <2>2. AllDocuments = FolderDocuments(target_folder) \o Documents(batch)
    BY <1>1 DEF AllDocuments, FolderDocuments
  <2>3. AllDocuments' = FolderDocuments(chosen) \o <<>>
    BY <1>3, <2>1 DEF AllDocuments, FolderDocuments
  <2>4. FolderDocuments(chosen) \o <<>> = FolderDocuments(chosen)
    BY <1>4
  <2>5. QED
    BY <1>4, <2>2, <2>3, <2>4
<1>6. QED
  BY <1>1, <1>3, <1>4, <1>5, DocumentsFrame

LEMMA DocumentsStep == ParserInv /\ DocInv /\ [Next]_vars => DocInv'
<1> SUFFICES ASSUME ParserInv, DocInv, [Next]_vars PROVE DocInv'
  OBVIOUS
<1>1. /\ target_folder \in Seq(Batch) /\ \A i \in DOMAIN target_folder : RefersOK(target_folder[i])
      /\ batch \in Batch /\ RefersOK(batch)
  BY DEF ParserInv, TypeOK, DocInv
<1>2. ASSUME UNCHANGED <<pc, batch, docword, prev_item_id, target_folder>> PROVE DocInv'
  <2>1. AllDocuments' = AllDocuments
    BY <1>2 DEF AllDocuments
  <2>2. QED
    BY <1>1, <1>2, <2>1, DocumentsFrame
<1>3. ASSUME UNCHANGED <<batch, docword, prev_item_id, target_folder>>, pc' = "failed" PROVE DocInv'
  BY <1>1, <1>3, DocumentsFrame
<1>4. ASSUME ReadVocab PROVE DocInv'
  <2>1. UNCHANGED <<batch, docword, prev_item_id, target_folder>> /\ pc = "open"
        /\ pc' \in {"lines", "failed"}
    BY <1>4 DEF ReadVocab, current, folder
  <2>2. CASE pc' = "failed"
    BY <1>3, <2>1, <2>2
  <2>3. CASE pc' = "lines"
    <3>1. batch.item = <<>>
      BY <2>1 DEF DocInv
    <3>2. Documents(batch) = <<>>
      BY <1>1, <3>1, DocumentsIs
    <3>3. AllDocuments' = AllDocuments
      BY <2>1, <2>3, <3>2 DEF AllDocuments
    <3>4. QED
      BY <1>1, <2>1, <2>3, <3>3, DocumentsFrame
  <2>4. QED
    BY <2>1, <2>2, <2>3
<1>5. ASSUME NEW token_id \in LineTokenId, InvalidLine(token_id) PROVE DocInv'
  <2>1. UNCHANGED <<batch, docword, prev_item_id, target_folder>> /\ pc' = "failed"
    BY <1>5 DEF InvalidLine, current, folder
  <2>2. QED
    BY <1>3, <2>1
<1>6. ASSUME NEW token_id \in LineTokenId, NEW token_count \in LineTokenCount,
             ZeroLine(token_id, token_count)
      PROVE  DocInv'
  <2>1. UNCHANGED <<pc, batch, docword, prev_item_id, target_folder>>
    BY <1>6 DEF ZeroLine, current, folder
  <2>2. QED
    BY <1>2, <2>1
<1>7. ASSUME NEW new, NEW compact, AddBatch(new, compact) PROVE DocInv'
  <2>1. UNCHANGED <<pc, batch, docword, prev_item_id, target_folder>>
    BY <1>7 DEF AddBatch, current, folder
  <2>2. QED
    BY <1>2, <2>1
<1>8. ASSUME UNCHANGED vars PROVE DocInv'
  <2>1. UNCHANGED <<pc, batch, docword, prev_item_id, target_folder>>
    BY <1>8 DEF vars, current, folder
  <2>2. QED
    BY <1>2, <2>1
<1>9. QED
  BY <1>4, <1>5, <1>6, <1>7, <1>8, DocumentsLine, DocumentsEnd DEF Next, Parse

LEMMA DocumentsSay == ParserInv /\ DocInv => DocumentsKept
<1> SUFFICES ASSUME ParserInv, DocInv, pc \in {"lines", "done"} PROVE DocumentsKept
  BY DEF DocumentsKept
<1>1. /\ target_folder \in Seq(Batch) /\ \A i \in DOMAIN target_folder : RefersOK(target_folder[i])
      /\ batch \in Batch /\ RefersOK(batch)
  BY DEF ParserInv, TypeOK, DocInv
<1>2. HasValidIds(batch) /\ \A i \in DOMAIN target_folder : HasValidIds(target_folder[i])
  BY <1>1, ElementOf, IdsAreValid DEF RefersOK, Refers
<1>3. SaidByAll(AllDocuments) = SaidByLines /\ Apart(AllDocuments)
  BY DEF DocInv
<1>4. SaidByAll(AllDocuments) =
        FlattenSeq([d \in DOMAIN AllDocuments |->
                      [k \in DOMAIN AllDocuments[d].words |->
                         <<AllDocuments[d].id, AllDocuments[d].words[k].keyword,
                           AllDocuments[d].words[k].token_count>>]])
  BY Zenon DEF SaidByAll, SaidBy
<1>5. QED
  BY <1>2, <1>3, <1>4, Zenon DEF DocumentsKept, SaidByLines, Apart

\* collection_parser.cc:206-255: whatever the file, the documents of all batches, read one
\* after the other, say what the lines say; no document is split between two items.
THEOREM DocumentsAreKept == Spec => []DocumentsKept
<1>1. Init => ParserInv /\ DocInv
  BY InitOK, DocumentsInit
<1>2. ParserInv /\ DocInv /\ [Next]_vars => ParserInv' /\ DocInv'
  BY StepOK, DocumentsStep
<1>3. Spec => [](ParserInv /\ DocInv)
  BY <1>1, <1>2, PTL DEF Spec
<1>4. QED
  BY <1>3, DocumentsSay, PTL

-----------------------------------------------------------------------------
(* What compaction does to a batch.                                        *)
\* The number that a token id gets when it is met.
NumberedId(ids, id) ==
  IF id \in DOMAIN ids THEN ids ELSE WithId(ids, id, Cardinality(DOMAIN ids) + 1)

\* The function that FoldLeft computes for CompactedIds.
IsNumbering(f, c, n) ==
  f = [s \in SUBSET (1..n) |-> IF s = {} THEN NoIds ELSE NumberedId(f[s \ {Max(s)}], c[Max(s)])]

TheNumbering(c, n) == CHOOSE f : IsNumbering(f, c, n)

LEMMA NumberingIs ==
  ASSUME NEW b, NEW n, DOMAIN TokenIds(b) = 1..n
  PROVE  CompactedIds(b) = TheNumbering(TokenIds(b), n)[1..n]
BY Zenon DEF CompactedIds, FoldLeft, MapThenFoldSet, TheNumbering, IsNumbering, NumberedId

LEMMA NumberingExists ==
  ASSUME NEW n \in Nat, NEW c
  PROVE  IsNumbering(TheNumbering(c, n), c, n)
<1> DEFINE P == {k \in 0..n : \E f : IsNumbering(f, c, k)}
<1>1. 0 \in P
  <2> DEFINE f == [s \in SUBSET (1..0) |-> NoIds]
  <2>1. 1..0 = {} /\ SUBSET (1..0) = {{}}
    OBVIOUS
  <2>2. f = [s \in SUBSET (1..0) |-> IF s = {} THEN NoIds ELSE NumberedId(f[s \ {Max(s)}], c[Max(s)])]
    BY <2>1
  <2> HIDE DEF f
  <2>3. IsNumbering(f, c, 0)
    BY <2>2 DEF IsNumbering
  <2>4. QED
    BY <2>3
<1>2. ASSUME NEW k \in 1..n, k - 1 \in P PROVE k \in P
  <2>1. PICK f : IsNumbering(f, c, k - 1)
    BY <1>2
  <2>2. \A s \in SUBSET (1..(k - 1)) :
          f[s] = IF s = {} THEN NoIds ELSE NumberedId(f[s \ {Max(s)}], c[Max(s)])
    BY <2>1, Zenon DEF IsNumbering
  <2> DEFINE g == [s \in SUBSET (1..k) |-> IF k \in s THEN NumberedId(f[s \ {k}], c[k]) ELSE f[s]]
  <2>3. /\ 1..k = (1..(k - 1)) \cup {k} /\ k \notin 1..(k - 1) /\ 1..k \in SUBSET Nat
        /\ \A j \in 1..k : j <= k
    OBVIOUS
  <2>4. ASSUME NEW s \in SUBSET (1..k)
        PROVE  g[s] = IF s = {} THEN NoIds ELSE NumberedId(g[s \ {Max(s)}], c[Max(s)])
    <3>1. CASE k \in s
      <4>1. Max(s) = k
        BY <2>3, <3>1, MaxIs
      <4>2. g[s] = NumberedId(f[s \ {k}], c[k]) /\ g[s \ {k}] = f[s \ {k}]
        BY <3>1
      <4>3. QED
        BY <3>1, <4>1, <4>2
    <3>2. CASE k \notin s
      <4>1. s \in SUBSET (1..(k - 1))
        BY <2>3, <3>2
      <4>2. f[s] = IF s = {} THEN NoIds ELSE NumberedId(f[s \ {Max(s)}], c[Max(s)])
        BY <2>2, <4>1
      <4>3. g[s] = f[s] /\ g[s \ {Max(s)}] = f[s \ {Max(s)}]
        BY <3>2
      <4>4. QED
        BY <4>2, <4>3
    <3>3. QED
      BY <3>1, <3>2
  <2>5. g = [s \in SUBSET (1..k) |-> g[s]]
    OBVIOUS
  <2> HIDE DEF g
  <2>6. IsNumbering(g, c, k)
    BY <2>4, <2>5 DEF IsNumbering
  <2>7. QED
    BY <2>6
<1>3. \A i \in 0..n : i \in P
  <2> HIDE DEF P
  <2>1. QED
    BY <1>1, <1>2, Induction
<1>4. n \in P
  <2>1. n \in 0..n
    OBVIOUS
  <2>2. QED
    BY <1>3, <2>1
<1>5. QED
  BY <1>4, Zenon DEF TheNumbering

\* The ids met so far have different numbers, from 1 and without gaps.
Numbers(ids, met) ==
  /\ DOMAIN ids = met /\ IsFiniteSet(met)
  /\ \A id \in met : ids[id] \in 1..Cardinality(met)
  /\ \A id, other \in met : ids[id] = ids[other] => id = other
  /\ \A new \in 1..Cardinality(met) : \E id \in met : ids[id] = new

LEMMA OneMoreNumber ==
  ASSUME NEW ids, NEW met, Numbers(ids, met), NEW id
  PROVE  Numbers(NumberedId(ids, id), met \cup {id})
<1>1. CASE id \in met
  <2>1. met \cup {id} = met /\ NumberedId(ids, id) = ids
    BY <1>1 DEF Numbers, NumberedId
  <2>2. QED
    BY <2>1
<1>2. CASE id \notin met
  <2>1. PICK n : n = Cardinality(met)
    OBVIOUS
  <2>2. n \in Nat /\ Cardinality(met \cup {id}) = n + 1 /\ IsFiniteSet(met \cup {id})
    BY <1>2, <2>1, FS_CardinalityType, FS_AddElement DEF Numbers
  <2>3. PICK more : more = WithId(ids, id, n + 1)
    OBVIOUS
  <2>4. more = NumberedId(ids, id)
    BY <1>2, <2>1, <2>3 DEF Numbers, NumberedId
  <2>5. /\ DOMAIN more = met \cup {id} /\ more[id] = n + 1
        /\ \A x \in met : more[x] = ids[x] /\ more[x] \in 1..n
    BY <1>2, <2>1, <2>3 DEF Numbers, WithId
  <2>6. \A x \in met \cup {id} : more[x] \in 1..(n + 1)
    BY <2>2, <2>5
  <2>7. \A x, y \in met \cup {id} : more[x] = more[y] => x = y
    <3>1. \A x \in met : more[x] # n + 1
      BY <2>2, <2>5
    <3>2. \A x, y \in met : more[x] = more[y] => x = y
      BY <2>5 DEF Numbers
    <3>3. QED
      BY <2>5, <3>1, <3>2
  <2>8. \A new \in 1..(n + 1) : \E x \in met \cup {id} : more[x] = new
    <3>1. \A new \in 1..n : \E x \in met : ids[x] = new
      BY <2>1 DEF Numbers
    <3>2. \A new \in 1..(n + 1) : new \in 1..n \/ new = n + 1
      BY <2>2
    <3>3. QED
      BY <2>5, <3>1, <3>2
  <2>9. QED
    BY <2>2, <2>4, <2>5, <2>6, <2>7, <2>8 DEF Numbers
<1>3. QED
  BY <1>1, <1>2

LEMMA NumberingNumbers ==
  ASSUME NEW n \in Nat, NEW c
  PROVE  Numbers(TheNumbering(c, n)[1..n], {c[i] : i \in 1..n})
<1> DEFINE f == TheNumbering(c, n)
           Met(k) == {c[i] : i \in 1..k}
           P == {k \in 0..n : Numbers(f[1..k], Met(k))}
<1>1. \A s \in SUBSET (1..n) : f[s] = IF s = {} THEN NoIds ELSE NumberedId(f[s \ {Max(s)}], c[Max(s)])
  <2>1. IsNumbering(f, c, n)
    BY NumberingExists
  <2> HIDE DEF f
  <2>2. QED
    BY <2>1, Zenon DEF IsNumbering
<1> HIDE DEF f
<1>2. 0 \in P
  <2>1. 1..0 = {} /\ {} \in SUBSET (1..n) /\ Met(0) = {}
    OBVIOUS
  <2>2. f[1..0] = NoIds
    BY <1>1, <2>1
  <2>3. Numbers(NoIds, {})
    <3>1. Cardinality({}) = 0 /\ IsFiniteSet({}) /\ 1..0 = {}
      BY FS_EmptySet
    <3>2. QED
      BY <3>1 DEF Numbers, NoIds
  <2>4. QED
    BY <2>1, <2>2, <2>3
<1>3. ASSUME NEW k \in 1..n, k - 1 \in P PROVE k \in P
  <2>1. /\ 1..k \in SUBSET (1..n) /\ 1..k \in SUBSET Nat /\ k \in 1..k /\ 1..k # {}
        /\ (1..k) \ {k} = 1..(k - 1) /\ \A j \in 1..k : j <= k
    OBVIOUS
  <2>2. Max(1..k) = k
    BY <2>1, MaxIs
  <2>3. f[1..k] = NumberedId(f[1..(k - 1)], c[k])
    BY <1>1, <2>1, <2>2
  <2>4. Numbers(f[1..(k - 1)], Met(k - 1))
    BY <1>3
  <2>5. Met(k) = Met(k - 1) \cup {c[k]}
    <3>1. \A i : i \in 1..k <=> i \in 1..(k - 1) \/ i = k
      OBVIOUS
    <3>2. QED
      BY <3>1
  <2>6. k \in 0..n
    OBVIOUS
  <2>7. Numbers(f[1..k], Met(k))
    BY <2>3, <2>4, <2>5, OneMoreNumber
  <2>8. QED
    BY <2>6, <2>7
<1>4. \A i \in 0..n : i \in P
  <2> HIDE DEF P
  <2>1. QED
    BY <1>2, <1>3, Induction
<1>5. Numbers(f[1..n], Met(n))
  BY <1>4
<1>6. QED
  BY <1>5 DEF f

-----------------------------------------------------------------------------
LEMMA ConcatHolds ==
  ASSUME NEW S, NEW a \in Seq(S), NEW b \in Seq(S), NEW x, x \in ToSet(a) \/ x \in ToSet(b)
  PROVE  x \in ToSet(a \o b)
<1>1. PICK m \in Nat : m = Len(a) /\ DOMAIN a = 1..m
  OBVIOUS
<1>2. PICK n \in Nat : n = Len(b) /\ DOMAIN b = 1..n
  OBVIOUS
<1>3. PICK c \in Seq(S) : c = a \o b
  <2>1. a \o b \in Seq(S)
    OBVIOUS
  <2>2. QED
    BY <2>1
<1>4. /\ DOMAIN c = 1..(m + n)
      /\ \A i \in 1..m : c[i] = a[i]
      /\ \A i \in 1..n : c[m + i] = b[i]
  BY <1>1, <1>2, <1>3
<1>5. CASE x \in ToSet(a)
  <2>1. PICK i \in 1..m : x = a[i]
    BY <1>1, <1>5 DEF ToSet
  <2>2. i \in 1..(m + n)
    OBVIOUS
  <2>3. QED
    BY <1>3, <1>4, <2>1, <2>2 DEF ToSet
<1>6. CASE x \in ToSet(b)
  <2>1. PICK i \in 1..n : x = b[i]
    BY <1>2, <1>6 DEF ToSet
  <2>2. m + i \in 1..(m + n)
    OBVIOUS
  <2>3. QED
    BY <1>3, <1>4, <2>1, <2>2 DEF ToSet
<1>7. QED
  BY <1>5, <1>6

\* Every element of every part is there.
LEMMA FlatHolds ==
  ASSUME NEW S, NEW s \in Seq(Seq(S)), NEW i \in DOMAIN s, NEW x, x \in ToSet(s[i])
  PROVE  x \in ToSet(FlattenSeq(s))
<1>1. PICK n \in Nat : n = Len(s) /\ DOMAIN s = 1..n
  OBVIOUS
<1>2. i \in 1..n /\ n # 0 /\ n \in 1..n
  BY <1>1
<1>3. \A j \in 1..n : s[j] \in Seq(S)
  BY <1>1, ElementOf
<1> DEFINE f == TheFlat(s, n)
           P == {j \in 0..n : j < i \/ x \in ToSet(f[j])}
<1>4. \A j \in 1..n : f[j] = IF j = 1 THEN s[j] ELSE f[j - 1] \o s[j]
  BY <1>1, FlatStep
<1>5. ASSUME NEW j \in 1..n PROVE f[j] \in Seq(S)
  <2>1. Within(j, n)
    BY <1>1 DEF Within
  <2>2. BeginAlike(S, s, s, j)
    BY <1>3 DEF BeginAlike
  <2>3. QED
    BY <2>1, <2>2, FlatPrefix
<1> HIDE DEF f
<1>6. 0 \in P
  BY <1>1, <1>2
<1>7. ASSUME NEW j \in 1..n, j - 1 \in P PROVE j \in P
  <2>0. j \in 0..n
    OBVIOUS
  <2>1. CASE j < i
    BY <2>0, <2>1
  <2>2. CASE j = i
    <3>1. CASE j = 1
      <4>1. f[j] = s[i]
        BY <1>4, <2>2, <3>1
      <4>2. QED
        BY <2>0, <4>1
    <3>2. CASE j # 1
      <4>1. f[j] = f[j - 1] \o s[i]
        BY <1>4, <2>2, <3>2
      <4>2. j - 1 \in 1..n
        BY <3>2
      <4>3. x \in ToSet(f[j - 1] \o s[i])
        BY <1>2, <1>3, <1>5, <4>2, ConcatHolds
      <4>4. QED
        BY <2>0, <4>1, <4>3
    <3>3. QED
      BY <3>1, <3>2
  <2>3. CASE j > i
    <3>1. j # 1 /\ j - 1 \in 1..n /\ ~(j - 1 < i)
      BY <1>2, <2>3
    <3>2. x \in ToSet(f[j - 1])
      BY <1>7, <3>1
    <3>3. f[j] = f[j - 1] \o s[j]
      BY <1>4, <3>1
    <3>4. x \in ToSet(f[j - 1] \o s[j])
      BY <1>3, <1>5, <3>1, <3>2, ConcatHolds
    <3>5. QED
      BY <2>0, <3>3, <3>4
  <2>4. QED
    BY <1>2, <2>1, <2>2, <2>3
<1>8. \A j \in 0..n : j \in P
  <2> HIDE DEF P
  <2>1. QED
    BY <1>1, <1>6, <1>7, Induction
<1>9. x \in ToSet(f[n])
  <2>1. n \in P /\ ~(n < i)
    BY <1>2, <1>8
  <2>2. QED
    BY <2>1
<1>10. FlattenSeq(s) = f[n]
  BY <1>1, <1>2, FlatIs DEF f
<1>11. QED
  BY <1>9, <1>10

\* The token ids of a batch, those of each of its items one after the other.
LEMMA TokenIdsHold ==
  ASSUME NEW b, b.item \in Seq(Item)
  PROVE  /\ TokenIds(b) \in Seq(Int)
         /\ \A i \in DOMAIN b.item : \A k \in DOMAIN b.item[i].field :
              b.item[i].field[k].token_id \in ToSet(TokenIds(b))
<1> DEFINE ids == [i \in DOMAIN b.item |-> [k \in DOMAIN b.item[i].field |-> b.item[i].field[k].token_id]]
<1>1. PICK n \in Nat : DOMAIN b.item = 1..n
  OBVIOUS
<1>2. ASSUME NEW i \in 1..n PROVE ids[i] \in Seq(Int)
  <2>1. b.item[i] \in Item
    BY <1>1, ElementOf
  <2>2. b.item[i].field \in Seq(Occurrence)
    BY <2>1 DEF Item
  <2>3. PICK m \in Nat : DOMAIN b.item[i].field = 1..m
    BY <2>2
  <2>4. \A k \in 1..m : b.item[i].field[k].token_id \in Int
    <3>1. \A k \in 1..m : b.item[i].field[k] \in Occurrence
      BY <2>2, <2>3, ElementOf
    <3>2. QED
      BY <3>1 DEF Occurrence
  <2>5. PICK f : f = ids[i]
    OBVIOUS
  <2>6. f = [k \in 1..m |-> b.item[i].field[k].token_id]
    BY <1>1, <2>3, <2>5
  <2>7. f = [k \in 1..m |-> f[k]] /\ \A k \in 1..m : f[k] \in Int
    BY <2>4, <2>6
  <2>8. f \in Seq(Int)
    BY <2>3, <2>7, SeqMade, Zenon
  <2>9. QED
    BY <2>5, <2>8
<1>3. ids = [i \in 1..n |-> ids[i]]
  BY <1>1, Zenon
<1>4. ASSUME NEW i \in DOMAIN b.item, NEW k \in DOMAIN b.item[i].field
      PROVE  b.item[i].field[k].token_id \in ToSet(ids[i])
  <2>1. k \in DOMAIN ids[i] /\ ids[i][k] = b.item[i].field[k].token_id
    OBVIOUS
  <2>2. QED
    BY <2>1 DEF ToSet
<1>5. DOMAIN ids = DOMAIN b.item
  OBVIOUS
<1>6. TokenIds(b) = FlattenSeq(ids)
  BY DEF TokenIds
<1> HIDE DEF ids
<1>7. ids \in Seq(Seq(Int))
  BY <1>2, <1>3, SeqMade
<1>8. QED
  BY <1>4, <1>5, <1>6, <1>7, FlatType, FlatHolds

-----------------------------------------------------------------------------
\* PopulateClassId says nothing new.
LEMMA PopulateIs ==
  ASSUME NEW b \in Batch, NEW p, p = PopulateClassId(b)
  PROVE  /\ p \in Batch /\ p.token = b.token /\ p.item = b.item /\ PopulateClassId(p) = p
         /\ b.class_id = <<>> => \A id \in DOMAIN b.token : p.class_id[id] = DefaultClass
<1>1. b.token \in Seq(Keyword) /\ b.class_id \in Seq(ClassId) /\ b.item \in Seq(Item)
  BY DEF Batch
<1>2. CASE Len(b.class_id) = Len(b.token)
  <2>1. p = b
    BY <1>2 DEF PopulateClassId
  <2>2. b.class_id = <<>> => DOMAIN b.token = {}
    BY <1>1, <1>2
  <2>3. QED
    BY <2>1, <2>2
<1>3. CASE Len(b.class_id) # Len(b.token)
  <2>1. PICK n \in Nat : n = Len(b.token) /\ DOMAIN b.token = 1..n
    BY <1>1
  <2>2. PICK classes : classes = [i \in 1..n |-> DefaultClass]
    OBVIOUS
  <2>3. classes \in Seq(ClassId) /\ Len(classes) = n /\ \A i \in 1..n : classes[i] = DefaultClass
    BY <2>2, BatchAssumption
  <2>4. p = [b EXCEPT !.class_id = classes]
    BY <1>3, <2>1, <2>2 DEF PopulateClassId
  <2>5. p \in Batch /\ p.token = b.token /\ p.item = b.item /\ p.class_id = classes
    BY <1>1, <2>3, <2>4 DEF Batch
  <2>6. PopulateClassId(p) = p
    BY <2>1, <2>3, <2>5 DEF PopulateClassId
  <2>7. QED
    BY <2>1, <2>3, <2>5, <2>6
<1>4. QED
  BY <1>2, <1>3

LEMMA PopulateKeeps ==
  ASSUME NEW b \in Batch, NEW p, p = PopulateClassId(b)
  PROVE  Documents(p) = Documents(b) /\ (HasValidIds(b) => HasValidIds(p))
<1>1. p.token = b.token /\ p.item = b.item /\ PopulateClassId(p) = p
  BY PopulateIs
<1>2. Documents(p) = Documents(b)
  BY <1>1 DEF Documents, Word
<1>3. TokenIds(p) = TokenIds(b)
  BY <1>1, Zenon DEF TokenIds
<1>4. QED
  BY <1>1, <1>2, <1>3 DEF HasValidIds

\* What CompactBatch makes of a batch with valid ids: the tokens that are used, renumbered.
Compacted(b, c, ids) ==
  /\ c \in Batch /\ c.class_id = <<>> /\ DOMAIN c.item = DOMAIN b.item
  /\ \A i \in DOMAIN b.item :
       /\ c.item[i].id = b.item[i].id
       /\ DOMAIN c.item[i].field = DOMAIN b.item[i].field
       /\ \A k \in DOMAIN b.item[i].field :
            /\ b.item[i].field[k].token_id \in DOMAIN ids
            /\ c.item[i].field[k].token_id = ids[b.item[i].field[k].token_id]
            /\ c.item[i].field[k].token_count = b.item[i].field[k].token_count
  /\ \A id \in DOMAIN ids :
       id \in DOMAIN b.token /\ ids[id] \in DOMAIN c.token /\ c.token[ids[id]] = b.token[id]

LEMMA CompactIds ==
  ASSUME NEW b \in Batch, HasValidIds(b)
  PROVE  /\ Numbers(CompactedIds(b), ToSet(TokenIds(b)))
         /\ ToSet(TokenIds(b)) \subseteq DOMAIN b.token
<1>1. b.item \in Seq(Item)
  BY DEF Batch
<1>2. TokenIds(b) \in Seq(Int)
  BY <1>1, TokenIdsHold
<1>3. PICK n \in Nat : DOMAIN TokenIds(b) = 1..n
  BY <1>2
<1>4. CompactedIds(b) = TheNumbering(TokenIds(b), n)[1..n]
  BY <1>3, NumberingIs
<1>5. ToSet(TokenIds(b)) = {TokenIds(b)[i] : i \in 1..n}
  BY <1>3 DEF ToSet
<1>6. QED
  BY <1>4, <1>5, NumberingNumbers DEF HasValidIds

LEMMA CompactIs ==
  ASSUME NEW b \in Batch, HasValidIds(b)
  PROVE  Compacted(b, CompactBatch(b), CompactedIds(b))
<1>1. PICK ids : ids = CompactedIds(b)
  OBVIOUS
<1>2. PICK met : met = ToSet(TokenIds(b))
  OBVIOUS
<1>3. PICK m : m = Cardinality(met)
  OBVIOUS
<1>4. /\ Numbers(ids, met) /\ met \subseteq DOMAIN b.token
  BY <1>1, <1>2, CompactIds
<1>5. /\ DOMAIN ids = met /\ m \in Nat
      /\ \A id \in met : ids[id] \in 1..m
      /\ \A id, other \in met : ids[id] = ids[other] => id = other
      /\ \A new \in 1..m : \E id \in met : ids[id] = new
  <2>1. /\ DOMAIN ids = met /\ IsFiniteSet(met)
        /\ \A id \in met : ids[id] \in 1..m
        /\ \A id, other \in met : ids[id] = ids[other] => id = other
        /\ \A new \in 1..m : \E id \in met : ids[id] = new
    BY <1>3, <1>4, Zenon DEF Numbers
  <2>2. m \in Nat
    <3>1. IsFiniteSet(met)
      BY <2>1
    <3>2. QED
      BY <1>3, <3>1, FS_CardinalityType
  <2>3. QED
    BY <2>1, <2>2, Zenon
<1>6. b.token \in Seq(Keyword) /\ b.item \in Seq(Item)
  BY DEF Batch
<1> DEFINE Original(new) == CHOOSE id \in met : ids[id] = new
           tokens == [new \in 1..m |-> b.token[Original(new)]]
           Renamed(occurrence) == [occurrence EXCEPT !.token_id = ids[@]]
           FieldOf(i) == [k \in DOMAIN b.item[i].field |-> Renamed(b.item[i].field[k])]
           items == [i \in DOMAIN b.item |-> [id |-> b.item[i].id, field |-> FieldOf(i)]]
           Made(numbers) ==
             [EmptyBatch EXCEPT
                !.token = [new \in 1..Cardinality(DOMAIN numbers) |->
                             b.token[CHOOSE id \in DOMAIN numbers : numbers[id] = new]],
                !.item = [i \in DOMAIN b.item |->
                            [id |-> b.item[i].id,
                             field |-> [k \in DOMAIN b.item[i].field |->
                                          [b.item[i].field[k] EXCEPT !.token_id = numbers[@]]]]]]
<1>7. CompactBatch(b) = [EmptyBatch EXCEPT !.token = tokens, !.item = items]
  <2>1. CompactBatch(b) = Made(CompactedIds(b))
    BY DEF CompactBatch
  <2>2. Made(CompactedIds(b)) = Made(ids)
    <3> HIDE DEF Made
    <3>1. QED
      BY <1>1
  <2>3. DOMAIN ids = met /\ Cardinality(DOMAIN ids) = m
    BY <1>3, <1>5
  <2>4. Made(ids) = [EmptyBatch EXCEPT
                       !.token = [new \in 1..m |-> b.token[CHOOSE id \in met : ids[id] = new]],
                       !.item = items]
    BY <2>3
  <2>5. QED
    BY <2>1, <2>2, <2>4, Zenon
<1>8. PICK c : c = [token |-> tokens, class_id |-> <<>>, item |-> items]
  OBVIOUS
<1>9. c = CompactBatch(b)
  BY <1>7, <1>8 DEF EmptyBatch
<1>10. ASSUME NEW new \in 1..m PROVE Original(new) \in met /\ ids[Original(new)] = new
  BY <1>5
<1>11. tokens \in Seq(Keyword)
  <2>1. \A new \in 1..m : b.token[Original(new)] \in Keyword
    BY <1>4, <1>6, <1>10, ElementOf
  <2> HIDE DEF Original
  <2>2. tokens = [new \in 1..m |-> tokens[new]] /\ \A new \in 1..m : tokens[new] \in Keyword
    BY <2>1
  <2> HIDE DEF tokens
  <2>3. QED
    BY <1>5, <2>2, SeqMade
<1>12. ASSUME NEW id \in met
       PROVE  ids[id] \in DOMAIN tokens /\ tokens[ids[id]] = b.token[id]
  <2>1. ids[id] \in 1..m
    BY <1>5
  <2>2. Original(ids[id]) = id
    BY <1>5, <1>10, <2>1
  <2> HIDE DEF Original
  <2>3. QED
    BY <2>1, <2>2
<1>13. ASSUME NEW i \in DOMAIN b.item
       PROVE  /\ b.item[i].id \in Int
              /\ DOMAIN FieldOf(i) = DOMAIN b.item[i].field
              /\ FieldOf(i) \in Seq(Occurrence)
              /\ \A k \in DOMAIN b.item[i].field :
                   /\ b.item[i].field[k].token_id \in met
                   /\ FieldOf(i)[k].token_id = ids[b.item[i].field[k].token_id]
                   /\ FieldOf(i)[k].token_count = b.item[i].field[k].token_count
  <2>1. b.item[i] \in Item
    BY <1>6, ElementOf
  <2>2. b.item[i].id \in Int /\ b.item[i].field \in Seq(Occurrence)
    BY <2>1 DEF Item
  <2>3. PICK field \in Seq(Occurrence) : field = b.item[i].field
    BY <2>2
  <2>4. PICK n \in Nat : DOMAIN field = 1..n
    BY <2>3
  <2>5. \A k \in 1..n : field[k].token_id \in met
    BY <1>2, <1>6, <2>3, <2>4, TokenIdsHold
  <2>6. ASSUME NEW k \in 1..n
        PROVE  /\ Renamed(field[k]) \in Occurrence
               /\ Renamed(field[k]).token_id = ids[field[k].token_id]
               /\ Renamed(field[k]).token_count = field[k].token_count
    <3>1. field[k] \in Occurrence
      BY <2>4, ElementOf
    <3>2. ids[field[k].token_id] \in Int
      BY <1>5, <2>5
    <3>3. QED
      BY <3>1, <3>2 DEF Occurrence
  <2>7. FieldOf(i) = [k \in 1..n |-> Renamed(field[k])]
    BY <2>3, <2>4
  <2> HIDE DEF Renamed
  <2>8. DOMAIN FieldOf(i) = 1..n /\ \A k \in 1..n : FieldOf(i)[k] = Renamed(field[k])
    BY <2>7
  <2>9. FieldOf(i) \in Seq(Occurrence)
    BY <2>6, <2>7, <2>8
  <2> HIDE DEF FieldOf
  <2>10. QED
    BY <2>2, <2>3, <2>4, <2>5, <2>6, <2>8, <2>9
<1> HIDE DEF tokens, FieldOf, Renamed, Original
<1>14. items \in Seq(Item)
  <2>1. PICK n \in Nat : DOMAIN b.item = 1..n
    BY <1>6
  <2>2. \A i \in 1..n : [id |-> b.item[i].id, field |-> FieldOf(i)] \in Item
    BY <1>13, <2>1 DEF Item
  <2>3. items = [i \in 1..n |-> items[i]] /\ \A i \in 1..n : items[i] \in Item
    BY <2>1, <2>2
  <2> HIDE DEF items
  <2>4. QED
    BY <2>3, SeqMade
<1>15. DOMAIN items = DOMAIN b.item
       /\ \A i \in DOMAIN b.item : items[i].id = b.item[i].id /\ items[i].field = FieldOf(i)
  OBVIOUS
<1> HIDE DEF items
<1>16. <<>> \in Seq(ClassId)
  OBVIOUS
<1>17. c \in Batch /\ c.class_id = <<>> /\ c.token = tokens /\ c.item = items
  BY <1>8, <1>11, <1>14, <1>16 DEF Batch
<1>18. Compacted(b, c, ids)
  BY <1>4, <1>5, <1>12, <1>13, <1>15, <1>17 DEF Compacted
<1>19. QED
  BY <1>1, <1>9, <1>18

-----------------------------------------------------------------------------
(* What a batch says after it is added to the loader.                      *)
\* Every token has the default class, by its name or for want of one.
AllDefault(b) == \A id \in DOMAIN b.token : PopulateClassId(b).class_id[id] = DefaultClass

\* CompactBatch drops the class ids: it is used on batches that need none.
CompactsUntagged == TRUE \in CompactBatches => \A b \in UserBatches : AllDefault(b)

LEMMA CompactKeeps ==
  ASSUME NEW b \in Batch, HasValidIds(b), AllDefault(b)
  PROVE  /\ CompactBatch(b) \in Batch /\ HasValidIds(CompactBatch(b))
         /\ Documents(CompactBatch(b)) = Documents(b)
<1>1. PICK c : c = CompactBatch(b)
  OBVIOUS
<1>2. PICK ids : ids = CompactedIds(b)
  OBVIOUS
<1>3. Compacted(b, c, ids)
  BY <1>1, <1>2, CompactIs
<1>4. c \in Batch /\ c.class_id = <<>> /\ DOMAIN c.item = DOMAIN b.item
  BY <1>3 DEF Compacted
<1>5. \A id \in DOMAIN c.token : PopulateClassId(c).class_id[id] = DefaultClass
  BY <1>4, PopulateIs
<1>6. ASSUME NEW i \in DOMAIN b.item, NEW k \in DOMAIN b.item[i].field
      PROVE  /\ c.item[i].field[k].token_id \in DOMAIN c.token
             /\ Word(c, c.item[i].field[k]) = Word(b, b.item[i].field[k])
  <2>1. PICK id : id = b.item[i].field[k].token_id
    OBVIOUS
  <2>2. /\ id \in DOMAIN ids /\ c.item[i].field[k].token_id = ids[id]
        /\ c.item[i].field[k].token_count = b.item[i].field[k].token_count
    BY <1>3, <2>1 DEF Compacted
  <2>3. id \in DOMAIN b.token /\ ids[id] \in DOMAIN c.token /\ c.token[ids[id]] = b.token[id]
    BY <1>3, <2>2 DEF Compacted
  <2>4. PopulateClassId(c).class_id[ids[id]] = DefaultClass /\ PopulateClassId(b).class_id[id] = DefaultClass
    BY <1>5, <2>3 DEF AllDefault
  <2>5. QED
    BY <2>1, <2>2, <2>3, <2>4 DEF Word
<1>7. \A i \in DOMAIN b.item : c.item[i].id = b.item[i].id /\ DOMAIN c.item[i].field = DOMAIN b.item[i].field
  BY <1>3 DEF Compacted
<1>8. Refers(c)
  BY <1>4, <1>6, <1>7 DEF Refers
<1>9. Documents(c) = Documents(b)
  <2>1. \A i \in DOMAIN b.item :
          [k \in DOMAIN c.item[i].field |-> Word(c, c.item[i].field[k])]
            = [k \in DOMAIN b.item[i].field |-> Word(b, b.item[i].field[k])]
    BY <1>6, <1>7
  <2>2. QED
    BY <1>4, <1>7, <2>1 DEF Documents
<1>10. QED
  BY <1>1, <1>4, <1>8, <1>9, IdsAreValid

LEMMA LoadedKeeps ==
  ASSUME NEW new \in Batch, NEW compact \in BOOLEAN,
         compact => HasValidIds(new) /\ AllDefault(new),
         NEW loads, loads = PopulateClassId(IF compact THEN CompactBatch(new) ELSE new)
  PROVE  HasValidIds(new) => HasValidIds(loads) /\ Documents(loads) = Documents(new)
<1>1. CASE compact
  <2>1. /\ CompactBatch(new) \in Batch /\ HasValidIds(CompactBatch(new))
        /\ Documents(CompactBatch(new)) = Documents(new)
    BY <1>1, CompactKeeps
  <2>2. loads = PopulateClassId(CompactBatch(new))
    BY <1>1
  <2>3. QED
    BY <2>1, <2>2, PopulateKeeps
<1>2. CASE ~compact
  <2>1. loads = PopulateClassId(new)
    BY <1>2
  <2>2. QED
    BY <2>1, PopulateKeeps
<1>3. QED
  BY <1>1, <1>2

ContentInv ==
  /\ added \in Seq(Batch) /\ DOMAIN generation = DOMAIN added
  /\ \E n \in Nat : generation = [i \in 1..n |-> generation[i]]
  /\ ContentKept

LEMMA ContentInit == Init => ContentInv
<1> SUFFICES ASSUME Init PROVE ContentInv
  OBVIOUS
<1>1. generation = <<>> /\ added = <<>>
  BY DEF Init
<1>2. 0 \in Nat /\ generation = [i \in 1..0 |-> generation[i]]
  BY <1>1
<1>3. QED
  BY <1>1, <1>2 DEF ContentInv, ContentKept

\* A batch more, which says what it said.
LEMMA ContentAdded ==
  ASSUME ContentInv, NEW new \in Batch, NEW loads,
         HasValidIds(new) => HasValidIds(loads) /\ Documents(loads) = Documents(new),
         generation' = Append(generation, loads), added' = Append(added, new)
  PROVE  ContentInv'
<1>1. PICK n : n = Len(added)
  OBVIOUS
<1>2. PICK old : old = added
  OBVIOUS
<1>3. PICK loaded_before : loaded_before = generation
  OBVIOUS
<1>4. old \in Seq(Batch) /\ DOMAIN loaded_before = DOMAIN old
      /\ \E m \in Nat : loaded_before = [i \in 1..m |-> loaded_before[i]]
  BY <1>2, <1>3 DEF ContentInv
<1>5. PICK S : loaded_before \in Seq(S)
  <2>1. PICK m \in Nat : loaded_before = [i \in 1..m |-> loaded_before[i]]
    BY <1>4
  <2>2. PICK S : S = {loaded_before[i] : i \in 1..m}
    OBVIOUS
  <2>3. \A i \in 1..m : loaded_before[i] \in S
    BY <2>2
  <2>4. loaded_before \in Seq(S)
    BY <2>1, <2>3, SeqMade
  <2>5. QED
    BY <2>4
<1>6. Len(loaded_before) = n /\ n \in Nat
  BY <1>1, <1>2, <1>4, <1>5
<1>7. PICK more : more = Append(old, new)
  OBVIOUS
<1>8. PICK longer : longer = Append(loaded_before, loads)
  OBVIOUS
<1>9. /\ DOMAIN more = 1..(n + 1) /\ more[n + 1] = new /\ DOMAIN old = 1..n
      /\ \A i \in 1..n : more[i] = old[i]
  BY <1>1, <1>2, <1>4, <1>7, AppendIs
<1>10. /\ DOMAIN longer = 1..(n + 1) /\ longer[n + 1] = loads
       /\ longer = [i \in 1..(n + 1) |-> longer[i]]
       /\ \A i \in 1..n : longer[i] = loaded_before[i]
  BY <1>5, <1>6, <1>8, AppendIs
<1>11. more \in Seq(Batch)
  BY <1>4, <1>7, AppendTyped
<1>12. \A i \in 1..(n + 1) : i \in 1..n \/ i = n + 1
  BY <1>6
<1>13. \A i \in 1..n :
         HasValidIds(old[i]) =>
           HasValidIds(loaded_before[i]) /\ Documents(loaded_before[i]) = Documents(old[i])
  BY <1>2, <1>3, <1>4, <1>9, Zenon DEF ContentInv, ContentKept
<1>14. \A i \in DOMAIN longer :
         HasValidIds(more[i]) => HasValidIds(longer[i]) /\ Documents(longer[i]) = Documents(more[i])
  BY <1>9, <1>10, <1>12, <1>13
<1>15. added' = more /\ generation' = longer
  BY <1>2, <1>3, <1>7, <1>8
<1>16. n + 1 \in Nat
  BY <1>6
<1>17. QED
  <2>1. (added \in Seq(Batch) /\ DOMAIN generation = DOMAIN added
         /\ \E m \in Nat : generation = [i \in 1..m |-> generation[i]])'
    BY <1>9, <1>10, <1>11, <1>15, <1>16
  <2>2. ContentKept'
    BY <1>14, <1>15 DEF ContentKept
  <2>3. QED
    BY <2>1, <2>2 DEF ContentInv

LEMMA ContentStep ==
  ASSUME CompactsUntagged
  PROVE  ParserInv /\ DocInv /\ ContentInv /\ [Next]_vars => ContentInv'
<1> SUFFICES ASSUME ParserInv, DocInv, ContentInv, [Next]_vars PROVE ContentInv'
  OBVIOUS
<1>1. ASSUME UNCHANGED loaded PROVE ContentInv'
  <2>1. UNCHANGED <<generation, added>>
    BY <1>1 DEF loaded
  <2>2. ContentKept'
    BY <2>1 DEF ContentInv, ContentKept
  <2>3. QED
    BY <2>1, <2>2 DEF ContentInv
<1>2. ASSUME Parse \/ UNCHANGED vars PROVE ContentInv'
  <2>1. UNCHANGED loaded
    BY <1>2 DEF Parse, ReadVocab, InvalidLine, ZeroLine, ParsedLine, EndOfFile, vars
  <2>2. QED
    BY <1>1, <2>1
<1>3. ASSUME NEW new \in Batch, NEW compact \in CompactBatches, AddBatch(new, compact), compact => AllDefault(new)
      PROVE  ContentInv'
  <2>1. compact \in BOOLEAN /\ (compact => HasValidIds(new))
    BY <1>3, ParserAssumption DEF AddBatch
  <2>2. PICK loads : loads = PopulateClassId(IF compact THEN CompactBatch(new) ELSE new)
    OBVIOUS
  <2>3. generation' = Append(generation, loads) /\ added' = Append(added, new)
    BY <1>3, <2>2 DEF AddBatch
  <2>4. HasValidIds(new) => HasValidIds(loads) /\ Documents(loads) = Documents(new)
    BY <1>3, <2>1, <2>2, LoadedKeeps
  <2>5. QED
    BY <2>3, <2>4, ContentAdded
<1>4. ASSUME NEW compact \in CompactBatches, NEW i \in DOMAIN target_folder, AddBatch(LoadBatch(i), compact)
      PROVE  ContentInv'
  <2>1. target_folder \in Seq(Batch) /\ RefersOK(target_folder[i])
    BY DEF ParserInv, TypeOK, DocInv
  <2>2. PICK b \in Batch : b = target_folder[i]
    BY <2>1, ElementOf
  <2>3. b.class_id = <<>>
    BY <2>1, <2>2 DEF RefersOK
  <2>4. PICK p : p = LoadBatch(i)
    OBVIOUS
  <2>5. p = PopulateClassId(b)
    BY <2>2, <2>4 DEF LoadBatch
  <2>6. p \in Batch /\ p.token = b.token /\ PopulateClassId(p) = p
        /\ \A id \in DOMAIN b.token : p.class_id[id] = DefaultClass
    BY <2>3, <2>5, PopulateIs
  <2>7. AllDefault(p)
    BY <2>6 DEF AllDefault
  <2>8. QED
    BY <1>3, <1>4, <2>4, <2>6, <2>7
<1>5. ASSUME NEW compact \in CompactBatches, NEW new \in UserBatches, AddBatch(new, compact)
      PROVE  ContentInv'
  <2>1. new \in Batch /\ compact \in BOOLEAN
    BY ParserAssumption
  <2>2. compact => AllDefault(new)
    BY <2>1 DEF CompactsUntagged
  <2>3. QED
    BY <1>3, <1>5, <2>1, <2>2
<1>6. QED
  BY <1>2, <1>4, <1>5 DEF Next

\* data_loader.cc:96-110, helpers.cc CompactBatch, PopulateClassId: a batch says the same
\* before and after it is added to the loader, whatever its tokens and their use, when the
\* batches that are compacted name no other class than the default one.
THEOREM ContentIsKept ==
  ASSUME CompactsUntagged
  PROVE  Spec => []ContentKept
<1>1. Init => ParserInv /\ DocInv /\ ContentInv
  BY InitOK, DocumentsInit, ContentInit
<1>2. ParserInv /\ DocInv /\ ContentInv /\ [Next]_vars => ParserInv' /\ DocInv' /\ ContentInv'
  BY StepOK, DocumentsStep, ContentStep
<1>3. Spec => [](ParserInv /\ DocInv /\ ContentInv)
  BY <1>1, <1>2, PTL DEF Spec
<1>4. ContentInv => ContentKept
  BY DEF ContentInv
<1>5. QED
  BY <1>3, <1>4, PTL
=============================================================================
