------------------------- MODULE MCCollectionParser -------------------------
(* A small collection for TLC. *)
EXTENDS CollectionParser

ThreeWords == <<12, 11, 13>>

\* The right one, one with a token too many, one without documents and one
\* without words.
Headers ==
  {[num_docs |-> docs, num_unique_tokens |-> tokens, num_tokens |-> words] :
     <<docs, tokens, words>> \in {<<2, 3, 5>>, <<2, 4, 5>>, <<0, 3, 5>>, <<2, 3, 0>>}}

Words(a, b) == <<[token_id |-> a, token_count |-> 1], [token_id |-> b, token_count |-> 2]>>

\* Token 1 is not used; a token id out of range.
Untagged ==
  {[token |-> <<11, 12, 13>>, class_id |-> <<>>,
    item |-> <<[id |-> 1, field |-> Words(3, 2)], [id |-> 2, field |-> Words(2, 2)]>>],
   [token |-> <<11>>, class_id |-> <<>>, item |-> <<[id |-> 1, field |-> Words(1, 2)]>>]}

Tagged ==
  {[token |-> <<11, 12>>, class_id |-> <<"text", "author">>,
    item |-> <<[id |-> 1, field |-> Words(1, 2)]>>]}
MayExist == {{}, {"dictionary"}, {"cooccurrence"}}
NoneExist == {{}}
=============================================================================
