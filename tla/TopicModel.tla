---------------------------- MODULE TopicModel ----------------------------
(***************************************************************************)
(* artm::core::TopicModel (core/topic_model.cc): the counters n_wt, the    *)
(* additions of regularizers r_wt, and for each class the normalizer n_t.  *)
(* A token's weight in topic t is max(n_wt + r_wt, 0) / n_t, so n_t has to *)
(* be the sum of the numerators; the code never sums, it adjusts n_t with  *)
(* every change of a weight.                                               *)
(*                                                                         *)
(* Weights are integers (rounding of floats is left out), and a row of     *)
(* weights changes as a whole: the code's loops over topics are            *)
(* independent of each other.  Ids begin with 1.                           *)
(***************************************************************************)
EXTENDS Integers, Sequences

CONSTANTS ClassId, DefaultClass, Keyword, Topic

ASSUME TopicModelAssumption == DefaultClass \in ClassId

Token == [class_id : ClassId, keyword : Keyword]
Row == [Topic -> Int]
ZeroRow == [t \in Topic |-> 0]

UnknownId == -1

\* f with value v for x, which need not be in its domain.
With(f, x, v) == [y \in DOMAIN f \cup {x} |-> IF y = x THEN v ELSE f[y]]

Plus(row, other) == [t \in Topic |-> row[t] + other[t]]

-----------------------------------------------------------------------------
token_size(model) == Len(model.n_wt)
has_token(model, token) == token \in DOMAIN model.token_to_token_id
token_id(model, token) ==
  IF has_token(model, token) THEN model.token_to_token_id[token] ELSE UnknownId

CreateNormalizerVector(n_t, class) == With(n_t, class, ZeroRow)

NewTopicModel ==
  [token_to_token_id |-> [token \in {} |-> 0], token_id_to_token |-> <<>>,
   n_wt |-> <<>>, r_wt |-> <<>>, n_t |-> [class \in {DefaultClass} |-> ZeroRow]]

\* A new token gets the weights init: random ones, or zeros.
Appended(model, token, init) ==
  LET class == token.class_id
      n_t == IF class \in DOMAIN model.n_t THEN model.n_t
             ELSE CreateNormalizerVector(model.n_t, class)
  IN [token_to_token_id |-> With(model.token_to_token_id, token, token_size(model) + 1),
      token_id_to_token |-> Append(model.token_id_to_token, token),
      n_wt |-> Append(model.n_wt, init),
      r_wt |-> Append(model.r_wt, ZeroRow),
      n_t |-> [n_t EXCEPT ![class] = Plus(@, init)]]

AddToken(model, token, init) ==
  IF has_token(model, token) THEN model ELSE Appended(model, token, init)

\* Mutant of Adjusted: adds what a weight changed by, whatever its sign.
AdjustedBySum(n, old, new) == n + (new - old)

\* The normalizer after a weight changed from old to new (n_wt + r_wt).
Adjusted(n, old, new) ==
  IF old < 0
  THEN IF new > 0 THEN n + new ELSE n
  ELSE IF new > 0 THEN n + (new - old) ELSE n - old

\* Token id gets the rows n and r.
SetRows(model, id, n, r) ==
  LET class == model.token_id_to_token[id].class_id
      old == Plus(model.n_wt[id], model.r_wt[id])
      new == Plus(n, r)
  IN [token_to_token_id |-> model.token_to_token_id,
      token_id_to_token |-> model.token_id_to_token,
      n_wt |-> [model.n_wt EXCEPT ![id] = n],
      r_wt |-> [model.r_wt EXCEPT ![id] = r],
      n_t |-> [model.n_t EXCEPT ![class] = [t \in Topic |-> Adjusted(@[t], old[t], new[t])]]]

SetTokenWeight(model, id, row) == SetRows(model, id, row, model.r_wt[id])
IncreaseTokenWeight(model, id, row) ==
  SetRows(model, id, Plus(model.n_wt[id], row), model.r_wt[id])
SetRegularizerWeight(model, id, row) == SetRows(model, id, model.n_wt[id], row)
IncreaseRegularizerWeight(model, id, row) ==
  SetRows(model, id, model.n_wt[id], Plus(model.r_wt[id], row))

-----------------------------------------------------------------------------
(* ApplyDiff takes the tokens one after the other.  An entry is a token,   *)
(* the weights it gets in case it is new, and its counters: a discovered   *)
(* token comes with random weights and no counters, the others get zeros.  *)
Entry == [token : Token, init : [Topic -> Nat], counters : Row]

Discovered(token, init) == [token |-> token, init |-> init, counters |-> ZeroRow]
Counted(token, row) == [token |-> token, init |-> ZeroRow, counters |-> row]

\* Mutant of ApplyEntry: a token that had to be added does not get its counters.
ApplyKnownEntry(model, entry) ==
  IF has_token(model, entry.token)
  THEN IncreaseTokenWeight(model, model.token_to_token_id[entry.token], entry.counters)
  ELSE AddToken(model, entry.token, entry.init)

ApplyEntry(model, entry) ==
  LET added == AddToken(model, entry.token, entry.init)
  IN IncreaseTokenWeight(added, added.token_to_token_id[entry.token], entry.counters)

Applied(model, diff) ==
  LET applied[i \in 0..Len(diff)] ==
        IF i = 0 THEN model ELSE ApplyEntry(applied[i - 1], diff[i])
  IN applied

ApplyDiff(model, diff) == Applied(model, diff)[Len(diff)]

\* What is read from a model: its tokens with their counters.
RetrieveModelIncrement(model) ==
  [i \in 1..token_size(model) |-> Counted(model.token_id_to_token[i], model.n_wt[i])]

-----------------------------------------------------------------------------
(* The external form: a sequence of tokens with their rows.  A model that  *)
(* is retrieved carries n_wt and r_wt as internals, one that a user wrote  *)
(* has weights only.                                                       *)
ExternalToken == [token : Token, n : Row, r : Row]

RetrieveExternalTopicModel(model) ==
  [i \in 1..token_size(model) |->
     [token |-> model.token_id_to_token[i], n |-> model.n_wt[i], r |-> model.r_wt[i]]]

\* Mutant of LoadToken: without the additions of regularizers.
LoadWeights(model, external) ==
  LET added == AddToken(model, external.token, ZeroRow)
  IN SetTokenWeight(added, added.token_to_token_id[external.token], external.n)

LoadToken(model, external) ==
  LET added == AddToken(model, external.token, ZeroRow)
      id == added.token_to_token_id[external.token]
  IN SetRegularizerWeight(SetTokenWeight(added, id, external.n), id, external.r)

Loaded(external) ==
  LET loaded[i \in 0..Len(external)] ==
        IF i = 0 THEN NewTopicModel ELSE LoadToken(loaded[i - 1], external[i])
  IN loaded

CopyFromExternalTopicModel(external) == Loaded(external)[Len(external)]

-----------------------------------------------------------------------------
\* Weight() is 0 / 0 where the normalizer is 0.
IsNaN(model, token, t) == model.n_t[token.class_id][t] = 0

IsPositive(model, id, t) == model.n_wt[id][t] + model.r_wt[id][t] > 0

-----------------------------------------------------------------------------
(* What makes a model well-formed.                                         *)
TokensOK(model) ==
  /\ model = [token_to_token_id |-> model.token_to_token_id,
              token_id_to_token |-> model.token_id_to_token,
              n_wt |-> model.n_wt, r_wt |-> model.r_wt, n_t |-> model.n_t]
  /\ model.token_id_to_token \in Seq(Token)
  /\ model.n_wt \in Seq(Row) /\ model.r_wt \in Seq(Row)
  /\ Len(model.n_wt) = Len(model.token_id_to_token)
  /\ Len(model.r_wt) = Len(model.token_id_to_token)
  /\ DOMAIN model.token_to_token_id \subseteq Token
  /\ \A token \in DOMAIN model.token_to_token_id :
       /\ model.token_to_token_id[token] \in 1..token_size(model)
       /\ model.token_id_to_token[model.token_to_token_id[token]] = token
  /\ \A id \in 1..token_size(model) :
       /\ model.token_id_to_token[id] \in DOMAIN model.token_to_token_id
       /\ model.token_to_token_id[model.token_id_to_token[id]] = id
       /\ model.token_id_to_token[id].class_id \in DOMAIN model.n_t
  /\ DOMAIN model.n_t \subseteq ClassId
  /\ DefaultClass \in DOMAIN model.n_t
  /\ \A class \in DOMAIN model.n_t : model.n_t[class] \in Row

\* What token id contributes to the normalizer of a class in topic t.
Positive(x) == IF x > 0 THEN x ELSE 0

Contribution(model, class, t, id) ==
  IF model.token_id_to_token[id].class_id = class
  THEN Positive(model.n_wt[id][t] + model.r_wt[id][t]) ELSE 0

Contributions(model, class, t) ==
  [id \in 1..token_size(model) |-> Contribution(model, class, t, id)]

\* The sums of the first 0, 1, ..., n items.
Sums(items, n) ==
  LET sum[i \in 0..n] == IF i = 0 THEN 0 ELSE sum[i - 1] + items[i]
  IN sum

Total(model, class, t) == Sums(Contributions(model, class, t), token_size(model))[token_size(model)]

NormalizerOK(model) ==
  \A class \in DOMAIN model.n_t, t \in Topic : model.n_t[class][t] = Total(model, class, t)
=============================================================================
