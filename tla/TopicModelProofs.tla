------------------------- MODULE TopicModelProofs -------------------------
(***************************************************************************)
(* Proofs about TopicModel and ModelUpdates, for every number of tokens,   *)
(* classes and topics and every sequence of updates: the normalizers are   *)
(* exact, an increment adds what it says, a model is what its external     *)
(* form says, and a new token has weights before it is counted.  The       *)
(* model's folds are recursive functions; what holds along one is shown by *)
(* Induction, after a lemma that the function exists.                      *)
(***************************************************************************)
EXTENDS ModelUpdates, NaturalsInduction, WellFoundedInduction, SequenceTheorems, TLAPS

-----------------------------------------------------------------------------
\* What holds for 0 and is kept from i - 1 to i holds up to n.
LEMMA Induction ==
  ASSUME NEW n \in Nat, NEW P, 0 \in P,
         \A i \in 1..n : i - 1 \in P => i \in P
  PROVE  \A i \in 0..n : i \in P
<1> DEFINE S == (0..n) \ P
           R == {ss \in Nat \X Nat : ss[1] < ss[2]}
<1> SUFFICES ASSUME S # {} PROVE FALSE
  OBVIOUS
<1>1. IsWellFoundedOn(R, Nat)
  BY NatLessThanWellFounded, Zenon DEF OpToRel
<1>2. \A x, y \in Nat : x < y => <<x, y>> \in R
  OBVIOUS
<1> HIDE DEF R
<1>3. S \in SUBSET Nat
  OBVIOUS
<1>4. PICK x \in S : \A y \in S : ~ (<<y, x>> \in R)
  BY <1>1, <1>3, WFMin
<1>5. x \in 1..n /\ x - 1 \in 0..n /\ x - 1 \in Nat /\ x \in Nat /\ x - 1 < x
  OBVIOUS
<1>6. x - 1 \notin S
  BY <1>2, <1>4, <1>5
<1>7. QED
  BY <1>5, <1>6

-----------------------------------------------------------------------------
(* Sums of integers.                                                       *)
IsSum(s, c, n) == s = [i \in 0..n |-> IF i = 0 THEN 0 ELSE s[i - 1] + c[i]]

\* The sums of a sequence of integers exist.
LEMMA SumExists ==
  ASSUME NEW n \in Nat, NEW c
  PROVE  \E s : IsSum(s, c, n)
<1> DEFINE P == {k \in 0..n : \E s : IsSum(s, c, k)}
<1>1. 0 \in P
  <2>1. IsSum([i \in 0..0 |-> 0], c, 0)
    BY DEF IsSum
  <2>2. QED
    BY <2>1
<1>2. ASSUME NEW k \in 1..n, k - 1 \in P PROVE k \in P
  <2>1. PICK s : IsSum(s, c, k - 1)
    BY <1>2
  <2> DEFINE e == [i \in 0..k |-> IF i = k THEN s[k - 1] + c[k] ELSE s[i]]
  <2>2. \A i \in 0..(k - 1) : s[i] = IF i = 0 THEN 0 ELSE s[i - 1] + c[i]
    BY <2>1 DEF IsSum
  <2>3. ASSUME NEW i \in 0..k PROVE e[i] = IF i = 0 THEN 0 ELSE e[i - 1] + c[i]
    <3>1. CASE i = k
      BY <3>1
    <3>2. CASE i # k
      <4>1. i \in 0..(k - 1)
        BY <3>2
      <4>2. i # 0 => i - 1 \in 0..k /\ i - 1 # k
        BY <3>2
      <4>3. QED
        BY <2>2, <3>2, <4>1, <4>2
    <3>3. QED
      BY <3>1, <3>2
  <2>4. IsSum(e, c, k)
    BY <2>3 DEF IsSum
  <2>5. QED
    BY <2>4
<1>3. \A i \in 0..n : i \in P
  BY <1>1, <1>2, Induction
<1>4. QED
  BY <1>3

LEMMA SumType ==
  ASSUME NEW n \in Nat, NEW c, \A i \in 1..n : c[i] \in Int,
         NEW s, IsSum(s, c, n)
  PROVE  \A i \in 0..n : s[i] \in Int
<1> DEFINE P == {k \in 0..n : s[k] \in Int}
<1>0. \A i \in 0..n : s[i] = IF i = 0 THEN 0 ELSE s[i - 1] + c[i]
  BY DEF IsSum
<1>1. 0 \in P
  BY <1>0
<1>2. \A i \in 1..n : i - 1 \in P => i \in P
  BY <1>0
<1> HIDE DEF P
<1>3. \A i \in 0..n : i \in P
  BY <1>1, <1>2, Induction
<1>4. QED
  BY <1>3 DEF P

LEMMA SumsOK ==
  ASSUME NEW n \in Nat, NEW c
  PROVE  IsSum(Sums(c, n), c, n)
<1>1. PICK s : IsSum(s, c, n)
  BY SumExists
<1>2. QED
  BY <1>1 DEF IsSum, Sums

\* When the items of one sequence are those of another, except that one has d
\* more, so has the sum.
IntItems(c, n) == \A i \in 1..n : c[i] \in Int
OneChanged(c, e, n, id, d) == \A i \in 1..n : e[i] = IF i = id THEN c[i] + d ELSE c[i]

LEMMA SumChange ==
  ASSUME NEW n \in Nat, NEW c, IntItems(c, n),
         NEW e, NEW id \in 1..n, NEW d \in Int, OneChanged(c, e, n, id, d)
  PROVE  Sums(e, n)[n] = Sums(c, n)[n] + d
<1> DEFINE s == Sums(c, n)
           u == Sums(e, n)
<1>s. IsSum(s, c, n) /\ IsSum(u, e, n)
  BY SumsOK
<1> HIDE DEF s, u
<1> DEFINE P == {k \in 0..n : u[k] = IF k < id THEN s[k] ELSE s[k] + d}
<1>0. /\ \A i \in 0..n : s[i] = IF i = 0 THEN 0 ELSE s[i - 1] + c[i]
      /\ \A i \in 0..n : u[i] = IF i = 0 THEN 0 ELSE u[i - 1] + e[i]
  BY <1>s DEF IsSum
<1>t. \A i \in 0..n : s[i] \in Int
  BY <1>s, SumType DEF IntItems
<1>1. 0 \in P
  BY <1>0
<1>2. ASSUME NEW i \in 1..n, i - 1 \in P PROVE i \in P
  <2>1. i - 1 \in 0..n /\ i \in 0..n /\ s[i - 1] \in Int /\ c[i] \in Int
    BY <1>t DEF IntItems
  <2>2. s[i] = s[i - 1] + c[i] /\ u[i] = u[i - 1] + (IF i = id THEN c[i] + d ELSE c[i])
    BY <1>0 DEF OneChanged
  <2>3. u[i - 1] = IF i - 1 < id THEN s[i - 1] ELSE s[i - 1] + d
    BY <1>2
  <2>4. CASE i < id
    BY <2>1, <2>2, <2>3, <2>4
  <2>5. CASE i = id
    BY <2>1, <2>2, <2>3, <2>5
  <2>6. CASE i > id
    BY <2>1, <2>2, <2>3, <2>6
  <2>7. QED
    BY <2>4, <2>5, <2>6
<1> HIDE DEF P
<1>3. \A i \in 0..n : i \in P
  BY <1>1, <1>2, Induction
<1>4. n \in P
  BY <1>3
<1>5. QED
  BY <1>4 DEF P, s, u

\* Equal items up to n have equal sums up to n.
LEMMA SumSame ==
  ASSUME NEW n \in Nat, NEW m \in Nat, n <= m,
         NEW c, NEW e, \A i \in 1..n : e[i] = c[i],
         NEW s, IsSum(s, c, n), NEW u, IsSum(u, e, m)
  PROVE  u[n] = s[n]
<1> DEFINE P == {k \in 0..n : u[k] = s[k]}
<1>0. /\ \A i \in 0..n : s[i] = IF i = 0 THEN 0 ELSE s[i - 1] + c[i]
      /\ \A i \in 0..n : u[i] = IF i = 0 THEN 0 ELSE u[i - 1] + e[i]
  BY DEF IsSum
<1>1. 0 \in P
  BY <1>0
<1>2. \A i \in 1..n : i - 1 \in P => i \in P
  BY <1>0
<1> HIDE DEF P
<1>3. \A i \in 0..n : i \in P
  BY <1>1, <1>2, Induction
<1>4. QED
  BY <1>3 DEF P

LEMMA SumOfZeros ==
  ASSUME NEW n \in Nat, NEW c, \A i \in 1..n : c[i] = 0
  PROVE  Sums(c, n)[n] = 0
<1> DEFINE P == {k \in 0..n : Sums(c, n)[k] = 0}
<1>0. \A i \in 0..n : Sums(c, n)[i] = IF i = 0 THEN 0 ELSE Sums(c, n)[i - 1] + c[i]
  BY SumsOK DEF IsSum
<1>1. 0 \in P
  BY <1>0
<1>2. \A i \in 1..n : i - 1 \in P => i \in P
  BY <1>0
<1> HIDE DEF P
<1>3. n \in P
  BY <1>1, <1>2, Induction
<1>4. QED
  BY <1>3 DEF P

-----------------------------------------------------------------------------
(* The operations on a model.                                              *)
\* The two maps are functions, and a class has a normalizer because a token of
\* the model belongs to it.
ShapeOK(model) ==
  /\ model.token_to_token_id = [token \in DOMAIN model.token_to_token_id |-> model.token_to_token_id[token]]
  /\ model.n_t = [class \in DOMAIN model.n_t |-> model.n_t[class]]
  /\ \A class \in DOMAIN model.n_t :
       \/ class = DefaultClass
       \/ \E id \in 1..token_size(model) : model.token_id_to_token[id].class_id = class

GoodModel(model) == TokensOK(model) /\ NormalizerOK(model) /\ ShapeOK(model)

\* The sign cases of the code compute the difference of the positive parts.
LEMMA AdjustedIsDifference ==
  ASSUME NEW n \in Int, NEW old \in Int, NEW new \in Int
  PROVE  Adjusted(n, old, new) = n + (Positive(new) - Positive(old))
BY DEF Adjusted, Positive

LEMMA ContributionType ==
  ASSUME NEW model, TokensOK(model), NEW class, NEW t \in Topic,
         NEW id \in 1..token_size(model)
  PROVE  /\ Contributions(model, class, t)[id] = Contribution(model, class, t, id)
         /\ Contribution(model, class, t, id) \in Int
<1>1. model.n_wt[id] \in Row /\ model.r_wt[id] \in Row
  BY DEF TokensOK, token_size
<1>2. QED
  BY <1>1 DEF Contributions, Contribution, Positive, Row

\* Changing the rows of one token changes the total of its class by the
\* difference of its positive parts.
LEMMA SetRowsTotal ==
  ASSUME NEW model, TokensOK(model), NEW id \in 1..token_size(model),
         NEW n \in Row, NEW r \in Row, NEW class, NEW t \in Topic,
         NEW new, new = SetRows(model, id, n, r)
  PROVE  Total(new, class, t) = Total(model, class, t) +
           (IF class = model.token_id_to_token[id].class_id
            THEN Positive(n[t] + r[t]) - Positive(model.n_wt[id][t] + model.r_wt[id][t])
            ELSE 0)
<1> DEFINE N == token_size(model)
           d == IF class = model.token_id_to_token[id].class_id
                THEN Positive(n[t] + r[t]) - Positive(model.n_wt[id][t] + model.r_wt[id][t])
                ELSE 0
<1>0. N \in Nat /\ id \in 1..N
  BY DEF TokensOK, token_size
<1>1. /\ new.token_id_to_token = model.token_id_to_token
      /\ new.n_wt = [model.n_wt EXCEPT ![id] = n]
      /\ new.r_wt = [model.r_wt EXCEPT ![id] = r]
  BY DEF SetRows, TokensOK
<1>2. token_size(new) = N /\ DOMAIN model.n_wt = 1..N /\ DOMAIN model.r_wt = 1..N
  BY <1>1 DEF TokensOK, token_size
<1>3. d \in Int
  <2>1. model.n_wt[id] \in Row /\ model.r_wt[id] \in Row
    BY DEF TokensOK, token_size
  <2>2. QED
    BY <2>1 DEF Positive, Row
<1>4. ASSUME NEW i \in 1..N
      PROVE  Contribution(new, class, t, i) =
               IF i = id THEN Contribution(model, class, t, i) + d ELSE Contribution(model, class, t, i)
  <2>0. model.n_wt[i] \in Row /\ model.r_wt[i] \in Row
    BY DEF TokensOK, token_size
  <2>1. CASE i = id
    <3>1. new.n_wt[i] = n /\ new.r_wt[i] = r
      BY <1>1, <1>2, <2>1
    <3>2. QED
      BY <1>1, <2>0, <2>1, <3>1 DEF Contribution, Positive, Row
  <2>2. CASE i # id
    <3>1. new.n_wt[i] = model.n_wt[i] /\ new.r_wt[i] = model.r_wt[i]
      BY <1>1, <1>2, <2>2
    <3>2. QED
      BY <1>1, <2>2, <3>1 DEF Contribution
  <2>3. QED
    BY <2>1, <2>2
<1> DEFINE c == Contributions(model, class, t)
           e == Contributions(new, class, t)
<1>5. \A i \in 1..N : c[i] = Contribution(model, class, t, i) /\ c[i] \in Int
                      /\ e[i] = Contribution(new, class, t, i)
  BY <1>2, ContributionType DEF Contributions
<1>6. IntItems(c, N) /\ OneChanged(c, e, N, id, d)
  BY <1>4, <1>5 DEF IntItems, OneChanged
<1> HIDE DEF d, N, c, e
<1>8. Sums(e, N)[N] = Sums(c, N)[N] + d
  BY <1>0, <1>3, <1>6, SumChange
<1>9. QED
  BY <1>2, <1>8 DEF Total, N, d, c, e

\* Adding a token adds what it contributes.
LEMMA AppendedTotal ==
  ASSUME NEW model, TokensOK(model), NEW token \in Token, NEW init \in [Topic -> Nat],
         NEW class, NEW t \in Topic, NEW new, new = Appended(model, token, init)
  PROVE  Total(new, class, t) = Total(model, class, t) +
           (IF class = token.class_id THEN init[t] ELSE 0)
<1> DEFINE N == token_size(model)
           c == Contributions(model, class, t)
           e == Contributions(new, class, t)
           d == IF class = token.class_id THEN init[t] ELSE 0
<1>0. N \in Nat /\ d \in Int
  BY DEF TokensOK, token_size
<1>1. /\ new.token_id_to_token = Append(model.token_id_to_token, token)
      /\ new.n_wt = Append(model.n_wt, init)
      /\ new.r_wt = Append(model.r_wt, ZeroRow)
  BY DEF Appended
<1>2. token_size(new) = N + 1
  BY <1>1 DEF TokensOK, token_size
<1>3. \A i \in 1..N : e[i] = c[i]
  <2> SUFFICES ASSUME NEW i \in 1..N PROVE e[i] = c[i]
    OBVIOUS
  <2>1. /\ new.token_id_to_token[i] = model.token_id_to_token[i]
        /\ new.n_wt[i] = model.n_wt[i] /\ new.r_wt[i] = model.r_wt[i]
    BY <1>1 DEF TokensOK, token_size
  <2>2. QED
    BY <1>0, <1>2, <2>1 DEF Contributions, Contribution
<1>4. e[N + 1] = d
  <2>1. /\ new.token_id_to_token[N + 1] = token
        /\ new.n_wt[N + 1] = init /\ new.r_wt[N + 1] = ZeroRow
    BY <1>1 DEF TokensOK, token_size
  <2>2. init[t] \in Nat /\ ZeroRow[t] = 0
    BY DEF ZeroRow
  <2>3. e[N + 1] = Contribution(new, class, t, N + 1)
    BY <1>0, <1>2 DEF Contributions
  <2>4. QED
    BY <2>1, <2>2, <2>3 DEF Contribution, Positive
<1>5. /\ IsSum(Sums(c, N), c, N)
      /\ IsSum(Sums(e, N + 1), e, N + 1)
  BY <1>0, SumsOK
<1> HIDE DEF N, c, e, d
<1>6. Sums(e, N + 1)[N] = Sums(c, N)[N]
  BY <1>0, <1>3, <1>5, SumSame
<1>7. Sums(e, N + 1)[N + 1] = Sums(e, N + 1)[N] + e[N + 1]
  BY <1>0, <1>5 DEF IsSum
<1>8. QED
  BY <1>2, <1>4, <1>6, <1>7 DEF Total, N, c, e, d

LEMMA PlusType ==
  ASSUME NEW row \in Row, NEW other \in Row
  PROVE  /\ Plus(row, other) \in Row
         /\ \A t \in Topic : Plus(row, other)[t] = row[t] + other[t]
BY DEF Plus, Row

LEMMA SetRowsGood ==
  ASSUME NEW model, GoodModel(model), NEW id \in 1..token_size(model),
         NEW n \in Row, NEW r \in Row
  PROVE  /\ GoodModel(SetRows(model, id, n, r))
         /\ token_size(SetRows(model, id, n, r)) = token_size(model)
         /\ SetRows(model, id, n, r).token_id_to_token = model.token_id_to_token
         /\ SetRows(model, id, n, r).token_to_token_id = model.token_to_token_id
<1> DEFINE class == model.token_id_to_token[id].class_id
           old == Plus(model.n_wt[id], model.r_wt[id])
           change == [t \in Topic |-> Adjusted(model.n_t[class][t], old[t], Plus(n, r)[t])]
           new == SetRows(model, id, n, r)
<1>0. TokensOK(model) /\ NormalizerOK(model) /\ ShapeOK(model)
  BY DEF GoodModel
<1>1. /\ new.token_to_token_id = model.token_to_token_id
      /\ new.token_id_to_token = model.token_id_to_token
      /\ new.n_wt = [model.n_wt EXCEPT ![id] = n]
      /\ new.r_wt = [model.r_wt EXCEPT ![id] = r]
      /\ new.n_t = [model.n_t EXCEPT ![class] = change]
      /\ new = [token_to_token_id |-> new.token_to_token_id,
                token_id_to_token |-> new.token_id_to_token,
                n_wt |-> new.n_wt, r_wt |-> new.r_wt, n_t |-> new.n_t]
  BY DEF SetRows
<1>2. /\ id \in 1..Len(model.n_wt) /\ class \in DOMAIN model.n_t
      /\ model.n_wt[id] \in Row /\ model.r_wt[id] \in Row /\ model.n_t[class] \in Row
  BY <1>0 DEF TokensOK, token_size
<1>3. old \in Row /\ Plus(n, r) \in Row
  BY <1>2, PlusType
<1>4. change \in Row /\ \A t \in Topic : change[t] = model.n_t[class][t] +
                                          (Positive(Plus(n, r)[t]) - Positive(old[t]))
  <2> SUFFICES ASSUME NEW t \in Topic
               PROVE  /\ change[t] \in Int
                      /\ change[t] = model.n_t[class][t] +
                                       (Positive(Plus(n, r)[t]) - Positive(old[t]))
    BY DEF Row
  <2>1. model.n_t[class][t] \in Int /\ old[t] \in Int /\ Plus(n, r)[t] \in Int
    BY <1>2, <1>3 DEF Row
  <2>2. change[t] = model.n_t[class][t] + (Positive(Plus(n, r)[t]) - Positive(old[t]))
    BY <2>1, AdjustedIsDifference
  <2>3. QED
    BY <2>1, <2>2 DEF Positive
<1> HIDE DEF change, old, class, new
<1>5. TokensOK(new) /\ token_size(new) = token_size(model)
  <2>1. /\ new.n_wt \in Seq(Row) /\ Len(new.n_wt) = Len(model.n_wt)
        /\ new.r_wt \in Seq(Row) /\ Len(new.r_wt) = Len(model.r_wt)
    BY <1>0, <1>1, <1>2 DEF TokensOK
  <2>2. /\ DOMAIN new.n_t = DOMAIN model.n_t
        /\ \A k \in DOMAIN new.n_t : new.n_t[k] \in Row
    BY <1>0, <1>1, <1>4 DEF TokensOK
  <2>3. QED
    BY <1>0, <1>1, <2>1, <2>2 DEF TokensOK, token_size
<1>6. NormalizerOK(new)
  <2> SUFFICES ASSUME NEW k \in DOMAIN new.n_t, NEW t \in Topic
               PROVE  new.n_t[k][t] = Total(new, k, t)
    BY DEF NormalizerOK
  <2>1. k \in DOMAIN model.n_t
    BY <1>1
  <2>2. model.n_t[k][t] = Total(model, k, t)
    BY <1>0, <2>1 DEF NormalizerOK
  <2>3. Total(new, k, t) = Total(model, k, t) +
          (IF k = class
           THEN Positive(n[t] + r[t]) - Positive(model.n_wt[id][t] + model.r_wt[id][t]) ELSE 0)
    BY <1>0, SetRowsTotal DEF class, new
  <2>4. CASE k = class
    <3>1. new.n_t[k][t] = change[t]
      BY <1>1, <2>1, <2>4
    <3>2. /\ Plus(n, r)[t] = n[t] + r[t]
          /\ old[t] = model.n_wt[id][t] + model.r_wt[id][t]
      BY <1>2, PlusType DEF old
    <3>3. QED
      BY <1>4, <2>2, <2>3, <2>4, <3>1, <3>2
  <2>5. CASE k # class
    <3>1. new.n_t[k][t] = model.n_t[k][t] /\ model.n_t[k][t] \in Int
      BY <1>0, <1>1, <2>1, <2>5 DEF TokensOK, Row
    <3>2. QED
      BY <2>2, <2>3, <2>5, <3>1
  <2>6. QED
    BY <2>4, <2>5
<1>7. ShapeOK(new)
  BY <1>0, <1>1, <1>5 DEF ShapeOK
<1>8. QED
  BY <1>1, <1>5, <1>6, <1>7 DEF GoodModel, new

LEMMA RowsOf ==
  ASSUME NEW model, TokensOK(model), NEW id \in 1..token_size(model)
  PROVE  model.n_wt[id] \in Row /\ model.r_wt[id] \in Row
BY DEF TokensOK, token_size

LEMMA AppendedGood ==
  ASSUME NEW model, GoodModel(model), NEW token \in Token, NEW init \in [Topic -> Nat],
         ~has_token(model, token)
  PROVE  /\ GoodModel(Appended(model, token, init))
         /\ has_token(Appended(model, token, init), token)
         /\ Appended(model, token, init).token_to_token_id[token]
              = token_size(Appended(model, token, init))
<1> DEFINE class == token.class_id
           N == token_size(model)
           n_t == IF class \in DOMAIN model.n_t THEN model.n_t
                  ELSE CreateNormalizerVector(model.n_t, class)
           new == Appended(model, token, init)
<1>0. TokensOK(model) /\ NormalizerOK(model) /\ ShapeOK(model) /\ N \in Nat /\ class \in ClassId
  BY DEF GoodModel, TokensOK, token_size, Token
<1>1. /\ new.token_to_token_id = With(model.token_to_token_id, token, N + 1)
      /\ new.token_id_to_token = Append(model.token_id_to_token, token)
      /\ new.n_wt = Append(model.n_wt, init)
      /\ new.r_wt = Append(model.r_wt, ZeroRow)
      /\ new.n_t = [n_t EXCEPT ![class] = Plus(@, init)]
      /\ new = [token_to_token_id |-> new.token_to_token_id,
                token_id_to_token |-> new.token_id_to_token,
                n_wt |-> new.n_wt, r_wt |-> new.r_wt, n_t |-> new.n_t]
  BY DEF Appended
<1>2. init \in Row /\ ZeroRow \in Row
  BY DEF Row, ZeroRow
<1>3. /\ DOMAIN n_t = DOMAIN model.n_t \cup {class}
      /\ \A k \in DOMAIN model.n_t : n_t[k] = model.n_t[k]
      /\ class \notin DOMAIN model.n_t => n_t[class] = ZeroRow
      /\ \A k \in DOMAIN n_t : n_t[k] \in Row
  BY <1>0, <1>2 DEF CreateNormalizerVector, With, TokensOK
<1> HIDE DEF n_t, new, N
<1>4. /\ DOMAIN new.n_t = DOMAIN model.n_t \cup {class}
      /\ new.n_t[class] = Plus(n_t[class], init)
      /\ \A k \in DOMAIN new.n_t : k # class => k \in DOMAIN model.n_t /\ new.n_t[k] = model.n_t[k]
      /\ \A k \in DOMAIN new.n_t : new.n_t[k] \in Row
  <2>1. Plus(n_t[class], init) \in Row
    BY <1>2, <1>3, PlusType
  <2>2. QED
    BY <1>1, <1>3, <2>1
<1>5. /\ token_size(new) = N + 1
      /\ new.n_wt \in Seq(Row) /\ Len(new.n_wt) = N + 1
      /\ new.r_wt \in Seq(Row) /\ Len(new.r_wt) = N + 1
      /\ new.token_id_to_token \in Seq(Token) /\ Len(new.token_id_to_token) = N + 1
      /\ \A i \in 1..N : new.token_id_to_token[i] = model.token_id_to_token[i]
      /\ new.token_id_to_token[N + 1] = token
  BY <1>0, <1>1, <1>2 DEF TokensOK, token_size, N
<1>6. /\ DOMAIN new.token_to_token_id = DOMAIN model.token_to_token_id \cup {token}
      /\ new.token_to_token_id[token] = N + 1
      /\ \A k \in DOMAIN model.token_to_token_id :
           k # token /\ new.token_to_token_id[k] = model.token_to_token_id[k]
  BY <1>1 DEF With, has_token
<1>7. TokensOK(new)
  <2>1. ASSUME NEW k \in DOMAIN new.token_to_token_id
        PROVE  /\ new.token_to_token_id[k] \in 1..token_size(new)
               /\ new.token_id_to_token[new.token_to_token_id[k]] = k
    <3>1. CASE k = token
      BY <1>0, <1>5, <1>6, <3>1
    <3>2. CASE k # token
      <4>1. /\ k \in DOMAIN model.token_to_token_id
            /\ model.token_to_token_id[k] \in 1..N
            /\ model.token_id_to_token[model.token_to_token_id[k]] = k
        BY <1>0, <1>6, <3>2 DEF TokensOK, N
      <4>2. QED
        BY <1>0, <1>5, <1>6, <4>1
    <3>3. QED
      BY <3>1, <3>2
  <2>2. ASSUME NEW i \in 1..token_size(new)
        PROVE  /\ new.token_id_to_token[i] \in DOMAIN new.token_to_token_id
               /\ new.token_to_token_id[new.token_id_to_token[i]] = i
               /\ new.token_id_to_token[i].class_id \in DOMAIN new.n_t
    <3>1. CASE i = N + 1
      BY <1>4, <1>5, <1>6, <3>1
    <3>2. CASE i # N + 1
      <4>1. i \in 1..N
        BY <1>0, <1>5, <3>2
      <4>2. /\ model.token_id_to_token[i] \in DOMAIN model.token_to_token_id
            /\ model.token_to_token_id[model.token_id_to_token[i]] = i
            /\ model.token_id_to_token[i].class_id \in DOMAIN model.n_t
        BY <1>0, <4>1 DEF TokensOK, N
      <4>3. QED
        BY <1>4, <1>5, <1>6, <4>1, <4>2
    <3>3. QED
      BY <3>1, <3>2
  <2>3. /\ DOMAIN new.token_to_token_id \subseteq Token
        /\ DOMAIN new.n_t \subseteq ClassId /\ DefaultClass \in DOMAIN new.n_t
    BY <1>0, <1>4, <1>6 DEF TokensOK
  <2>4. QED
    BY <1>1, <1>4, <1>5, <2>1, <2>2, <2>3 DEF TokensOK
<1>8. NormalizerOK(new)
  <2> SUFFICES ASSUME NEW k \in DOMAIN new.n_t, NEW t \in Topic
               PROVE  new.n_t[k][t] = Total(new, k, t)
    BY DEF NormalizerOK
  <2>1. Total(new, k, t) = Total(model, k, t) + (IF k = class THEN init[t] ELSE 0)
    BY <1>0, AppendedTotal DEF new
  <2>2. k \in DOMAIN model.n_t => model.n_t[k][t] = Total(model, k, t) /\ model.n_t[k][t] \in Int
    BY <1>0 DEF NormalizerOK, TokensOK, Row
  <2>3. CASE k # class
    BY <1>4, <2>1, <2>2, <2>3
  <2>4. CASE k = class
    <3>1. new.n_t[k][t] = n_t[class][t] + init[t]
      BY <1>2, <1>3, <1>4, <2>4, PlusType
    <3>2. n_t[class][t] = Total(model, class, t)
      <4>1. CASE class \in DOMAIN model.n_t
        BY <1>3, <2>2, <2>4, <4>1
      <4>2. CASE class \notin DOMAIN model.n_t
        <5>1. n_t[class][t] = 0
          BY <1>3, <4>2 DEF ZeroRow
        <5>2. \A i \in 1..N : Contributions(model, class, t)[i] = 0
          BY <1>0, <4>2 DEF Contributions, Contribution, TokensOK, N
        <5>3. Total(model, class, t) = 0
          BY <1>0, <5>2, SumOfZeros DEF Total, N
        <5>4. QED
          BY <5>1, <5>3
      <4>3. QED
        BY <4>1, <4>2
    <3>3. QED
      BY <2>1, <2>4, <3>1, <3>2
  <2>5. QED
    BY <2>3, <2>4
<1>9. ShapeOK(new)
  <2>0. /\ new.token_to_token_id = [k \in DOMAIN new.token_to_token_id |-> new.token_to_token_id[k]]
        /\ new.n_t = [k \in DOMAIN new.n_t |-> new.n_t[k]]
    BY <1>1 DEF With
  <2> SUFFICES ASSUME NEW k \in DOMAIN new.n_t, k # DefaultClass
               PROVE  \E id \in 1..token_size(new) : new.token_id_to_token[id].class_id = k
    BY <2>0 DEF ShapeOK
  <2>1. CASE k = class
    <3>1. N + 1 \in 1..(N + 1)
      BY <1>0
    <3>2. QED
      BY <1>5, <2>1, <3>1
  <2>2. CASE k # class
    <3>1. PICK id \in 1..N : model.token_id_to_token[id].class_id = k
      BY <1>0, <1>4, <2>2 DEF ShapeOK, N
    <3>2. id \in 1..(N + 1)
      BY <1>0
    <3>3. QED
      BY <1>5, <3>1, <3>2
  <2>3. QED
    BY <2>1, <2>2
<1>10. QED
  BY <1>5, <1>6, <1>7, <1>8, <1>9 DEF GoodModel, has_token, new

LEMMA AddTokenGood ==
  ASSUME NEW model, GoodModel(model), NEW token \in Token, NEW init \in [Topic -> Nat]
  PROVE  /\ GoodModel(AddToken(model, token, init))
         /\ AddToken(model, token, init).token_to_token_id[token]
              \in 1..token_size(AddToken(model, token, init))
<1>1. CASE has_token(model, token)
  BY <1>1 DEF AddToken, GoodModel, TokensOK, has_token
<1>2. CASE ~has_token(model, token)
  <2>1. AddToken(model, token, init) = Appended(model, token, init)
    BY <1>2 DEF AddToken
  <2>2. GoodModel(Appended(model, token, init))
    BY <1>2, AppendedGood
  <2>3. /\ has_token(Appended(model, token, init), token)
        /\ Appended(model, token, init).token_to_token_id[token]
             = token_size(Appended(model, token, init))
    BY <1>2, AppendedGood
  <2>4. QED
    BY <2>1, <2>2, <2>3 DEF GoodModel, TokensOK, has_token
<1>3. QED
  BY <1>1, <1>2

LEMMA IncreaseTokenWeightGood ==
  ASSUME NEW model, GoodModel(model), NEW id \in 1..token_size(model), NEW row \in Row
  PROVE  GoodModel(IncreaseTokenWeight(model, id, row))
BY SetRowsGood, RowsOf, PlusType DEF IncreaseTokenWeight, GoodModel

LEMMA IncreaseRegularizerWeightGood ==
  ASSUME NEW model, GoodModel(model), NEW id \in 1..token_size(model), NEW row \in Row
  PROVE  /\ GoodModel(IncreaseRegularizerWeight(model, id, row))
         /\ token_size(IncreaseRegularizerWeight(model, id, row)) = token_size(model)
BY SetRowsGood, RowsOf, PlusType DEF IncreaseRegularizerWeight, GoodModel

LEMMA ApplyEntryGood ==
  ASSUME NEW model, GoodModel(model), NEW entry \in Entry
  PROVE  GoodModel(ApplyEntry(model, entry))
<1> DEFINE added == AddToken(model, entry.token, entry.init)
<1>1. entry.token \in Token /\ entry.init \in [Topic -> Nat] /\ entry.counters \in Row
  BY DEF Entry
<1>2. GoodModel(added) /\ added.token_to_token_id[entry.token] \in 1..token_size(added)
  BY <1>1, AddTokenGood
<1> HIDE DEF added
<1>3. GoodModel(IncreaseTokenWeight(added, added.token_to_token_id[entry.token], entry.counters))
  BY <1>1, <1>2, IncreaseTokenWeightGood
<1>4. QED
  BY <1>3 DEF ApplyEntry, added

LEMMA LoadTokenGood ==
  ASSUME NEW model, GoodModel(model), NEW external \in ExternalToken
  PROVE  GoodModel(LoadToken(model, external))
<1> DEFINE added == AddToken(model, external.token, ZeroRow)
           id == added.token_to_token_id[external.token]
           weighted == SetTokenWeight(added, id, external.n)
<1>1. external.token \in Token /\ external.n \in Row /\ external.r \in Row
  BY DEF ExternalToken
<1>2. GoodModel(added) /\ id \in 1..token_size(added)
  BY <1>1, AddTokenGood DEF ZeroRow
<1> HIDE DEF added, id
<1>3. GoodModel(weighted) /\ id \in 1..token_size(weighted)
  BY <1>1, <1>2, SetRowsGood, RowsOf DEF SetTokenWeight, GoodModel
<1> HIDE DEF weighted
<1>4. GoodModel(SetRegularizerWeight(weighted, id, external.r))
  BY <1>1, <1>3, SetRowsGood, RowsOf DEF SetRegularizerWeight, GoodModel
<1>5. QED
  BY <1>4 DEF LoadToken, added, id, weighted

LEMMA NewTopicModelGood == GoodModel(NewTopicModel)
<1>1. TokensOK(NewTopicModel)
  BY TopicModelAssumption DEF TokensOK, NewTopicModel, token_size, Row, ZeroRow
<1>2. NormalizerOK(NewTopicModel)
  <2> SUFFICES ASSUME NEW class \in DOMAIN NewTopicModel.n_t, NEW t \in Topic
               PROVE  NewTopicModel.n_t[class][t] = Total(NewTopicModel, class, t)
    BY DEF NormalizerOK
  <2>1. NewTopicModel.n_t[class][t] = 0 /\ token_size(NewTopicModel) = 0
    BY DEF NewTopicModel, ZeroRow, token_size
  <2>2. Total(NewTopicModel, class, t) = 0
    BY <2>1, SumOfZeros DEF Total
  <2>3. QED
    BY <2>1, <2>2
<1>3. ShapeOK(NewTopicModel)
  BY DEF ShapeOK, NewTopicModel
<1>4. QED
  BY <1>1, <1>2, <1>3 DEF GoodModel

-----------------------------------------------------------------------------
(* The folds.                                                              *)
\* ApplyDiff: the models after each entry exist, and are good.
LEMMA AppliedExists ==
  ASSUME NEW n \in Nat, NEW model, NEW diff
  PROVE  \E f : f = [i \in 0..n |-> IF i = 0 THEN model ELSE ApplyEntry(f[i - 1], diff[i])]
<1> DEFINE Solution(f, k) == f = [i \in 0..k |-> IF i = 0 THEN model ELSE ApplyEntry(f[i - 1], diff[i])]
           P == {k \in 0..n : \E f : Solution(f, k)}
<1> HIDE DEF Solution
<1>1. 0 \in P
  <2>1. Solution([i \in 0..0 |-> model], 0)
    BY DEF Solution
  <2>2. QED
    BY <2>1
<1>2. ASSUME NEW k \in 1..n, k - 1 \in P PROVE k \in P
  <2>1. PICK f : Solution(f, k - 1)
    BY <1>2
  <2> DEFINE e == [i \in 0..k |-> IF i = k THEN ApplyEntry(f[k - 1], diff[k]) ELSE f[i]]
  <2>2. ASSUME NEW i \in 0..k
        PROVE  e[i] = IF i = 0 THEN model ELSE ApplyEntry(e[i - 1], diff[i])
    <3>1. CASE i = k
      BY <3>1
    <3>2. CASE i # k
      <4>1. i \in 0..(k - 1) /\ e[i] = f[i] /\ (i # 0 => e[i - 1] = f[i - 1])
        BY <3>2
      <4>2. f[i] = IF i = 0 THEN model ELSE ApplyEntry(f[i - 1], diff[i])
        BY <2>1, <4>1 DEF Solution
      <4>3. QED
        BY <4>1, <4>2
    <3>3. QED
      BY <3>1, <3>2
  <2>3. Solution(e, k)
    BY <2>2 DEF Solution
  <2>4. QED
    BY <2>3
<1> HIDE DEF P
<1>3. n \in P
  BY <1>1, <1>2, Induction
<1>4. QED
  BY <1>3 DEF P, Solution

LEMMA ApplyDiffGood ==
  ASSUME NEW model, GoodModel(model), NEW diff \in Seq(Entry)
  PROVE  GoodModel(ApplyDiff(model, diff))
<1> DEFINE n == Len(diff)
           f == Applied(model, diff)
           P == {k \in 0..n : GoodModel(f[k])}
<1>0. n \in Nat
  OBVIOUS
<1>1. \A i \in 1..n : diff[i] \in Entry
  OBVIOUS
<1>2. f = [i \in 0..n |-> IF i = 0 THEN model ELSE ApplyEntry(f[i - 1], diff[i])]
  BY <1>0, AppliedExists DEF Applied
<1> HIDE DEF f
<1>3. 0 \in P
  BY <1>0, <1>2
<1>4. ASSUME NEW i \in 1..n, i - 1 \in P PROVE i \in P
  <2>1. f[i] = ApplyEntry(f[i - 1], diff[i])
    BY <1>0, <1>2
  <2>2. QED
    BY <1>0, <1>1, <1>4, <2>1, ApplyEntryGood
<1> HIDE DEF P, n
<1>5. \A i \in 0..n : i \in P
  BY <1>0, <1>3, <1>4, Induction
<1>6. n \in P
  BY <1>0, <1>5
<1>7. QED
  BY <1>6 DEF P, ApplyDiff, n, f

\* CopyFromExternalTopicModel.
LEMMA LoadedExists ==
  ASSUME NEW n \in Nat, NEW external
  PROVE  \E f : f = [i \in 0..n |-> IF i = 0 THEN NewTopicModel ELSE LoadToken(f[i - 1], external[i])]
<1> DEFINE Solution(f, k) == f = [i \in 0..k |-> IF i = 0 THEN NewTopicModel ELSE LoadToken(f[i - 1], external[i])]
           P == {k \in 0..n : \E f : Solution(f, k)}
<1> HIDE DEF Solution
<1>1. 0 \in P
  <2>1. Solution([i \in 0..0 |-> NewTopicModel], 0)
    BY DEF Solution
  <2>2. QED
    BY <2>1
<1>2. ASSUME NEW k \in 1..n, k - 1 \in P PROVE k \in P
  <2>1. PICK f : Solution(f, k - 1)
    BY <1>2
  <2> DEFINE e == [i \in 0..k |-> IF i = k THEN LoadToken(f[k - 1], external[k]) ELSE f[i]]
  <2>2. ASSUME NEW i \in 0..k
        PROVE  e[i] = IF i = 0 THEN NewTopicModel ELSE LoadToken(e[i - 1], external[i])
    <3>1. CASE i = k
      BY <3>1
    <3>2. CASE i # k
      <4>1. i \in 0..(k - 1) /\ e[i] = f[i] /\ (i # 0 => e[i - 1] = f[i - 1])
        BY <3>2
      <4>2. f[i] = IF i = 0 THEN NewTopicModel ELSE LoadToken(f[i - 1], external[i])
        BY <2>1, <4>1 DEF Solution
      <4>3. QED
        BY <4>1, <4>2
    <3>3. QED
      BY <3>1, <3>2
  <2>3. Solution(e, k)
    BY <2>2 DEF Solution
  <2>4. QED
    BY <2>3
<1> HIDE DEF P
<1>3. n \in P
  BY <1>1, <1>2, Induction
<1>4. QED
  BY <1>3 DEF P, Solution

LEMMA CopyFromExternalGood ==
  ASSUME NEW external \in Seq(ExternalToken)
  PROVE  GoodModel(CopyFromExternalTopicModel(external))
<1> DEFINE n == Len(external)
           f == Loaded(external)
           P == {k \in 0..n : GoodModel(f[k])}
<1>0. n \in Nat
  OBVIOUS
<1>1. \A i \in 1..n : external[i] \in ExternalToken
  OBVIOUS
<1>2. f = [i \in 0..n |-> IF i = 0 THEN NewTopicModel ELSE LoadToken(f[i - 1], external[i])]
  BY <1>0, LoadedExists DEF Loaded
<1> HIDE DEF f
<1>3. 0 \in P
  BY <1>0, <1>2, NewTopicModelGood
<1>4. ASSUME NEW i \in 1..n, i - 1 \in P PROVE i \in P
  <2>1. f[i] = LoadToken(f[i - 1], external[i])
    BY <1>0, <1>2
  <2>2. QED
    BY <1>0, <1>1, <1>4, <2>1, LoadTokenGood
<1> HIDE DEF P, n
<1>5. \A i \in 0..n : i \in P
  BY <1>0, <1>3, <1>4, Induction
<1>6. n \in P
  BY <1>0, <1>5
<1>7. QED
  BY <1>6 DEF P, CopyFromExternalTopicModel, n, f

\* RegularizePhi.
LEMMA IncreasedExists ==
  ASSUME NEW n \in Nat, NEW model, NEW reg
  PROVE  \E f : f = [i \in 0..n |-> IF i = 0 THEN model ELSE IncreaseRegularizerWeight(f[i - 1], i,
                     Value(reg, model.token_id_to_token[i]))]
<1> DEFINE Solution(f, k) == f = [i \in 0..k |-> IF i = 0 THEN model ELSE IncreaseRegularizerWeight(f[i - 1], i,
                     Value(reg, model.token_id_to_token[i]))]
           P == {k \in 0..n : \E f : Solution(f, k)}
<1> HIDE DEF Solution
<1>1. 0 \in P
  <2>1. Solution([i \in 0..0 |-> model], 0)
    BY DEF Solution
  <2>2. QED
    BY <2>1
<1>2. ASSUME NEW k \in 1..n, k - 1 \in P PROVE k \in P
  <2>1. PICK f : Solution(f, k - 1)
    BY <1>2
  <2> DEFINE e == [i \in 0..k |-> IF i = k THEN IncreaseRegularizerWeight(f[k - 1], k,
                     Value(reg, model.token_id_to_token[k])) ELSE f[i]]
  <2>2. ASSUME NEW i \in 0..k
        PROVE  e[i] = IF i = 0 THEN model ELSE IncreaseRegularizerWeight(e[i - 1], i,
                     Value(reg, model.token_id_to_token[i]))
    <3>1. CASE i = k
      BY <3>1
    <3>2. CASE i # k
      <4>1. i \in 0..(k - 1) /\ e[i] = f[i] /\ (i # 0 => e[i - 1] = f[i - 1])
        BY <3>2
      <4>2. f[i] = IF i = 0 THEN model ELSE IncreaseRegularizerWeight(f[i - 1], i,
                     Value(reg, model.token_id_to_token[i]))
        BY <2>1, <4>1 DEF Solution
      <4>3. QED
        BY <4>1, <4>2
    <3>3. QED
      BY <3>1, <3>2
  <2>3. Solution(e, k)
    BY <2>2 DEF Solution
  <2>4. QED
    BY <2>3
<1> HIDE DEF P
<1>3. n \in P
  BY <1>1, <1>2, Induction
<1>4. QED
  BY <1>3 DEF P, Solution

LEMMA ValueType ==
  ASSUME NEW reg \in Regularizer, NEW token \in Token
  PROVE  Value(reg, token) \in Row
<1> SUFFICES ASSUME NEW t \in Topic
             PROVE  DirichletPhiValue(reg, token, t) \in Int /\ SmoothSparsePhiValue(reg, token, t) \in Int
  BY DEF Value, Row
<1>1. /\ reg.tau \in Int /\ reg.topics_coefficients[t] \in Int
      /\ reg.dictionary[token][t] \in Int
  BY DEF Regularizer, Row
<1>2. QED
  BY <1>1 DEF DirichletPhiValue, SmoothSparsePhiValue

LEMMA RegularizePhiGood ==
  ASSUME NEW model, GoodModel(model), NEW reg \in Regularizer
  PROVE  GoodModel(RegularizePhi(model, reg))
<1> DEFINE n == token_size(model)
           f == Increased(model, reg)
           P == {k \in 0..n : GoodModel(f[k]) /\ token_size(f[k]) = n}
<1>1. n \in Nat /\ \A i \in 1..n : Value(reg, model.token_id_to_token[i]) \in Row
  BY ValueType DEF GoodModel, TokensOK, token_size
<1>2. f = [i \in 0..n |-> IF i = 0 THEN model
                          ELSE IncreaseRegularizerWeight(f[i - 1], i,
                                 Value(reg, model.token_id_to_token[i]))]
  BY <1>1, IncreasedExists DEF Increased
<1> HIDE DEF f
<1>3. 0 \in P
  BY <1>1, <1>2
<1>4. ASSUME NEW i \in 1..n, i - 1 \in P PROVE i \in P
  <2>1. f[i] = IncreaseRegularizerWeight(f[i - 1], i, Value(reg, model.token_id_to_token[i]))
    BY <1>1, <1>2
  <2>2. QED
    BY <1>1, <1>4, <2>1, IncreaseRegularizerWeightGood
<1> HIDE DEF P, n
<1>5. n \in P
  BY <1>1, <1>3, <1>4, Induction
<1>6. QED
  BY <1>5 DEF P, RegularizePhi, n, f

\* InvokePhiRegularizers.
LEMMA RegularizedExists ==
  ASSUME NEW n \in Nat, NEW model, NEW regs
  PROVE  \E f : f = [i \in 0..n |-> IF i = 0 THEN model ELSE RegularizePhi(f[i - 1], regs[i])]
<1> DEFINE Solution(f, k) == f = [i \in 0..k |-> IF i = 0 THEN model ELSE RegularizePhi(f[i - 1], regs[i])]
           P == {k \in 0..n : \E f : Solution(f, k)}
<1> HIDE DEF Solution
<1>1. 0 \in P
  <2>1. Solution([i \in 0..0 |-> model], 0)
    BY DEF Solution
  <2>2. QED
    BY <2>1
<1>2. ASSUME NEW k \in 1..n, k - 1 \in P PROVE k \in P
  <2>1. PICK f : Solution(f, k - 1)
    BY <1>2
  <2> DEFINE e == [i \in 0..k |-> IF i = k THEN RegularizePhi(f[k - 1], regs[k]) ELSE f[i]]
  <2>2. ASSUME NEW i \in 0..k
        PROVE  e[i] = IF i = 0 THEN model ELSE RegularizePhi(e[i - 1], regs[i])
    <3>1. CASE i = k
      BY <3>1
    <3>2. CASE i # k
      <4>1. i \in 0..(k - 1) /\ e[i] = f[i] /\ (i # 0 => e[i - 1] = f[i - 1])
        BY <3>2
      <4>2. f[i] = IF i = 0 THEN model ELSE RegularizePhi(f[i - 1], regs[i])
        BY <2>1, <4>1 DEF Solution
      <4>3. QED
        BY <4>1, <4>2
    <3>3. QED
      BY <3>1, <3>2
  <2>3. Solution(e, k)
    BY <2>2 DEF Solution
  <2>4. QED
    BY <2>3
<1> HIDE DEF P
<1>3. n \in P
  BY <1>1, <1>2, Induction
<1>4. QED
  BY <1>3 DEF P, Solution

LEMMA RegularizedGood ==
  ASSUME NEW model, GoodModel(model), NEW regs \in Seq(Regularizer)
  PROVE  GoodModel(Regularized(model, regs)[Len(regs)])
<1> DEFINE n == Len(regs)
           f == Regularized(model, regs)
           P == {k \in 0..n : GoodModel(f[k])}
<1>0. n \in Nat
  OBVIOUS
<1>1. \A i \in 1..n : regs[i] \in Regularizer
  OBVIOUS
<1>2. f = [i \in 0..n |-> IF i = 0 THEN model ELSE RegularizePhi(f[i - 1], regs[i])]
  BY <1>0, RegularizedExists DEF Regularized
<1> HIDE DEF f
<1>3. 0 \in P
  BY <1>0, <1>2
<1>4. ASSUME NEW i \in 1..n, i - 1 \in P PROVE i \in P
  <2>1. f[i] = RegularizePhi(f[i - 1], regs[i])
    BY <1>0, <1>2
  <2>2. QED
    BY <1>0, <1>1, <1>4, <2>1, RegularizePhiGood
<1> HIDE DEF P, n
<1>5. \A i \in 0..n : i \in P
  BY <1>0, <1>3, <1>4, Induction
<1>6. n \in P
  BY <1>0, <1>5
<1>7. QED
  BY <1>6 DEF P, n, f
-----------------------------------------------------------------------------
(* The state machine.                                                      *)
ShapesOK ==
  ShapeOK(topic_model) /\ (topic_model_inc # Nil => ShapeOK(topic_model_inc))

ModelInv == TypeOK /\ NormalizerExact /\ ShapesOK

LEMMA CountedType ==
  ASSUME NEW token \in Token, NEW row \in Row
  PROVE  Counted(token, row) \in Entry
BY DEF Counted, Entry, ZeroRow

LEMMA ModelIncrementType ==
  ASSUME NEW model, TokensOK(model)
  PROVE  RetrieveModelIncrement(model) \in Seq(Entry)
<1>1. token_size(model) \in Nat
  BY DEF TokensOK, token_size
<1>2. \A i \in 1..token_size(model) :
        Counted(model.token_id_to_token[i], model.n_wt[i]) \in Entry
  BY CountedType DEF TokensOK, token_size
<1>3. QED
  BY <1>1, <1>2 DEF RetrieveModelIncrement

LEMMA ExternalType ==
  ASSUME NEW model, TokensOK(model)
  PROVE  RetrieveExternalTopicModel(model) \in Seq(ExternalToken)
<1>1. token_size(model) \in Nat
  BY DEF TokensOK, token_size
<1>2. ASSUME NEW i \in 1..token_size(model)
      PROVE  [token |-> model.token_id_to_token[i], n |-> model.n_wt[i], r |-> model.r_wt[i]]
               \in ExternalToken
  <2>1. model.token_id_to_token[i] \in Token /\ model.n_wt[i] \in Row /\ model.r_wt[i] \in Row
    BY DEF TokensOK, token_size
  <2>2. QED
    BY <2>1 DEF ExternalToken
<1>3. QED
  BY <1>1, <1>2 DEF RetrieveExternalTopicModel

LEMMA DiffType ==
  ASSUME NEW increment \in Increment,
         NEW init \in [{increment.discovered[i] : i \in DOMAIN increment.discovered} -> InitialRows]
  PROVE  Diff(increment, init) \in Seq(Entry)
<1> DEFINE random == [i \in DOMAIN increment.discovered |->
                        Discovered(increment.discovered[i], init[increment.discovered[i]])]
<1>1. increment.discovered \in Seq(Token) /\ increment.token_increment \in Seq(Entry)
  BY DEF Increment
<1>2. ASSUME NEW i \in DOMAIN increment.discovered
      PROVE  Discovered(increment.discovered[i], init[increment.discovered[i]]) \in Entry
  <2>1. increment.discovered[i] \in Token
    BY <1>1
  <2>2. init[increment.discovered[i]] \in [Topic -> Nat]
    BY ModelUpdatesAssumption
  <2>3. QED
    BY <2>1, <2>2 DEF Discovered, Entry, Row, ZeroRow
<1>3. random \in Seq(Entry)
  BY <1>1, <1>2
<1>4. QED
  BY <1>1, <1>3, ConcatProperties DEF Diff

\* The loop over the tokens of a batch.
IsDiscovery(f, model, batch, n) ==
  f = [i \in 0..n |-> IF i = 0 THEN <<>>
                      ELSE IF has_token(model, batch[i]) THEN f[i - 1]
                           ELSE Append(f[i - 1], batch[i])]

Discovery(model, batch, n) == CHOOSE f : IsDiscovery(f, model, batch, n)

LEMMA DiscoveryIs ==
  ASSUME NEW batch, NEW n, n = Len(batch)
  PROVE  DiscoveredTokens(batch) = Discovery(topic_model, batch, n)[n]
BY Zenon DEF DiscoveredTokens, Discovery, IsDiscovery

LEMMA DiscoveryExists ==
  ASSUME NEW n \in Nat, NEW model, NEW batch
  PROVE  IsDiscovery(Discovery(model, batch, n), model, batch, n)
<1> DEFINE P == {k \in 0..n : \E f : IsDiscovery(f, model, batch, k)}
<1>1. 0 \in P
  <2>1. IsDiscovery([i \in 0..0 |-> <<>>], model, batch, 0)
    BY DEF IsDiscovery
  <2>2. QED
    BY <2>1
<1>2. ASSUME NEW k \in 1..n, k - 1 \in P PROVE k \in P
  <2>1. PICK f : IsDiscovery(f, model, batch, k - 1)
    BY <1>2
  <2> DEFINE e == [i \in 0..k |-> IF i = k THEN (IF has_token(model, batch[k]) THEN f[k - 1]
                                                ELSE Append(f[k - 1], batch[k]))
                                  ELSE f[i]]
  <2>2. ASSUME NEW i \in 0..k
        PROVE  e[i] = IF i = 0 THEN <<>> ELSE IF has_token(model, batch[i]) THEN e[i - 1]
                                              ELSE Append(e[i - 1], batch[i])
    <3>1. CASE i = k
      <4>1. k # 0 /\ e[k - 1] = f[k - 1]
        OBVIOUS
      <4>2. QED
        BY <3>1, <4>1
    <3>2. CASE i # k
      <4>1. i \in 0..(k - 1) /\ e[i] = f[i] /\ (i # 0 => e[i - 1] = f[i - 1])
        BY <3>2
      <4>2. f[i] = IF i = 0 THEN <<>> ELSE IF has_token(model, batch[i]) THEN f[i - 1]
                                           ELSE Append(f[i - 1], batch[i])
        BY <2>1, <4>1 DEF IsDiscovery
      <4>3. QED
        BY <4>1, <4>2
    <3>3. QED
      BY <3>1, <3>2
  <2>3. IsDiscovery(e, model, batch, k)
    BY <2>2 DEF IsDiscovery
  <2>4. QED
    BY <2>3
<1> HIDE DEF P
<1>3. n \in P
  BY <1>1, <1>2, Induction
<1>4. QED
  BY <1>3, Zenon DEF P, Discovery

\* A sequence holds a token.
Holds(s, token) == \E j \in DOMAIN s : s[j] = token

LEMMA HoldsMore ==
  ASSUME NEW S, NEW s \in Seq(S), NEW x \in S
  PROVE  /\ Append(s, x) \in Seq(S) /\ Holds(Append(s, x), x)
         /\ \A y : Holds(s, y) => Holds(Append(s, x), y)
<1>1. PICK t \in Seq(S) : t = Append(s, x)
  BY AppendProperties
<1>2. PICK n \in Nat : n = Len(s) /\ DOMAIN s = 1..n
  OBVIOUS
<1>3. DOMAIN t = 1..(n + 1) /\ t[n + 1] = x /\ \A j \in 1..n : t[j] = s[j]
  BY <1>1, <1>2
<1>4. n + 1 \in 1..(n + 1) /\ \A j \in 1..n : j \in 1..(n + 1)
  OBVIOUS
<1>5. QED
  BY <1>1, <1>2, <1>3, <1>4 DEF Holds

\* Every token that the model does not know is announced.
LEMMA DiscoveredAll ==
  ASSUME NEW batch \in Seq(Token)
  PROVE  /\ DiscoveredTokens(batch) \in Seq(Token)
         /\ \A i \in DOMAIN batch :
              has_token(topic_model, batch[i]) \/ Holds(DiscoveredTokens(batch), batch[i])
<1>1. PICK n \in Nat : n = Len(batch) /\ DOMAIN batch = 1..n
  OBVIOUS
<1>2. \A i \in 1..n : batch[i] \in Token
  BY <1>1
<1>3. PICK model : model = topic_model
  OBVIOUS
<1>4. PICK f : f = Discovery(model, batch, n)
  OBVIOUS
<1>5. DiscoveredTokens(batch) = f[n]
  BY <1>1, <1>3, <1>4, DiscoveryIs
<1>6. f[0] = <<>>
      /\ \A k \in 1..n : f[k] = IF has_token(model, batch[k]) THEN f[k - 1] ELSE Append(f[k - 1], batch[k])
  <2>1. IsDiscovery(f, model, batch, n)
    BY <1>4, DiscoveryExists
  <2>2. \A k \in 0..n : f[k] = IF k = 0 THEN <<>>
                              ELSE IF has_token(model, batch[k]) THEN f[k - 1]
                                   ELSE Append(f[k - 1], batch[k])
    BY <2>1, Zenon DEF IsDiscovery
  <2>3. 0 \in 0..n /\ \A k \in 1..n : k \in 0..n /\ k # 0
    OBVIOUS
  <2>4. QED
    BY <2>2, <2>3
<1> DEFINE P == {k \in 0..n : /\ f[k] \in Seq(Token)
                              /\ \A i \in 1..k : has_token(model, batch[i]) \/ Holds(f[k], batch[i])}
<1>7. 0 \in P
  <2>1. <<>> \in Seq(Token) /\ 1..0 = {} /\ 0 \in 0..n
    OBVIOUS
  <2>2. f[0] \in Seq(Token)
    BY <1>6, <2>1
  <2>3. QED
    BY <2>1, <2>2
<1>8. ASSUME NEW k \in 1..n, k - 1 \in P PROVE k \in P
  <2>1. f[k] = IF has_token(model, batch[k]) THEN f[k - 1] ELSE Append(f[k - 1], batch[k])
    BY <1>6
  <2>2. /\ f[k - 1] \in Seq(Token) /\ k \in 0..n
        /\ \A i \in 1..(k - 1) : has_token(model, batch[i]) \/ Holds(f[k - 1], batch[i])
    BY <1>8
  <2>3. \A i \in 1..k : i \in 1..(k - 1) \/ i = k
    OBVIOUS
  <2>4. CASE has_token(model, batch[k])
    BY <2>1, <2>2, <2>3, <2>4
  <2>5. CASE ~has_token(model, batch[k])
    <3>1. f[k] = Append(f[k - 1], batch[k])
      BY <2>1, <2>5
    <3>2. batch[k] \in Token
      BY <1>2
    <3>3. /\ f[k] \in Seq(Token) /\ Holds(f[k], batch[k])
          /\ \A token : Holds(f[k - 1], token) => Holds(f[k], token)
      BY <2>2, <3>1, <3>2, HoldsMore
    <3>4. QED
      BY <2>2, <2>3, <3>3
  <2>6. QED
    BY <2>4, <2>5
<1>9. n \in P
  <2> HIDE DEF P
  <2>1. \A i \in 0..n : i \in P
    BY <1>7, <1>8, Induction
  <2>2. n \in 0..n
    OBVIOUS
  <2>3. QED
    BY <2>1, <2>2
<1>10. QED
  BY <1>1, <1>3, <1>5, <1>9

LEMMA ProcessType ==
  ASSUME TypeOK, NEW batch \in Batches, Process(batch)
  PROVE  merger_queue' \in Seq(Increment)
<1>1. PICK rows \in [DOMAIN batch -> CountRows \cup {ZeroRow}] :
        merger_queue' = Append(merger_queue,
          [discovered |-> DiscoveredTokens(batch),
           token_increment |-> [i \in DOMAIN batch |-> Counted(batch[i], rows[i])]])
  BY Zenon DEF Process
<1>2. batch \in Seq(Token)
  BY ModelUpdatesAssumption
<1>3. DiscoveredTokens(batch) \in Seq(Token)
  BY <1>2, DiscoveredAll
<1>4. ASSUME NEW i \in DOMAIN batch PROVE Counted(batch[i], rows[i]) \in Entry
  <2>1. batch[i] \in Token
    BY <1>2
  <2>2. rows[i] \in Row
    <3>1. rows[i] \in CountRows \cup {ZeroRow}
      OBVIOUS
    <3>2. \A row \in CountRows : row \in Row
      BY ModelUpdatesAssumption DEF Row
    <3>3. ZeroRow \in Row
      BY DEF ZeroRow, Row
    <3>4. QED
      BY <3>1, <3>2, <3>3
  <2>3. QED
    BY <2>1, <2>2, CountedType
<1>5. [i \in DOMAIN batch |-> Counted(batch[i], rows[i])] \in Seq(Entry)
  BY <1>2, <1>4
<1>6. QED
  BY <1>1, <1>3, <1>5, AppendProperties DEF TypeOK, Increment

LEMMA StepGood ==
  ASSUME ModelInv, [Next]_vars
  PROVE  ModelInv'
<1> USE DEF ModelInv
<1>0. /\ GoodModel(topic_model)
      /\ topic_model_inc # Nil => GoodModel(topic_model_inc)
      /\ merger_queue \in Seq(Increment)
      /\ saved # Nil => saved \in Seq(ExternalToken)
      /\ updates \in Nat
  BY DEF TypeOK, NormalizerExact, ShapesOK, GoodModel
<1> SUFFICES /\ GoodModel(topic_model')
             /\ topic_model_inc' # Nil => GoodModel(topic_model_inc')
             /\ merger_queue' \in Seq(Increment)
             /\ saved' # Nil => saved' \in Seq(ExternalToken)
             /\ updates' \in Nat
  BY DEF TypeOK, NormalizerExact, ShapesOK, GoodModel, TokensOK, NormalizerOK, Total, Contributions,
         Contribution, ShapeOK, token_size
<1>1. ASSUME NEW batch \in Batches, Process(batch)
      PROVE  merger_queue' \in Seq(Increment) /\ UNCHANGED <<topic_model, topic_model_inc, saved>>
             /\ updates' \in Nat
  <2>1. merger_queue' \in Seq(Increment)
    BY <1>1, ProcessType
  <2>2. UNCHANGED <<topic_model, topic_model_inc, saved>> /\ updates' = updates + 1
    BY <1>1 DEF Process, Update
  <2>3. QED
    BY <1>0, <2>1, <2>2
<1>2. CASE MergeIncrement
  <2> DEFINE old == IF topic_model_inc = Nil THEN NewTopicModel ELSE topic_model_inc
  <2>1. PICK init \in [{Head(merger_queue).discovered[i] : i \in DOMAIN Head(merger_queue).discovered}
                         -> InitialRows] :
          topic_model_inc' = ApplyDiff(old, Diff(Head(merger_queue), init))
    BY <1>2 DEF MergeIncrement
  <2>2. Head(merger_queue) \in Increment /\ Tail(merger_queue) \in Seq(Increment)
    BY <1>0, <1>2, HeadTailProperties DEF MergeIncrement
  <2>3. Diff(Head(merger_queue), init) \in Seq(Entry)
    BY <2>2, DiffType
  <2>4. GoodModel(old)
    BY <1>0, NewTopicModelGood
  <2>5. GoodModel(topic_model_inc')
    BY <2>1, <2>3, <2>4, ApplyDiffGood
  <2>6. QED
    BY <1>0, <1>2, <2>2, <2>5 DEF MergeIncrement
<1>3. CASE PullTopicModel
  <2>1. RetrieveModelIncrement(topic_model_inc) \in Seq(Entry)
    BY <1>0, <1>3, ModelIncrementType DEF PullTopicModel, GoodModel
  <2>2. GoodModel(topic_model')
    BY <1>3, <2>1, ApplyDiffGood, NewTopicModelGood DEF PullTopicModel
  <2>3. QED
    BY <1>0, <1>3, <2>2 DEF PullTopicModel
<1>4. ASSUME NEW regs \in RegularizerLists, InvokePhiRegularizers(regs)
      PROVE  GoodModel(topic_model') /\ UNCHANGED <<topic_model_inc, merger_queue, saved>>
             /\ updates' \in Nat
  <2>1. regs \in Seq(Regularizer)
    BY ModelUpdatesAssumption
  <2>2. QED
    BY <1>0, <1>4, <2>1, RegularizedGood DEF InvokePhiRegularizers, Update
<1>5. CASE SaveTopicModel
  BY <1>0, <1>5, ExternalType DEF SaveTopicModel, GoodModel
<1>6. ASSUME NEW external \in Seq(ExternalToken), OverwriteTopicModel(external)
      PROVE  GoodModel(topic_model') /\ UNCHANGED <<topic_model_inc, merger_queue, saved>>
             /\ updates' \in Nat
  BY <1>0, <1>6, CopyFromExternalGood DEF OverwriteTopicModel, Update
<1>7. CASE UNCHANGED vars
  BY <1>0, <1>7 DEF vars
<1>8. \A external \in UserModels : external \in Seq(ExternalToken)
  BY ModelUpdatesAssumption
<1>9. QED
  BY <1>0, <1>1, <1>2, <1>3, <1>4, <1>5, <1>6, <1>7, <1>8 DEF Next

LEMMA InitGood == Init => ModelInv
<1> SUFFICES ASSUME Init PROVE ModelInv
  OBVIOUS
<1>1. GoodModel(topic_model)
  BY NewTopicModelGood DEF Init
<1>2. QED
  BY <1>1 DEF Init, ModelInv, TypeOK, NormalizerExact, ShapesOK, GoodModel

\* Tokens and their ids are each other's inverse, every token has its rows and
\* its class a normalizer, whatever is merged, loaded and regularized.
THEOREM ModelTypeCorrect == Spec => []TypeOK
<1>1. Spec => []ModelInv
  BY InitGood, StepGood, PTL DEF Spec
<1>2. ModelInv => TypeOK
  BY DEF ModelInv
<1>3. QED
  BY <1>1, <1>2, PTL

\* The normalizers that the code adjusts with every change are the sums of the
\* numerators, for any number of tokens, classes and topics: no sequence of
\* merges, pulls, regularizations and overwrites makes them drift.
THEOREM NormalizersAreExact == Spec => []NormalizerExact
<1>1. Spec => []ModelInv
  BY InitGood, StepGood, PTL DEF Spec
<1>2. ModelInv => NormalizerExact
  BY DEF ModelInv
<1>3. QED
  BY <1>1, <1>2, PTL

-----------------------------------------------------------------------------
(* What a model says of a token.                                           *)
AdditionOf(model, token) ==
  IF has_token(model, token) THEN model.r_wt[token_id(model, token)] ELSE ZeroRow

LEMMA PlusZero ==
  ASSUME NEW row \in Row
  PROVE  Plus(row, ZeroRow) = row /\ Plus(ZeroRow, row) = row /\ ZeroRow \in Row
BY DEF Plus, Row, ZeroRow

LEMMA PlusOrder ==
  ASSUME NEW a \in Row, NEW b \in Row, NEW c \in Row
  PROVE  Plus(Plus(a, b), c) = Plus(a, Plus(b, c))
<1>1. Plus(a, b) \in Row /\ Plus(b, c) \in Row
  BY PlusType
<1>2. \A t \in Topic : /\ Plus(a, b)[t] = a[t] + b[t] /\ Plus(b, c)[t] = b[t] + c[t]
                       /\ a[t] \in Int /\ b[t] \in Int /\ c[t] \in Int
  BY PlusType DEF Row
<1>3. \A t \in Topic : Plus(a, b)[t] + c[t] = a[t] + Plus(b, c)[t]
  BY <1>2
<1>4. QED
  BY <1>3 DEF Plus

LEMMA TokenIs ==
  ASSUME NEW model, GoodModel(model), NEW token, has_token(model, token)
  PROVE  /\ token \in Token
         /\ token_id(model, token) = model.token_to_token_id[token]
         /\ token_id(model, token) \in 1..token_size(model)
         /\ model.token_id_to_token[token_id(model, token)] = token
         /\ WeightOf(model, token) = model.n_wt[token_id(model, token)]
         /\ AdditionOf(model, token) = model.r_wt[token_id(model, token)]
BY DEF GoodModel, TokensOK, has_token, token_id, WeightOf, AdditionOf

LEMMA IdIs ==
  ASSUME NEW model, GoodModel(model), NEW id \in 1..token_size(model)
  PROVE  /\ has_token(model, model.token_id_to_token[id])
         /\ token_id(model, model.token_id_to_token[id]) = id
         /\ model.token_id_to_token[id] \in Token
BY DEF GoodModel, TokensOK, has_token, token_id, token_size

LEMMA WeightType ==
  ASSUME NEW model, GoodModel(model), NEW token
  PROVE  WeightOf(model, token) \in Row /\ AdditionOf(model, token) \in Row
<1>1. CASE has_token(model, token)
  <2>1. token_id(model, token) \in 1..token_size(model)
    BY <1>1, TokenIs
  <2>2. QED
    BY <1>1, <2>1, RowsOf DEF GoodModel, WeightOf, AdditionOf
<1>2. CASE ~has_token(model, token)
  BY <1>2, PlusZero DEF WeightOf, AdditionOf, ZeroRow, Row
<1>3. QED
  BY <1>1, <1>2

\* A change of the rows of one token is seen at that token only.
LEMMA SetRowsSays ==
  ASSUME NEW model, GoodModel(model), NEW token, has_token(model, token),
         NEW n \in Row, NEW r \in Row,
         NEW new, new = SetRows(model, token_id(model, token), n, r)
  PROVE  /\ GoodModel(new) /\ token_size(new) = token_size(model)
         /\ new.token_id_to_token = model.token_id_to_token
         /\ \A other : has_token(new, other) <=> has_token(model, other)
         /\ \A other : token_id(new, other) = token_id(model, other)
         /\ WeightOf(new, token) = n /\ AdditionOf(new, token) = r
         /\ \A other : other # token => /\ WeightOf(new, other) = WeightOf(model, other)
                                        /\ AdditionOf(new, other) = AdditionOf(model, other)
<1>1. PICK id : id = token_id(model, token)
  OBVIOUS
<1>2. id \in 1..token_size(model) /\ model.token_id_to_token[id] = token
  BY <1>1, TokenIs
<1>3. /\ GoodModel(new) /\ token_size(new) = token_size(model)
      /\ new.token_id_to_token = model.token_id_to_token
      /\ new.token_to_token_id = model.token_to_token_id
  BY <1>1, <1>2, SetRowsGood
<1>4. /\ new.n_wt = [model.n_wt EXCEPT ![id] = n]
      /\ new.r_wt = [model.r_wt EXCEPT ![id] = r]
  BY <1>1 DEF SetRows
<1>5. DOMAIN model.n_wt = 1..token_size(model) /\ DOMAIN model.r_wt = 1..token_size(model)
  BY DEF GoodModel, TokensOK, token_size
<1>6. \A other : /\ has_token(new, other) <=> has_token(model, other)
                 /\ token_id(new, other) = token_id(model, other)
  BY <1>3 DEF has_token, token_id
<1>7. WeightOf(new, token) = n /\ AdditionOf(new, token) = r
  BY <1>1, <1>2, <1>4, <1>5, <1>6 DEF WeightOf, AdditionOf
<1>8. ASSUME NEW other, other # token
      PROVE  WeightOf(new, other) = WeightOf(model, other) /\ AdditionOf(new, other) = AdditionOf(model, other)
  <2>1. CASE has_token(model, other)
    <3>1. PICK k : k = token_id(model, other)
      OBVIOUS
    <3>2. k \in 1..token_size(model) /\ model.token_id_to_token[k] = other
      BY <2>1, <3>1, TokenIs
    <3>3. k # id
      BY <1>2, <1>8, <3>2
    <3>4. new.n_wt[k] = model.n_wt[k] /\ new.r_wt[k] = model.r_wt[k]
      BY <1>4, <1>5, <3>2, <3>3
    <3>5. QED
      BY <1>6, <2>1, <3>1, <3>4 DEF WeightOf, AdditionOf
  <2>2. CASE ~has_token(model, other)
    BY <1>6, <2>2 DEF WeightOf, AdditionOf
  <2>3. QED
    BY <2>1, <2>2
<1>9. QED
  BY <1>3, <1>6, <1>7, <1>8

\* A token that is added says init, and the others what they said.
LEMMA AddTokenSays ==
  ASSUME NEW model, GoodModel(model), NEW token \in Token, NEW init \in [Topic -> Nat],
         NEW new, new = AddToken(model, token, init)
  PROVE  /\ GoodModel(new) /\ has_token(new, token)
         /\ \A other : has_token(new, other) <=> has_token(model, other) \/ other = token
         /\ \A other : has_token(model, other) =>
              /\ WeightOf(new, other) = WeightOf(model, other)
              /\ AdditionOf(new, other) = AdditionOf(model, other)
         /\ ~has_token(model, token) => WeightOf(new, token) = init /\ AdditionOf(new, token) = ZeroRow
<1>1. CASE has_token(model, token)
  BY <1>1 DEF AddToken
<1>2. CASE ~has_token(model, token)
  <2>1. new = Appended(model, token, init)
    BY <1>2 DEF AddToken
  <2>2. GoodModel(new) /\ has_token(new, token)
    BY <1>2, <2>1, AppendedGood
  <2>3. PICK n : n = token_size(model)
    OBVIOUS
  <2>4. /\ model.n_wt \in Seq(Row) /\ model.r_wt \in Seq(Row)
        /\ Len(model.n_wt) = n /\ Len(model.r_wt) = n /\ n \in Nat
    BY <2>3 DEF GoodModel, TokensOK, token_size
  <2>5. init \in Row /\ ZeroRow \in Row
    BY DEF Row, ZeroRow
  <2>6. /\ new.token_to_token_id = With(model.token_to_token_id, token, n + 1)
        /\ new.n_wt = Append(model.n_wt, init)
        /\ new.r_wt = Append(model.r_wt, ZeroRow)
    BY <2>1, <2>3 DEF Appended
  <2>7. /\ \A i \in 1..n : new.n_wt[i] = model.n_wt[i] /\ new.r_wt[i] = model.r_wt[i]
        /\ new.n_wt[n + 1] = init /\ new.r_wt[n + 1] = ZeroRow
    BY <2>4, <2>5, <2>6
  <2>8. /\ \A other : has_token(new, other) <=> has_token(model, other) \/ other = token
        /\ token_id(new, token) = n + 1
        /\ \A other : has_token(model, other) => token_id(new, other) = token_id(model, other)
    BY <1>2, <2>6 DEF has_token, token_id, With
  <2>9. \A other : has_token(model, other) => token_id(model, other) \in 1..n
    BY <2>3, TokenIs
  <2>10. QED
    BY <1>2, <2>2, <2>7, <2>8, <2>9 DEF WeightOf, AdditionOf
<1>3. QED
  BY <1>1, <1>2

\* An entry adds its counters to what a token had, or to its first weights.
EntrySays(model, entry, new) ==
  /\ GoodModel(new)
  /\ \A other : has_token(new, other) <=> has_token(model, other) \/ other = entry.token
  /\ \A other : AdditionOf(new, other) = AdditionOf(model, other)
  /\ \A other : other # entry.token => WeightOf(new, other) = WeightOf(model, other)
  /\ WeightOf(new, entry.token) =
       Plus(IF has_token(model, entry.token) THEN WeightOf(model, entry.token) ELSE entry.init,
            entry.counters)

LEMMA ApplyEntrySays ==
  ASSUME NEW model, GoodModel(model), NEW entry \in Entry
  PROVE  EntrySays(model, entry, ApplyEntry(model, entry))
<1>1. entry.token \in Token /\ entry.init \in [Topic -> Nat] /\ entry.counters \in Row
  BY DEF Entry
<1>2. PICK added : added = AddToken(model, entry.token, entry.init)
  OBVIOUS
<1>3. /\ GoodModel(added) /\ has_token(added, entry.token)
      /\ \A other : has_token(added, other) <=> has_token(model, other) \/ other = entry.token
      /\ \A other : has_token(model, other) =>
           WeightOf(added, other) = WeightOf(model, other) /\ AdditionOf(added, other) = AdditionOf(model, other)
      /\ ~has_token(model, entry.token) =>
           WeightOf(added, entry.token) = entry.init /\ AdditionOf(added, entry.token) = ZeroRow
  BY <1>1, <1>2, AddTokenSays
<1>4. PICK id : id = token_id(added, entry.token)
  OBVIOUS
<1>5. PICK n : n = Plus(added.n_wt[id], entry.counters)
  OBVIOUS
<1>6. /\ added.n_wt[id] = WeightOf(added, entry.token) /\ added.r_wt[id] = AdditionOf(added, entry.token)
      /\ id = added.token_to_token_id[entry.token]
  BY <1>3, <1>4, TokenIs
<1>7. n \in Row /\ added.r_wt[id] \in Row
  BY <1>1, <1>3, <1>5, <1>6, WeightType, PlusType
<1>8. PICK new : new = SetRows(added, id, n, added.r_wt[id])
  OBVIOUS
<1>9. new = ApplyEntry(model, entry)
  BY <1>2, <1>5, <1>6, <1>8 DEF ApplyEntry, IncreaseTokenWeight
<1>10. /\ GoodModel(new)
       /\ \A other : has_token(new, other) <=> has_token(added, other)
       /\ WeightOf(new, entry.token) = n /\ AdditionOf(new, entry.token) = added.r_wt[id]
       /\ \A other : other # entry.token =>
            WeightOf(new, other) = WeightOf(added, other) /\ AdditionOf(new, other) = AdditionOf(added, other)
  BY <1>3, <1>4, <1>7, <1>8, SetRowsSays
<1>11. \A other : other # entry.token =>
         /\ WeightOf(added, other) = WeightOf(model, other)
         /\ AdditionOf(added, other) = AdditionOf(model, other)
  BY <1>3 DEF WeightOf, AdditionOf
<1>12. AdditionOf(added, entry.token) = AdditionOf(model, entry.token)
  BY <1>3 DEF AdditionOf
<1>13. n = Plus(IF has_token(model, entry.token) THEN WeightOf(model, entry.token) ELSE entry.init,
                entry.counters)
  BY <1>3, <1>5, <1>6
<1>14. QED
  BY <1>3, <1>6, <1>9, <1>10, <1>11, <1>12, <1>13 DEF EntrySays

-----------------------------------------------------------------------------
(* An increment that is merged.                                            *)
LEMMA AppliedStep ==
  ASSUME NEW model, NEW diff, NEW n \in Nat, n = Len(diff)
  PROVE  /\ ApplyDiff(model, diff) = Applied(model, diff)[n]
         /\ Applied(model, diff)[0] = model
         /\ \A i \in 1..n : Applied(model, diff)[i] = ApplyEntry(Applied(model, diff)[i - 1], diff[i])
<1> DEFINE f == Applied(model, diff)
<1>1. f = [i \in 0..n |-> IF i = 0 THEN model ELSE ApplyEntry(f[i - 1], diff[i])]
  BY AppliedExists DEF Applied
<1> HIDE DEF f
<1>2. f[0] = model /\ \A i \in 1..n : f[i] = ApplyEntry(f[i - 1], diff[i])
  BY <1>1
<1>3. QED
  BY <1>2 DEF f, ApplyDiff

\* new is model with the first k tokens of the increment inc added.
UpTo(inc, k, token) == has_token(inc, token) /\ token_id(inc, token) \in 1..k

Adds(model, inc, k, new) ==
  /\ GoodModel(new)
  /\ \A token : has_token(new, token) <=> has_token(model, token) \/ UpTo(inc, k, token)
  /\ \A token : AdditionOf(new, token) = AdditionOf(model, token)
  /\ \A token : WeightOf(new, token) =
                  IF UpTo(inc, k, token) THEN Plus(WeightOf(model, token), WeightOf(inc, token))
                  ELSE WeightOf(model, token)

LEMMA AddsOne ==
  ASSUME NEW model, GoodModel(model), NEW inc, GoodModel(inc),
         NEW k \in 1..token_size(inc), NEW old, Adds(model, inc, k - 1, old)
  PROVE  Adds(model, inc, k, ApplyEntry(old, Counted(inc.token_id_to_token[k], inc.n_wt[k])))
<1>1. PICK token : token = inc.token_id_to_token[k]
  OBVIOUS
<1>2. has_token(inc, token) /\ token_id(inc, token) = k /\ token \in Token
  BY <1>1, IdIs
<1>3. WeightOf(inc, token) = inc.n_wt[k] /\ inc.n_wt[k] \in Row
  BY <1>2, WeightType DEF WeightOf
<1>4. PICK entry : entry = Counted(token, inc.n_wt[k])
  OBVIOUS
<1>5. /\ entry \in Entry /\ entry.token = token /\ entry.init = ZeroRow
      /\ entry.counters = WeightOf(inc, token)
  BY <1>2, <1>3, <1>4, CountedType DEF Counted
<1>6. PICK new : new = ApplyEntry(old, entry)
  OBVIOUS
<1>7. EntrySays(old, entry, new) /\ GoodModel(old)
  BY <1>5, <1>6, ApplyEntrySays DEF Adds
<1>8. ASSUME NEW other PROVE UpTo(inc, k, other) <=> UpTo(inc, k - 1, other) \/ other = token
  <2>1. has_token(inc, other) =>
          token_id(inc, other) \in 1..token_size(inc) /\ inc.token_id_to_token[token_id(inc, other)] = other
    BY TokenIs
  <2>2. \A i \in 1..token_size(inc) : i \in 1..k <=> i \in 1..(k - 1) \/ i = k
    OBVIOUS
  <2>3. QED
    BY <1>1, <1>2, <2>1, <2>2 DEF UpTo
<1>9. ~UpTo(inc, k - 1, token)
  BY <1>2 DEF UpTo
<1>10. \A other : has_token(new, other) <=> has_token(model, other) \/ UpTo(inc, k, other)
  BY <1>5, <1>7, <1>8 DEF EntrySays, Adds
<1>11. \A other : AdditionOf(new, other) = AdditionOf(model, other)
  BY <1>7 DEF EntrySays, Adds
<1>12. WeightOf(new, token) = Plus(WeightOf(model, token), WeightOf(inc, token))
  <2>1. WeightOf(new, token) =
          Plus(IF has_token(old, token) THEN WeightOf(old, token) ELSE ZeroRow, WeightOf(inc, token))
    BY <1>5, <1>7 DEF EntrySays
  <2>2. (IF has_token(old, token) THEN WeightOf(old, token) ELSE ZeroRow) = WeightOf(old, token)
    BY DEF WeightOf
  <2>3. WeightOf(old, token) = WeightOf(model, token)
    BY <1>9 DEF Adds
  <2>4. QED
    BY <2>1, <2>2, <2>3
<1>13. ASSUME NEW other, other # token
       PROVE  WeightOf(new, other) =
                IF UpTo(inc, k, other) THEN Plus(WeightOf(model, other), WeightOf(inc, other))
                ELSE WeightOf(model, other)
  <2>1. WeightOf(new, other) = WeightOf(old, other)
    BY <1>5, <1>7, <1>13 DEF EntrySays
  <2>2. UpTo(inc, k, other) <=> UpTo(inc, k - 1, other)
    BY <1>8, <1>13
  <2>3. QED
    BY <2>1, <2>2 DEF Adds
<1>14. UpTo(inc, k, token)
  BY <1>8
<1>15. GoodModel(new)
  BY <1>7 DEF EntrySays
<1>16. Adds(model, inc, k, new)
  BY <1>10, <1>11, <1>12, <1>13, <1>14, <1>15 DEF Adds
<1>17. QED
  BY <1>1, <1>4, <1>6, <1>16

LEMMA IncrementAdds ==
  ASSUME NEW model, GoodModel(model), NEW inc, GoodModel(inc)
  PROVE  Adds(model, inc, token_size(inc), ApplyDiff(model, RetrieveModelIncrement(inc)))
<1>1. PICK n \in Nat : n = token_size(inc)
  BY DEF GoodModel, TokensOK, token_size
<1>2. PICK diff : diff = RetrieveModelIncrement(inc)
  OBVIOUS
<1>3. Len(diff) = n /\ \A i \in 1..n : diff[i] = Counted(inc.token_id_to_token[i], inc.n_wt[i])
  BY <1>1, <1>2 DEF RetrieveModelIncrement
<1> DEFINE f == Applied(model, diff)
           P == {k \in 0..n : Adds(model, inc, k, f[k])}
<1>4. /\ ApplyDiff(model, diff) = f[n] /\ f[0] = model
      /\ \A i \in 1..n : f[i] = ApplyEntry(f[i - 1], diff[i])
  BY <1>3, AppliedStep
<1> HIDE DEF f
<1>5. 0 \in P
  <2>1. \A token : ~UpTo(inc, 0, token)
    BY DEF UpTo
  <2>2. Adds(model, inc, 0, model)
    BY <2>1 DEF Adds
  <2>3. QED
    BY <1>4, <2>2
<1>6. ASSUME NEW i \in 1..n, i - 1 \in P PROVE i \in P
  <2>1. i \in 0..n /\ Adds(model, inc, i - 1, f[i - 1])
    BY <1>6
  <2>2. f[i] = ApplyEntry(f[i - 1], Counted(inc.token_id_to_token[i], inc.n_wt[i]))
    BY <1>3, <1>4
  <2>3. Adds(model, inc, i, f[i])
    BY <1>1, <2>1, <2>2, AddsOne
  <2>4. QED
    BY <2>1, <2>3
<1>7. n \in P
  <2> HIDE DEF P
  <2>1. \A i \in 0..n : i \in P
    BY <1>5, <1>6, Induction
  <2>2. n \in 0..n
    OBVIOUS
  <2>3. QED
    BY <2>1, <2>2
<1>8. QED
  BY <1>1, <1>2, <1>4, <1>7

\* merger.cc, PushTopicModelIncrement: whatever the master and the node have met, and in
\* whatever order, the merged model counts for each token what the two have counted.
THEOREM PushesAdd == Spec => []PushAdds
<1>1. ModelInv => PushAdds
  <2> SUFFICES ASSUME ModelInv, topic_model_inc # Nil,
                      NEW merged, merged = ApplyDiff(topic_model, RetrieveModelIncrement(topic_model_inc)),
                      NEW token \in Token
               PROVE  WeightOf(merged, token) = Plus(WeightOf(topic_model, token), WeightOf(topic_model_inc, token))
    BY DEF PushAdds
  <2>1. GoodModel(topic_model) /\ GoodModel(topic_model_inc)
    BY DEF ModelInv, TypeOK, NormalizerExact, ShapesOK, GoodModel
  <2>2. Adds(topic_model, topic_model_inc, token_size(topic_model_inc), merged)
    BY <2>1, IncrementAdds
  <2>3. CASE has_token(topic_model_inc, token)
    <3>1. UpTo(topic_model_inc, token_size(topic_model_inc), token)
      BY <2>1, <2>3, TokenIs DEF UpTo
    <3>2. QED
      BY <2>2, <3>1 DEF Adds
  <2>4. CASE ~has_token(topic_model_inc, token)
    <3>1. ~UpTo(topic_model_inc, token_size(topic_model_inc), token)
      BY <2>4 DEF UpTo
    <3>2. WeightOf(topic_model_inc, token) = ZeroRow
      BY <2>4 DEF WeightOf
    <3>3. WeightOf(topic_model, token) \in Row
      BY <2>1, WeightType
    <3>4. QED
      BY <2>2, <3>1, <3>2, <3>3, PlusZero DEF Adds
  <2>5. QED
    BY <2>3, <2>4
<1>2. Spec => []ModelInv
  BY InitGood, StepGood, PTL DEF Spec
<1>3. QED
  BY <1>1, <1>2, PTL

-----------------------------------------------------------------------------
(* A model that is saved and loaded.                                       *)
LEMMA ClassesAre ==
  ASSUME NEW model, GoodModel(model)
  PROVE  DOMAIN model.n_t =
           {DefaultClass} \cup {model.token_id_to_token[id].class_id : id \in 1..token_size(model)}
<1>1. \A class \in DOMAIN model.n_t :
        class = DefaultClass \/ \E id \in 1..token_size(model) : model.token_id_to_token[id].class_id = class
  BY DEF GoodModel, ShapeOK
<1>2. DefaultClass \in DOMAIN model.n_t
      /\ \A id \in 1..token_size(model) : model.token_id_to_token[id].class_id \in DOMAIN model.n_t
  BY DEF GoodModel, TokensOK
<1>3. QED
  BY <1>1, <1>2

\* A model is its tokens in their order with their rows.
LEMMA SameModel ==
  ASSUME NEW model, GoodModel(model), NEW other, GoodModel(other),
         other.token_id_to_token = model.token_id_to_token,
         other.n_wt = model.n_wt, other.r_wt = model.r_wt
  PROVE  other = model
<1>1. PICK n \in Nat : n = token_size(model) /\ n = token_size(other)
  BY DEF GoodModel, TokensOK, token_size
<1>2. DOMAIN other.token_to_token_id = DOMAIN model.token_to_token_id
  <2>1. ASSUME NEW token, has_token(other, token) PROVE has_token(model, token)
    <3>1. PICK id \in 1..n : other.token_id_to_token[id] = token
      BY <1>1, <2>1, TokenIs
    <3>2. model.token_id_to_token[id] = token
      BY <3>1
    <3>3. QED
      BY <1>1, <3>2, IdIs
  <2>2. ASSUME NEW token, has_token(model, token) PROVE has_token(other, token)
    <3>1. PICK id : id = token_id(model, token)
      OBVIOUS
    <3>2. id \in 1..n /\ model.token_id_to_token[id] = token
      BY <1>1, <2>2, <3>1, TokenIs
    <3>3. other.token_id_to_token[id] = token
      BY <3>2
    <3>4. QED
      BY <1>1, <3>2, <3>3, IdIs
  <2>3. \A token : token \in DOMAIN other.token_to_token_id <=> token \in DOMAIN model.token_to_token_id
    BY <2>1, <2>2 DEF has_token
  <2>4. QED
    BY <2>3
<1>3. ASSUME NEW token \in DOMAIN model.token_to_token_id
      PROVE  other.token_to_token_id[token] = model.token_to_token_id[token]
  <2>1. has_token(model, token) /\ has_token(other, token)
    BY <1>2 DEF has_token
  <2>2. PICK id : id = token_id(model, token)
    OBVIOUS
  <2>3. id \in 1..n /\ model.token_id_to_token[id] = token /\ id = model.token_to_token_id[token]
    BY <1>1, <2>1, <2>2, TokenIs
  <2>4. other.token_id_to_token[id] = token
    BY <2>3
  <2>5. token_id(other, token) = id
    BY <1>1, <2>3, <2>4, IdIs
  <2>6. QED
    BY <2>1, <2>3, <2>5, TokenIs
<1>4. other.token_to_token_id = model.token_to_token_id
  BY <1>2, <1>3 DEF GoodModel, ShapeOK
<1>5. DOMAIN other.n_t = DOMAIN model.n_t
  <2>1. DOMAIN other.n_t = {DefaultClass} \cup {other.token_id_to_token[id].class_id : id \in 1..n}
    BY <1>1, ClassesAre
  <2>2. DOMAIN model.n_t = {DefaultClass} \cup {model.token_id_to_token[id].class_id : id \in 1..n}
    BY <1>1, ClassesAre
  <2>3. QED
    BY <2>1, <2>2
<1>6. ASSUME NEW class \in DOMAIN model.n_t PROVE other.n_t[class] = model.n_t[class]
  <2>1. \A t \in Topic : Total(other, class, t) = Total(model, class, t)
    BY DEF Total, Contributions, Contribution, token_size
  <2>2. \A t \in Topic : /\ other.n_t[class][t] = Total(other, class, t)
                         /\ model.n_t[class][t] = Total(model, class, t)
    BY <1>5 DEF GoodModel, NormalizerOK
  <2>3. other.n_t[class] \in Row /\ model.n_t[class] \in Row
    BY <1>5 DEF GoodModel, TokensOK
  <2>4. \A t \in Topic : other.n_t[class][t] = model.n_t[class][t]
    BY <2>1, <2>2
  <2>5. QED
    BY <2>3, <2>4 DEF Row
<1>7. other.n_t = model.n_t
  BY <1>5, <1>6 DEF GoodModel, ShapeOK
<1>8. QED
  BY <1>4, <1>7 DEF GoodModel, TokensOK

\* part holds the first k tokens of model, with their rows.
FirstTokens(model, k, part) ==
  /\ GoodModel(part) /\ token_size(part) = k
  /\ \A i \in 1..k : /\ part.token_id_to_token[i] = model.token_id_to_token[i]
                     /\ part.n_wt[i] = model.n_wt[i] /\ part.r_wt[i] = model.r_wt[i]

LEMMA LoadOne ==
  ASSUME NEW model, GoodModel(model), NEW k \in 1..token_size(model),
         NEW part, FirstTokens(model, k - 1, part),
         NEW external, external = [token |-> model.token_id_to_token[k],
                                   n |-> model.n_wt[k], r |-> model.r_wt[k]]
  PROVE  FirstTokens(model, k, LoadToken(part, external))
<1>1. PICK token : token = model.token_id_to_token[k]
  OBVIOUS
<1>2. has_token(model, token) /\ token_id(model, token) = k /\ token \in Token
  BY <1>1, IdIs
<1>3. external.token = token /\ external.n = model.n_wt[k] /\ external.r = model.r_wt[k]
      /\ external.n \in Row /\ external.r \in Row
  BY <1>1, RowsOf DEF GoodModel
<1>4. GoodModel(part) /\ token_size(part) = k - 1
  BY DEF FirstTokens
<1>5. token_size(model) \in Nat /\ k \in Nat /\ k \in 1..k
  BY DEF GoodModel, TokensOK, token_size
<1>6. ~has_token(part, token)
  <2>1. SUFFICES ASSUME has_token(part, token) PROVE FALSE
    OBVIOUS
  <2>2. PICK i \in 1..(k - 1) : part.token_id_to_token[i] = token
    BY <1>4, <2>1, TokenIs
  <2>3. model.token_id_to_token[i] = token /\ i \in 1..token_size(model) /\ i # k
    BY <1>5, <2>2 DEF FirstTokens
  <2>4. token_id(model, token) = i
    BY <2>3, IdIs
  <2>5. QED
    BY <1>2, <2>3, <2>4
<1>7. PICK added : added = AddToken(part, token, ZeroRow)
  OBVIOUS
<1>8. ZeroRow \in [Topic -> Nat] /\ ZeroRow \in Row
  BY DEF ZeroRow, Row
<1>9. added = Appended(part, token, ZeroRow)
  BY <1>6, <1>7 DEF AddToken
<1>10. /\ GoodModel(added) /\ added.token_to_token_id[token] = token_size(added)
  BY <1>2, <1>4, <1>6, <1>8, <1>9, AppendedGood
<1>11. /\ added.token_id_to_token = Append(part.token_id_to_token, token)
       /\ added.n_wt = Append(part.n_wt, ZeroRow)
       /\ added.r_wt = Append(part.r_wt, ZeroRow)
  BY <1>9 DEF Appended
<1>12. /\ part.token_id_to_token \in Seq(Token) /\ Len(part.token_id_to_token) = k - 1
       /\ part.n_wt \in Seq(Row) /\ Len(part.n_wt) = k - 1
       /\ part.r_wt \in Seq(Row) /\ Len(part.r_wt) = k - 1
  BY <1>4 DEF GoodModel, TokensOK, token_size
<1>13. /\ Len(added.n_wt) = k /\ Len(added.r_wt) = k /\ token_size(added) = k
       /\ added.token_id_to_token[k] = token
       /\ \A i \in 1..(k - 1) : /\ added.token_id_to_token[i] = part.token_id_to_token[i]
                                /\ added.n_wt[i] = part.n_wt[i] /\ added.r_wt[i] = part.r_wt[i]
  BY <1>2, <1>5, <1>8, <1>11, <1>12 DEF token_size
<1>14. DOMAIN added.n_wt = 1..k /\ DOMAIN added.r_wt = 1..k
  BY <1>10, <1>13 DEF GoodModel, TokensOK
<1>15. PICK weighted : weighted = SetTokenWeight(added, k, external.n)
  OBVIOUS
<1>16. /\ GoodModel(weighted) /\ token_size(weighted) = k
       /\ weighted.token_id_to_token = added.token_id_to_token
       /\ weighted.n_wt = [added.n_wt EXCEPT ![k] = external.n]
       /\ weighted.r_wt = [added.r_wt EXCEPT ![k] = added.r_wt[k]]
  <2>1. added.r_wt[k] \in Row
    BY <1>5, <1>10, <1>13, RowsOf DEF GoodModel
  <2>2. weighted = SetRows(added, k, external.n, added.r_wt[k])
    BY <1>15 DEF SetTokenWeight
  <2>3. /\ weighted.n_wt = [added.n_wt EXCEPT ![k] = external.n]
        /\ weighted.r_wt = [added.r_wt EXCEPT ![k] = added.r_wt[k]]
    BY <2>2 DEF SetRows
  <2>4. k \in 1..token_size(added)
    BY <1>5, <1>13
  <2>5. /\ GoodModel(weighted) /\ token_size(weighted) = token_size(added)
        /\ weighted.token_id_to_token = added.token_id_to_token
    BY <1>3, <1>10, <2>1, <2>2, <2>4, SetRowsGood
  <2>6. QED
    BY <1>13, <2>3, <2>5
<1>17. PICK new : new = SetRegularizerWeight(weighted, k, external.r)
  OBVIOUS
<1>18. /\ GoodModel(new) /\ token_size(new) = k
       /\ new.token_id_to_token = added.token_id_to_token
       /\ new.n_wt = [weighted.n_wt EXCEPT ![k] = weighted.n_wt[k]]
       /\ new.r_wt = [weighted.r_wt EXCEPT ![k] = external.r]
  <2>1. weighted.n_wt[k] \in Row
    BY <1>5, <1>16, RowsOf DEF GoodModel
  <2>2. new = SetRows(weighted, k, weighted.n_wt[k], external.r)
    BY <1>17 DEF SetRegularizerWeight
  <2>3. /\ new.n_wt = [weighted.n_wt EXCEPT ![k] = weighted.n_wt[k]]
        /\ new.r_wt = [weighted.r_wt EXCEPT ![k] = external.r]
    BY <2>2 DEF SetRows
  <2>4. k \in 1..token_size(weighted) /\ external.r \in Row /\ GoodModel(weighted)
    BY <1>3, <1>5, <1>16
  <2>5. /\ GoodModel(SetRows(weighted, k, weighted.n_wt[k], external.r))
        /\ token_size(SetRows(weighted, k, weighted.n_wt[k], external.r)) = token_size(weighted)
        /\ SetRows(weighted, k, weighted.n_wt[k], external.r).token_id_to_token = weighted.token_id_to_token
    BY <2>1, <2>4, SetRowsGood
  <2>6. QED
    BY <1>16, <2>2, <2>3, <2>5
<1>19. new.n_wt[k] = external.n /\ new.r_wt[k] = external.r
       /\ \A i \in 1..(k - 1) : new.n_wt[i] = part.n_wt[i] /\ new.r_wt[i] = part.r_wt[i]
  <2>1. DOMAIN weighted.n_wt = 1..k /\ DOMAIN weighted.r_wt = 1..k
    BY <1>14, <1>16
  <2>2. weighted.n_wt[k] = external.n
        /\ \A i \in 1..(k - 1) : weighted.n_wt[i] = part.n_wt[i] /\ weighted.r_wt[i] = part.r_wt[i]
    BY <1>5, <1>13, <1>14, <1>16
  <2>3. QED
    BY <1>5, <1>18, <2>1, <2>2
<1>20. \A i \in 1..k : i \in 1..(k - 1) \/ i = k
  BY <1>5
<1>21. FirstTokens(model, k, new)
  BY <1>1, <1>3, <1>13, <1>18, <1>19, <1>20 DEF FirstTokens
<1>22. new = LoadToken(part, external)
  BY <1>3, <1>7, <1>10, <1>13, <1>15, <1>17 DEF LoadToken
<1>23. QED
  BY <1>21, <1>22

LEMMA ReloadIs ==
  ASSUME NEW model, GoodModel(model)
  PROVE  CopyFromExternalTopicModel(RetrieveExternalTopicModel(model)) = model
<1>1. PICK n \in Nat : n = token_size(model)
  BY DEF GoodModel, TokensOK, token_size
<1>2. PICK external : external = RetrieveExternalTopicModel(model)
  OBVIOUS
<1>3. /\ Len(external) = n
      /\ \A i \in 1..n : external[i] = [token |-> model.token_id_to_token[i],
                                        n |-> model.n_wt[i], r |-> model.r_wt[i]]
  BY <1>1, <1>2 DEF RetrieveExternalTopicModel
<1> DEFINE f == Loaded(external)
           P == {k \in 0..n : FirstTokens(model, k, f[k])}
<1>4. f = [i \in 0..n |-> IF i = 0 THEN NewTopicModel ELSE LoadToken(f[i - 1], external[i])]
  BY <1>3, LoadedExists DEF Loaded
<1>5. CopyFromExternalTopicModel(external) = f[n]
  BY <1>3 DEF CopyFromExternalTopicModel
<1> HIDE DEF f
<1>6. 0 \in P
  <2>1. f[0] = NewTopicModel
    BY <1>4
  <2>2. token_size(NewTopicModel) = 0
    BY DEF NewTopicModel, token_size
  <2>3. QED
    BY <2>1, <2>2, NewTopicModelGood DEF FirstTokens
<1>7. ASSUME NEW i \in 1..n, i - 1 \in P PROVE i \in P
  <2>1. f[i] = LoadToken(f[i - 1], external[i]) /\ i \in 0..n
    BY <1>4
  <2>2. FirstTokens(model, i - 1, f[i - 1])
    BY <1>7
  <2>3. FirstTokens(model, i, f[i])
    BY <1>1, <1>3, <2>1, <2>2, LoadOne
  <2>4. QED
    BY <2>1, <2>3
<1>8. n \in P
  <2> HIDE DEF P
  <2>1. \A i \in 0..n : i \in P
    BY <1>6, <1>7, Induction
  <2>2. n \in 0..n
    OBVIOUS
  <2>3. QED
    BY <2>1, <2>2
<1>9. PICK loaded : loaded = f[n]
  OBVIOUS
<1>10. FirstTokens(model, n, loaded)
  BY <1>8, <1>9
<1>11. /\ GoodModel(loaded) /\ token_size(loaded) = n
       /\ \A i \in 1..n : /\ loaded.token_id_to_token[i] = model.token_id_to_token[i]
                          /\ loaded.n_wt[i] = model.n_wt[i] /\ loaded.r_wt[i] = model.r_wt[i]
  BY <1>10 DEF FirstTokens
<1>12. /\ loaded.token_id_to_token \in Seq(Token) /\ loaded.n_wt \in Seq(Row) /\ loaded.r_wt \in Seq(Row)
       /\ model.token_id_to_token \in Seq(Token) /\ model.n_wt \in Seq(Row) /\ model.r_wt \in Seq(Row)
       /\ Len(loaded.token_id_to_token) = n /\ Len(loaded.n_wt) = n /\ Len(loaded.r_wt) = n
       /\ Len(model.token_id_to_token) = n /\ Len(model.n_wt) = n /\ Len(model.r_wt) = n
  BY <1>1, <1>11 DEF GoodModel, TokensOK, token_size
<1>13. loaded.token_id_to_token = model.token_id_to_token
  BY <1>11, <1>12
<1>14. loaded.n_wt = model.n_wt /\ loaded.r_wt = model.r_wt
  BY <1>11, <1>12
<1>15. loaded = model
  BY <1>11, <1>13, <1>14, SameModel
<1>16. QED
  BY <1>2, <1>5, <1>9, <1>15

\* topic_model.cc, RetrieveExternalTopicModel and CopyFromExternalTopicModel: the external
\* form of a model, n_wt and r_wt of each token in their order, says all of it - also which
\* classes have a normalizer, and what the normalizers are.
THEOREM ReloadIsTheSame == Spec => []ReloadSame
<1>1. ModelInv => ReloadSame
  <2> SUFFICES ASSUME ModelInv PROVE ReloadSame
    OBVIOUS
  <2>1. GoodModel(topic_model)
    BY DEF ModelInv, TypeOK, NormalizerExact, ShapesOK, GoodModel
  <2>2. QED
    BY <2>1, ReloadIs DEF ReloadSame
<1>2. Spec => []ModelInv
  BY InitGood, StepGood, PTL DEF Spec
<1>3. QED
  BY <1>1, <1>2, PTL

-----------------------------------------------------------------------------
(* New tokens are alive.                                                   *)
\* The random weights of a new token are not all zero (topic_model.cc:279-290: random numbers
\* divided by their sum).
PositiveRows == \A row \in InitialRows : \E t \in Topic : row[t] > 0

Counts == [Topic -> Nat]
Some(row) == \E t \in Topic : row[t] > 0

\* The tokens that are not known weigh something, and nothing is negative.
Alive(known, model) ==
  /\ GoodModel(model)
  /\ \A token : has_token(model, token) =>
       /\ WeightOf(model, token) \in Counts /\ AdditionOf(model, token) = ZeroRow
       /\ token \in known \/ Some(WeightOf(model, token))

\* A token is known, or met with a random weight before it is counted.
Ready(known, diff, n) ==
  \A i \in 1..n :
    /\ diff[i] \in Entry /\ diff[i].counters \in Counts
    /\ \/ diff[i].token \in known
       \/ Some(diff[i].init)
       \/ \E j \in 1..(i - 1) : diff[j].token = diff[i].token

Known(model) == DOMAIN model.token_to_token_id

LEMMA PlusCounts ==
  ASSUME NEW a \in Counts, NEW b \in Counts
  PROVE  /\ Plus(a, b) \in Counts /\ a \in Row
         /\ Some(a) => Some(Plus(a, b))
<1>1. \A t \in Topic : a[t] \in Nat /\ b[t] \in Nat /\ a[t] + b[t] \in Nat
  BY DEF Counts
<1>2. \A t \in Topic : a[t] > 0 => a[t] + b[t] > 0
  BY <1>1
<1>3. QED
  BY <1>1, <1>2 DEF Plus, Counts, Row, Some

LEMMA AliveStep ==
  ASSUME NEW known, NEW model, Alive(known, model), NEW entry \in Entry, entry.counters \in Counts,
         entry.token \in known \/ Some(entry.init) \/ has_token(model, entry.token)
  PROVE  /\ Alive(known, ApplyEntry(model, entry))
         /\ \A token : has_token(ApplyEntry(model, entry), token) <=>
                         has_token(model, token) \/ token = entry.token
<1>1. PICK new : new = ApplyEntry(model, entry)
  OBVIOUS
<1>2. EntrySays(model, entry, new)
  BY <1>1, ApplyEntrySays DEF Alive
<1>3. PICK before : before = IF has_token(model, entry.token) THEN WeightOf(model, entry.token) ELSE entry.init
  OBVIOUS
<1>4. before \in Counts /\ (entry.token \in known \/ Some(before))
  <2>1. entry.init \in Counts
    BY DEF Entry, Counts
  <2>2. QED
    BY <1>3, <2>1 DEF Alive
<1>5. WeightOf(new, entry.token) = Plus(before, entry.counters)
  BY <1>2, <1>3 DEF EntrySays
<1>6. /\ WeightOf(new, entry.token) \in Counts
      /\ entry.token \in known \/ Some(WeightOf(new, entry.token))
  BY <1>4, <1>5, PlusCounts
<1>7. AdditionOf(new, entry.token) = ZeroRow
  <2>1. AdditionOf(new, entry.token) = AdditionOf(model, entry.token)
    BY <1>2 DEF EntrySays
  <2>2. has_token(model, entry.token) => AdditionOf(model, entry.token) = ZeroRow
    BY DEF Alive
  <2>3. ~has_token(model, entry.token) => AdditionOf(model, entry.token) = ZeroRow
    BY DEF AdditionOf
  <2>4. QED
    BY <2>1, <2>2, <2>3
<1>8. ASSUME NEW token, has_token(new, token), token # entry.token
      PROVE  /\ WeightOf(new, token) \in Counts /\ AdditionOf(new, token) = ZeroRow
             /\ token \in known \/ Some(WeightOf(new, token))
  <2>1. /\ WeightOf(new, token) = WeightOf(model, token) /\ AdditionOf(new, token) = AdditionOf(model, token)
        /\ has_token(model, token)
    BY <1>2, <1>8 DEF EntrySays
  <2>2. QED
    BY <2>1 DEF Alive
<1>9. GoodModel(new) /\ \A token : has_token(new, token) <=> has_token(model, token) \/ token = entry.token
  BY <1>2 DEF EntrySays
<1>10. Alive(known, new)
  BY <1>6, <1>7, <1>8, <1>9 DEF Alive
<1>11. QED
  BY <1>1, <1>9, <1>10

\* An increment of a batch that is merged.
LEMMA AliveDiff ==
  ASSUME NEW known, NEW model, Alive(known, model), NEW diff, NEW n \in Nat, n = Len(diff),
         Ready(known, diff, n)
  PROVE  Alive(known, ApplyDiff(model, diff))
<1>1. PICK f : f = Applied(model, diff)
  OBVIOUS
<1>2. /\ ApplyDiff(model, diff) = f[n] /\ f[0] = model
      /\ \A i \in 1..n : f[i] = ApplyEntry(f[i - 1], diff[i])
  BY <1>1, AppliedStep
<1> DEFINE P == {k \in 0..n : /\ Alive(known, f[k])
                              /\ \A j \in 1..k : has_token(f[k], diff[j].token)}
<1>3. 0 \in P
  BY <1>2
<1>4. ASSUME NEW k \in 1..n, k - 1 \in P PROVE k \in P
  <2>1. /\ Alive(known, f[k - 1]) /\ k \in 0..n
        /\ \A j \in 1..(k - 1) : has_token(f[k - 1], diff[j].token)
    BY <1>4
  <2>2. f[k] = ApplyEntry(f[k - 1], diff[k])
    BY <1>2
  <2>3. PICK entry : entry = diff[k]
    OBVIOUS
  <2>4. /\ entry \in Entry /\ entry.counters \in Counts
        /\ entry.token \in known \/ Some(entry.init)
           \/ \E j \in 1..(k - 1) : diff[j].token = entry.token
    BY <2>3 DEF Ready
  <2>5. entry.token \in known \/ Some(entry.init) \/ has_token(f[k - 1], entry.token)
    BY <2>1, <2>4
  <2>6. Alive(known, f[k]) /\ \A token : has_token(f[k], token) <=> has_token(f[k - 1], token) \/ token = entry.token
    BY <2>1, <2>2, <2>3, <2>4, <2>5, AliveStep
  <2>7. \A j \in 1..k : j \in 1..(k - 1) \/ j = k
    OBVIOUS
  <2>8. \A j \in 1..k : has_token(f[k], diff[j].token)
    BY <2>1, <2>3, <2>6, <2>7
  <2>9. QED
    BY <2>1, <2>6, <2>8
<1>5. n \in P
  <2> HIDE DEF P
  <2>1. \A i \in 0..n : i \in P
    BY <1>3, <1>4, Induction
  <2>2. n \in 0..n
    OBVIOUS
  <2>3. QED
    BY <2>1, <2>2
<1>6. QED
  BY <1>2, <1>5

\* What a processor sends: counters that are not negative, and every token that the
\* model does not know among the discovered ones.
Announces(known, increment) ==
  \A i \in DOMAIN increment.token_increment :
    /\ increment.token_increment[i].counters \in Counts
    /\ \/ increment.token_increment[i].token \in known
       \/ Holds(increment.discovered, increment.token_increment[i].token)

Joins(a, b, c) == /\ Len(c) = Len(a) + Len(b)
                  /\ \A i \in 1..Len(a) : c[i] = a[i]
                  /\ \A i \in 1..Len(b) : c[Len(a) + i] = b[i]

LEMMA JoinedIndex ==
  ASSUME NEW S, NEW a \in Seq(S), NEW b \in Seq(S)
  PROVE  Joins(a, b, a \o b)
<1>1. PICK m \in Nat : m = Len(a) /\ DOMAIN a = 1..m
  OBVIOUS
<1>2. PICK n \in Nat : n = Len(b) /\ DOMAIN b = 1..n
  OBVIOUS
<1>3. PICK c \in Seq(S) : c = a \o b
  <2>1. a \o b \in Seq(S)
    OBVIOUS
  <2>2. QED
    BY <2>1
<1>4. /\ Len(c) = m + n
      /\ \A i \in 1..m : c[i] = a[i]
      /\ \A i \in 1..n : c[m + i] = b[i]
  BY <1>1, <1>2, <1>3
<1>5. Joins(a, b, c)
  BY <1>1, <1>2, <1>4 DEF Joins
<1>6. QED
  BY <1>3, <1>5

LEMMA DiffReady ==
  ASSUME PositiveRows, NEW known, NEW increment \in Increment, Announces(known, increment),
         NEW init \in [{increment.discovered[i] : i \in DOMAIN increment.discovered} -> InitialRows],
         NEW diff, diff = Diff(increment, init)
  PROVE  \E n \in Nat : n = Len(diff) /\ Ready(known, diff, n)
<1>1. increment.discovered \in Seq(Token) /\ increment.token_increment \in Seq(Entry)
  BY DEF Increment
<1>2. PICK d \in Nat : d = Len(increment.discovered) /\ DOMAIN increment.discovered = 1..d
  BY <1>1
<1>3. PICK c \in Nat : c = Len(increment.token_increment) /\ DOMAIN increment.token_increment = 1..c
  BY <1>1
<1>4. ASSUME NEW i \in 1..d
      PROVE  /\ increment.discovered[i] \in Token
             /\ init[increment.discovered[i]] \in Counts /\ Some(init[increment.discovered[i]])
             /\ Discovered(increment.discovered[i], init[increment.discovered[i]]) \in Entry
  <2>1. increment.discovered[i] \in Token
    BY <1>1, <1>2
  <2>2. init[increment.discovered[i]] \in InitialRows
    BY <1>2
  <2>3. init[increment.discovered[i]] \in [Topic -> Nat]
    BY <2>2, ModelUpdatesAssumption
  <2>4. Some(init[increment.discovered[i]])
    BY <2>2 DEF PositiveRows, Some
  <2>5. QED
    BY <2>1, <2>3, <2>4 DEF Discovered, Entry, Row, ZeroRow, Counts
<1> DEFINE random == [i \in DOMAIN increment.discovered |->
                        Discovered(increment.discovered[i], init[increment.discovered[i]])]
<1>5. random \in Seq(Entry) /\ Len(random) = d
      /\ \A i \in 1..d : random[i] = Discovered(increment.discovered[i], init[increment.discovered[i]])
  BY <1>2, <1>4
<1>6. diff = random \o increment.token_increment
  BY DEF Diff
<1> HIDE DEF random
<1>7. /\ Len(diff) = d + c
      /\ \A i \in 1..d : diff[i] = random[i]
      /\ \A i \in 1..c : diff[d + i] = increment.token_increment[i]
  <2>1. PICK a \in Seq(Entry) : a = random
    BY <1>5
  <2>2. PICK b \in Seq(Entry) : b = increment.token_increment
    BY <1>1
  <2>3. Len(a) = d /\ Len(b) = c /\ diff = a \o b
    BY <1>3, <1>5, <1>6, <2>1, <2>2
  <2>4. Joins(a, b, a \o b)
    BY JoinedIndex
  <2>5. Joins(a, b, diff)
    BY <2>3, <2>4
  <2>6. /\ Len(diff) = d + c
        /\ \A i \in 1..d : diff[i] = a[i]
        /\ \A i \in 1..c : diff[d + i] = b[i]
    BY <2>3, <2>5 DEF Joins
  <2>7. QED
    BY <2>1, <2>2, <2>6
<1>8. ASSUME NEW i \in 1..d
      PROVE  diff[i] \in Entry /\ diff[i].counters \in Counts /\ Some(diff[i].init)
             /\ diff[i].token = increment.discovered[i]
  <2>1. diff[i] = Discovered(increment.discovered[i], init[increment.discovered[i]])
    BY <1>5, <1>7
  <2>2. diff[i].counters = ZeroRow /\ diff[i].init = init[increment.discovered[i]]
        /\ diff[i].token = increment.discovered[i]
    BY <2>1 DEF Discovered
  <2>3. ZeroRow \in Counts
    BY DEF ZeroRow, Counts
  <2>4. QED
    BY <1>4, <2>1, <2>2, <2>3
<1>9. ASSUME NEW i \in 1..c
      PROVE  /\ diff[d + i] \in Entry /\ diff[d + i].counters \in Counts
             /\ diff[d + i].token \in known \/ \E j \in 1..d : diff[j].token = diff[d + i].token
  <2>1. diff[d + i] = increment.token_increment[i] /\ increment.token_increment[i] \in Entry
    BY <1>1, <1>3, <1>7
  <2>2. /\ increment.token_increment[i].counters \in Counts
        /\ increment.token_increment[i].token \in known
           \/ \E j \in 1..d : increment.discovered[j] = increment.token_increment[i].token
    BY <1>2, <1>3 DEF Announces, Holds
  <2>3. QED
    BY <1>8, <2>1, <2>2
<1>10. ASSUME NEW i \in 1..(d + c)
       PROVE  /\ diff[i] \in Entry /\ diff[i].counters \in Counts
              /\ \/ diff[i].token \in known
                 \/ Some(diff[i].init)
                 \/ \E j \in 1..(i - 1) : diff[j].token = diff[i].token
  <2>1. CASE i \in 1..d
    BY <1>8, <2>1
  <2>2. CASE i \notin 1..d
    <3>1. PICK k \in 1..c : i = d + k
      <4>1. i - d \in 1..c /\ i = d + (i - d)
        BY <2>2
      <4>2. QED
        BY <4>1
    <3>2. \A j \in 1..d : j \in 1..(i - 1)
      BY <2>2
    <3>3. /\ diff[i] \in Entry /\ diff[i].counters \in Counts
          /\ diff[i].token \in known \/ \E j \in 1..d : diff[j].token = diff[i].token
      BY <1>9, <3>1
    <3>4. QED
      BY <3>2, <3>3
  <2>3. QED
    BY <2>1, <2>2
<1>11. d + c \in Nat /\ Ready(known, diff, d + c)
  BY <1>10 DEF Ready
<1>12. QED
  BY <1>7, <1>11

-----------------------------------------------------------------------------
LiveInv ==
  /\ topic_model_inc # Nil => Alive(Known(topic_model), topic_model_inc)
  /\ \A i \in DOMAIN merger_queue : Announces(Known(topic_model), merger_queue[i])

LEMMA ProcessAnnounces ==
  ASSUME TypeOK, NEW batch \in Batches, Process(batch)
  PROVE  \E increment : /\ merger_queue' = Append(merger_queue, increment)
                        /\ increment \in Increment
                        /\ Announces(Known(topic_model), increment)
<1>1. PICK rows \in [DOMAIN batch -> CountRows \cup {ZeroRow}] :
        merger_queue' = Append(merger_queue,
          [discovered |-> DiscoveredTokens(batch),
           token_increment |-> [i \in DOMAIN batch |-> Counted(batch[i], rows[i])]])
  BY Zenon DEF Process
<1>2. batch \in Seq(Token)
  BY ModelUpdatesAssumption
<1>3. /\ DiscoveredTokens(batch) \in Seq(Token)
      /\ \A i \in DOMAIN batch :
           has_token(topic_model, batch[i]) \/ Holds(DiscoveredTokens(batch), batch[i])
  BY <1>2, DiscoveredAll
<1>4. PICK increment :
        increment = [discovered |-> DiscoveredTokens(batch),
                     token_increment |-> [i \in DOMAIN batch |-> Counted(batch[i], rows[i])]]
  OBVIOUS
<1>5. ASSUME NEW i \in DOMAIN batch
      PROVE  /\ Counted(batch[i], rows[i]) \in Entry
             /\ Counted(batch[i], rows[i]).counters \in Counts
             /\ Counted(batch[i], rows[i]).token = batch[i]
  <2>1. batch[i] \in Token
    BY <1>2
  <2>2. rows[i] \in Counts
    <3>1. rows[i] \in CountRows \cup {ZeroRow}
      OBVIOUS
    <3>2. \A row \in CountRows : row \in Counts
      BY ModelUpdatesAssumption DEF Counts
    <3>3. ZeroRow \in Counts
      BY DEF ZeroRow, Counts
    <3>4. QED
      BY <3>1, <3>2, <3>3
  <2>3. rows[i] \in Row
    BY <2>2 DEF Counts, Row
  <2>4. Counted(batch[i], rows[i]) \in Entry
    BY <2>1, <2>3, CountedType
  <2>5. QED
    BY <2>2, <2>4 DEF Counted
<1>6. [i \in DOMAIN batch |-> Counted(batch[i], rows[i])] \in Seq(Entry)
  BY <1>2, <1>5
<1>7. increment \in Increment
  BY <1>3, <1>4, <1>6 DEF Increment
<1>8. Announces(Known(topic_model), increment)
  <2>1. PICK entries : entries = increment.token_increment
    OBVIOUS
  <2>2. entries = [i \in DOMAIN batch |-> Counted(batch[i], rows[i])]
        /\ increment.discovered = DiscoveredTokens(batch)
    BY <1>4, <2>1
  <2>3. DOMAIN entries = DOMAIN batch /\ \A i \in DOMAIN batch : entries[i] = Counted(batch[i], rows[i])
    BY <2>2
  <2>4. QED
    BY <1>3, <1>5, <2>1, <2>2, <2>3 DEF Announces, Known, has_token
<1>9. QED
  BY <1>1, <1>4, <1>7, <1>8

LEMMA LiveStep ==
  ASSUME PositiveRows
  PROVE  ModelInv /\ LiveInv /\ [Next]_vars => LiveInv'
<1> SUFFICES ASSUME ModelInv, LiveInv, [Next]_vars PROVE LiveInv'
  OBVIOUS
<1>0. TypeOK /\ merger_queue \in Seq(Increment)
  BY DEF ModelInv, TypeOK
<1>1. PICK known : known = Known(topic_model)
  OBVIOUS
<1>2. PICK queue \in Seq(Increment) : queue = merger_queue
  BY <1>0
<1>3. \A i \in DOMAIN queue : Announces(known, queue[i])
  BY <1>1, <1>2 DEF LiveInv
<1>4. ASSUME NEW batch \in Batches, Process(batch) PROVE LiveInv'
  <2>1. UNCHANGED <<topic_model, topic_model_inc>>
    BY <1>4 DEF Process
  <2>2. PICK increment : /\ merger_queue' = Append(merger_queue, increment)
                         /\ increment \in Increment
                         /\ Announces(Known(topic_model), increment)
    BY <1>0, <1>4, ProcessAnnounces
  <2>3. PICK more \in Seq(Increment) : more = Append(queue, increment)
    BY <2>2, AppendProperties
  <2>4. PICK n \in Nat : n = Len(queue) /\ DOMAIN queue = 1..n
    OBVIOUS
  <2>5. DOMAIN more = 1..(n + 1) /\ more[n + 1] = increment /\ \A i \in 1..n : more[i] = queue[i]
    BY <2>2, <2>3, <2>4
  <2>6. \A i \in 1..(n + 1) : i \in 1..n \/ i = n + 1
    OBVIOUS
  <2>7. \A i \in DOMAIN more : Announces(known, more[i])
    BY <1>1, <1>3, <2>2, <2>4, <2>5, <2>6
  <2>8. merger_queue' = more /\ Known(topic_model)' = known
    BY <1>1, <1>2, <2>1, <2>2, <2>3 DEF Known
  <2>9. (topic_model_inc # Nil => Alive(Known(topic_model), topic_model_inc))'
    BY <2>1 DEF LiveInv, Known
  <2>10. QED
    BY <2>7, <2>8, <2>9 DEF LiveInv
<1>5. CASE MergeIncrement
  <2>1. PICK old : old = IF topic_model_inc = Nil THEN NewTopicModel ELSE topic_model_inc
    OBVIOUS
  <2>2. PICK increment : increment = Head(queue)
    OBVIOUS
  <2>3. PICK init \in [{increment.discovered[i] : i \in DOMAIN increment.discovered} -> InitialRows] :
          topic_model_inc' = ApplyDiff(old, Diff(increment, init))
    BY <1>2, <1>5, <2>1, <2>2 DEF MergeIncrement
  <2>4. /\ queue # <<>> /\ merger_queue' = Tail(queue) /\ topic_model' = topic_model
    BY <1>2, <1>5 DEF MergeIncrement
  <2>5. increment \in Increment /\ Announces(known, increment)
    BY <1>3, <2>2, <2>4
  <2>6. Alive(known, old)
    <3>1. CASE topic_model_inc = Nil
      <4>1. old = NewTopicModel /\ \A token : ~has_token(NewTopicModel, token)
        BY <2>1, <3>1 DEF NewTopicModel, has_token
      <4>2. QED
        BY <4>1, NewTopicModelGood DEF Alive
    <3>2. CASE topic_model_inc # Nil
      BY <1>1, <2>1, <3>2 DEF LiveInv
    <3>3. QED
      BY <3>1, <3>2
  <2>7. PICK diff : diff = Diff(increment, init)
    OBVIOUS
  <2>8. PICK n \in Nat : n = Len(diff) /\ Ready(known, diff, n)
    BY <2>5, <2>7, DiffReady
  <2>9. Alive(known, topic_model_inc')
    BY <2>3, <2>6, <2>7, <2>8, AliveDiff
  <2>10. ASSUME NEW i \in DOMAIN Tail(queue) PROVE Announces(known, Tail(queue)[i])
    <3>1. i + 1 \in DOMAIN queue /\ Tail(queue)[i] = queue[i + 1]
      BY <2>4
    <3>2. QED
      BY <1>3, <3>1
  <2>11. Known(topic_model') = known
    BY <1>1, <2>4
  <2>12. QED
    BY <2>4, <2>9, <2>10, <2>11 DEF LiveInv
<1>6. ASSUME topic_model_inc' = Nil, merger_queue' = <<>> PROVE LiveInv'
  BY <1>6 DEF LiveInv
<1>7. CASE PullTopicModel
  BY <1>6, <1>7 DEF PullTopicModel
<1>8. ASSUME Quiet, UNCHANGED <<topic_model_inc, merger_queue>> PROVE LiveInv'
  BY <1>6, <1>8 DEF Quiet
<1>9. ASSUME NEW regs, InvokePhiRegularizers(regs) PROVE LiveInv'
  BY <1>8, <1>9 DEF InvokePhiRegularizers
<1>10. CASE SaveTopicModel
  BY <1>8, <1>10 DEF SaveTopicModel
<1>11. ASSUME NEW external, OverwriteTopicModel(external) PROVE LiveInv'
  BY <1>8, <1>11 DEF OverwriteTopicModel
<1>12. CASE UNCHANGED vars
  BY <1>12 DEF vars, LiveInv, Known
<1>13. QED
  BY <1>4, <1>5, <1>7, <1>9, <1>10, <1>11, <1>12 DEF Next

\* What a pull publishes.
LEMMA PullAlive ==
  ASSUME ModelInv, LiveInv, PullTopicModel,
         NEW token, has_token(topic_model', token)
  PROVE  \/ has_token(topic_model, token)
         \/ \E t \in Topic : IsPositive(topic_model', token_id(topic_model', token), t)
<1>1. PICK inc : inc = topic_model_inc
  OBVIOUS
<1>2. PICK known : known = Known(topic_model)
  OBVIOUS
<1>3. Alive(known, inc) /\ GoodModel(inc)
  BY <1>1, <1>2 DEF PullTopicModel, LiveInv, Alive
<1>4. PICK new : new = ApplyDiff(NewTopicModel, RetrieveModelIncrement(inc))
  OBVIOUS
<1>5. topic_model' = new
  BY <1>1, <1>4 DEF PullTopicModel
<1>6. Adds(NewTopicModel, inc, token_size(inc), new)
  BY <1>3, <1>4, IncrementAdds, NewTopicModelGood
<1>7. ~has_token(NewTopicModel, token) /\ WeightOf(NewTopicModel, token) = ZeroRow
      /\ AdditionOf(NewTopicModel, token) = ZeroRow
  BY DEF NewTopicModel, has_token, WeightOf, AdditionOf
<1>8. has_token(new, token)
  BY <1>5
<1>9. UpTo(inc, token_size(inc), token) /\ has_token(inc, token)
  BY <1>6, <1>7, <1>8 DEF Adds, UpTo
<1>10. WeightOf(new, token) = WeightOf(inc, token) /\ AdditionOf(new, token) = ZeroRow
  <2>1. WeightOf(inc, token) \in Row
    BY <1>3, WeightType
  <2>2. WeightOf(new, token) = Plus(ZeroRow, WeightOf(inc, token))
    BY <1>6, <1>7, <1>9 DEF Adds
  <2>3. QED
    BY <1>6, <1>7, <2>1, <2>2, PlusZero DEF Adds
<1>11. CASE token \in known
  BY <1>2, <1>11 DEF Known, has_token
<1>12. CASE token \notin known
  <2>1. Some(WeightOf(inc, token)) /\ WeightOf(inc, token) \in Counts
    BY <1>3, <1>9, <1>12 DEF Alive
  <2>2. PICK t \in Topic : WeightOf(new, token)[t] > 0 /\ WeightOf(new, token)[t] \in Nat
    BY <1>10, <2>1 DEF Some, Counts
  <2>3. PICK id : id = token_id(new, token)
    OBVIOUS
  <2>4. new.n_wt[id] = WeightOf(new, token) /\ new.r_wt[id] = AdditionOf(new, token)
    BY <1>8, <2>3 DEF WeightOf, AdditionOf
  <2>5. AdditionOf(new, token)[t] = 0
    BY <1>10 DEF ZeroRow
  <2>6. new.n_wt[id][t] + new.r_wt[id][t] > 0
    BY <2>2, <2>4, <2>5
  <2>7. IsPositive(new, token_id(new, token), t)
    BY <2>3, <2>6 DEF IsPositive
  <2>8. QED
    BY <1>5, <2>7
<1>13. QED
  BY <1>11, <1>12

\* processor.cc:462-479, topic_model.cc:122-131: a token that the model meets in an iteration is
\* announced by every batch that has it, and gets its random weights before it is counted, in
\* whatever order the increments are merged; the pull keeps them.
THEOREM NewTokensAreAlive ==
  ASSUME PositiveRows
  PROVE  Spec => NewTokensAlive
<1>1. Init => ModelInv /\ LiveInv
  <2>1. Init => LiveInv
    BY DEF Init, LiveInv
  <2>2. QED
    BY <2>1, InitGood
<1>2. ModelInv /\ LiveInv /\ [Next]_vars => ModelInv' /\ LiveInv'
  BY StepGood, LiveStep
<1>3. ModelInv /\ LiveInv /\ [Next]_vars =>
        [Pulled =>
           \A token \in DOMAIN topic_model'.token_to_token_id :
             has_token(topic_model, token) \/
               \E t \in Topic : IsPositive(topic_model', token_id(topic_model', token), t)]_vars
  <2>1. SUFFICES ASSUME ModelInv, LiveInv, Next, Pulled,
                        NEW token, has_token(topic_model', token)
                 PROVE  \/ has_token(topic_model, token)
                        \/ \E t \in Topic : IsPositive(topic_model', token_id(topic_model', token), t)
    BY DEF has_token
  <2>2. topic_model_inc # Nil /\ topic_model_inc' = Nil
    BY <2>1 DEF Pulled
  <2>3. ASSUME NEW batch \in Batches, Process(batch) PROVE FALSE
    BY <2>2, <2>3 DEF Process
  <2>4. CASE MergeIncrement
    BY <2>1, <2>4 DEF MergeIncrement
  <2>5. CASE PullTopicModel
    BY <2>1, <2>5, PullAlive
  <2>6. ASSUME Quiet PROVE FALSE
    BY <2>2, <2>6 DEF Quiet
  <2>7. QED
    BY <2>1, <2>3, <2>4, <2>5, <2>6 DEF Next, InvokePhiRegularizers, SaveTopicModel, OverwriteTopicModel
<1>4. QED
  BY <1>1, <1>2, <1>3, PTL DEF Spec, NewTokensAlive

=============================================================================
