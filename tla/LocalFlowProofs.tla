--------------------------- MODULE LocalFlowProofs ----------------------------
(*****************************************************************************)
(* Where the copies of a batch are.  Each step of a thread moves one copy    *)
(* from one place to the next or none at all, so that the marks of the batch *)
(* manager count the copies that are out.                                    *)
(*****************************************************************************)
EXTENDS LocalInstanceProofs, LocalPipelineInv

-----------------------------------------------------------------------------
(* Counting in sequences.                                                  *)
\* How many elements of a sequence are in S.
Where(seq, S) == Cardinality({i \in DOMAIN seq : seq[i] \in S})

\* The positions whose element is in S: finitely many.
LEMMA PlacesFinite ==
  ASSUME NEW E, NEW s \in Seq(E), NEW S
  PROVE  /\ IsFiniteSet({i \in DOMAIN s : s[i] \in S})
         /\ Where(s, S) \in Nat
<1>1. DOMAIN s = 1..Len(s) /\ Len(s) \in Nat
  BY LenProperties
<1>2. IsFiniteSet(1..Len(s))
  BY <1>1, FS_Interval
<1>3. {i \in DOMAIN s : s[i] \in S} \subseteq 1..Len(s)
  BY <1>1
<1>4. IsFiniteSet({i \in DOMAIN s : s[i] \in S})
  BY <1>2, <1>3, FS_Subset
<1>5. QED
  BY <1>4, FS_CardinalityType DEF Where

\* No element is in S: the count is zero.
LEMMA WhereNone ==
  ASSUME NEW E, NEW s \in Seq(E), NEW S
  PROVE  Where(s, S) = 0 <=> \A i \in DOMAIN s : s[i] \notin S
<1>1. IsFiniteSet({i \in DOMAIN s : s[i] \in S})
  BY PlacesFinite
<1>2. Where(s, S) = 0 <=> {i \in DOMAIN s : s[i] \in S} = {}
  BY <1>1, FS_EmptySet DEF Where
<1>3. QED
  BY <1>2

LEMMA WhereEmpty == ASSUME NEW S PROVE Where(<<>>, S) = 0
<1>1. {i \in DOMAIN <<>> : <<>>[i] \in S} = {}
  OBVIOUS
<1>2. QED
  BY <1>1, FS_EmptySet DEF Where

\* One more if the element appended is in S.
LEMMA WhereAppend ==
  ASSUME NEW E, NEW s \in Seq(E), NEW e \in E, NEW S
  PROVE  Where(Append(s, e), S) = Where(s, S) + One(e \in S)
<1> DEFINE n == Len(s) + 1
           A == {i \in DOMAIN s : s[i] \in S}
           B == {i \in DOMAIN Append(s, e) : Append(s, e)[i] \in S}
<1>1. /\ DOMAIN s = 1..Len(s) /\ Len(s) \in Nat
      /\ DOMAIN Append(s, e) = 1..n /\ Append(s, e)[n] = e
      /\ \A i \in 1..Len(s) : Append(s, e)[i] = s[i]
  BY LenProperties, AppendProperties
<1>2. IsFiniteSet(A) /\ Cardinality(A) \in Nat
  BY PlacesFinite, FS_CardinalityType
<1>3. B = IF e \in S THEN A \cup {n} ELSE A
  BY <1>1
<1>4. n \notin A
  BY <1>1
<1>5. Where(s, S) = Cardinality(A) /\ Where(Append(s, e), S) = Cardinality(B)
  BY DEF Where
<1> HIDE DEF A, B, n
<1>6. Cardinality(A \cup {n}) = Cardinality(A) + 1
  BY <1>2, <1>4, FS_AddElement
<1>7. QED
  BY <1>2, <1>3, <1>5, <1>6 DEF One

\* What is left of a sequence without its k-th element.
LEMMA RemoveAtElements ==
  ASSUME NEW E, NEW s \in Seq(E), NEW k \in 1..Len(s)
  PROVE  /\ DOMAIN RemoveAt(s, k) = 1..(Len(s) - 1)
         /\ \A i \in 1..(Len(s) - 1) : RemoveAt(s, k)[i] = IF i < k THEN s[i] ELSE s[i + 1]
<1> DEFINE left == SubSeq(s, 1, k - 1)
           right == SubSeq(s, k + 1, Len(s))
           n == Len(s)
<1>1. n \in Nat /\ k \in Nat /\ 1 <= k /\ k <= n /\ \A i \in 1..n : s[i] \in E
  BY LenProperties, ElementOfSeq
<1>2. left \in Seq(E) /\ Len(left) = k - 1 /\ \A i \in 1..(k - 1) : left[i] = s[i]
  <2>1. 1 \in Int /\ k - 1 \in Int /\ \A i \in 1..(k - 1) : s[i] \in E
    BY <1>1
  <2>2. QED
    BY <1>1, <2>1, SubSeqProperties
<1>3. /\ right \in Seq(E)
      /\ Len(right) = IF k + 1 <= n THEN n - (k + 1) + 1 ELSE 0
      /\ \A i \in 1..(n - (k + 1) + 1) : right[i] = s[k + 1 + i - 1]
  <2>1. k + 1 \in Int /\ n \in Int /\ \A i \in (k + 1)..n : s[i] \in E
    BY <1>1
  <2>2. QED
    BY <2>1, SubSeqProperties
<1>4. RemoveAt(s, k) = left \o right
  BY Zenon DEF RemoveAt
<1> HIDE DEF left, right, n
<1>5. Len(right) = n - k
  BY <1>1, <1>3
<1>6. /\ left \o right \in Seq(E) /\ Len(left \o right) = n - 1
      /\ \A i \in 1..(n - 1) :
           (left \o right)[i] = IF i <= k - 1 THEN left[i] ELSE right[i - (k - 1)]
  <2>1. /\ left \o right \in Seq(E) /\ Len(left \o right) = Len(left) + Len(right)
        /\ \A i \in 1..(Len(left) + Len(right)) :
             (left \o right)[i] = IF i <= Len(left) THEN left[i] ELSE right[i - Len(left)]
    BY <1>2, <1>3, ConcatProperties
  <2>2. Len(left) = k - 1 /\ Len(left) + Len(right) = n - 1
    BY <1>1, <1>2, <1>5
  <2>3. QED
    BY <2>1, <2>2
<1>7. ASSUME NEW i \in 1..(n - 1)
      PROVE  (left \o right)[i] = IF i < k THEN s[i] ELSE s[i + 1]
  <2>1. CASE i < k
    BY <1>1, <1>2, <1>6, <2>1
  <2>2. CASE ~(i < k)
    <3> DEFINE j == i - (k - 1)
    <3>1. j \in 1..(n - (k + 1) + 1) /\ k + 1 + j - 1 = i + 1
      BY <1>1, <2>2
    <3>2. (left \o right)[i] = right[j]
      BY <1>1, <1>6, <2>2
    <3> HIDE DEF j
    <3>3. right[j] = s[k + 1 + j - 1]
      BY <1>3, <3>1
    <3>4. QED
      BY <2>2, <3>1, <3>2, <3>3
  <2>3. QED
    BY <2>1, <2>2
<1>8. DOMAIN (left \o right) = 1..(n - 1)
  BY <1>6, LenProperties
<1>9. QED
  BY <1>4, <1>7, <1>8 DEF n

\* Positions after the removed one move by one.
LEMMA WhereRemoveAt ==
  ASSUME NEW E, NEW s \in Seq(E), NEW k \in 1..Len(s), NEW S
  PROVE  Where(s, S) = Where(RemoveAt(s, k), S) + One(s[k] \in S)
<1> DEFINE r == RemoveAt(s, k)
           A == {i \in DOMAIN s : s[i] \in S}
           B == {i \in DOMAIN r : r[i] \in S}
           shift[i \in B] == IF i < k THEN i ELSE i + 1
<1>1. /\ DOMAIN s = 1..Len(s) /\ Len(s) \in Nat /\ k \in Nat
      /\ \A i \in 1..Len(s) : s[i] \in E
  BY LenProperties, ElementOfSeq
<1>2. /\ DOMAIN r = 1..(Len(s) - 1)
      /\ \A i \in 1..(Len(s) - 1) : r[i] = IF i < k THEN s[i] ELSE s[i + 1]
  BY RemoveAtElements
<1>3. /\ Where(s, S) = Cardinality(A) /\ Where(r, S) = Cardinality(B)
      /\ k \in A <=> s[k] \in S
  BY <1>1 DEF Where
<1>4. \A i \in B : shift[i] \in A \ {k}
  BY <1>1, <1>2
<1>5. \A i, j \in B : i # j => shift[i] # shift[j]
  BY <1>1, <1>2
<1>6. \A j \in A \ {k} : \E i \in B : shift[i] = j
  <2> SUFFICES ASSUME NEW j \in A \ {k} PROVE \E i \in B : shift[i] = j
    OBVIOUS
  <2>1. CASE j < k
    <3>1. j \in B /\ shift[j] = j
      BY <1>1, <1>2, <2>1
    <3>2. QED
      BY <3>1
  <2>2. CASE ~(j < k)
    <3>1. j - 1 \in B
      BY <1>1, <1>2, <2>2
    <3>2. shift[j - 1] = j
      BY <1>1, <2>2, <3>1
    <3>3. QED
      BY <3>1, <3>2
  <2>3. QED
    BY <2>1, <2>2
<1>7. shift \in Injection(B, A \ {k}) /\ shift \in Surjection(B, A \ {k})
  <2>1. shift \in [B -> A \ {k}]
    BY <1>4
  <2>2. QED
    BY <2>1, <1>5, <1>6 DEF Injection, IsInjective, Surjection
<1>8. IsFiniteSet(A)
  BY PlacesFinite
<1> HIDE DEF A, B, shift, r
<1>9. /\ IsFiniteSet(A \ {k}) /\ Cardinality(A) \in Nat
      /\ Cardinality(A \ {k}) = IF k \in A THEN Cardinality(A) - 1 ELSE Cardinality(A)
  BY <1>8, FS_RemoveElement, FS_CardinalityType
<1>10. Cardinality(B) = Cardinality(A \ {k})
  BY <1>7, <1>9, FS_Injection
<1>11. QED
  BY <1>3, <1>9, <1>10 DEF One, r

\* One less if the head is in S.
LEMMA WhereTail ==
  ASSUME NEW E, NEW s \in Seq(E), s # <<>>, NEW S
  PROVE  Where(s, S) = Where(Tail(s), S) + One(Head(s) \in S)
<1>1. /\ Len(s) \in Nat /\ 1 \in 1..Len(s) /\ Head(s) = s[1]
      /\ Tail(s) \in Seq(E) /\ Tail(s) = SubSeq(s, 2, Len(s))
  BY HeadTailProperties, LenProperties, EmptySeq, TailIsSubSeq
<1>2. RemoveAt(s, 1) = Tail(s)
  <2>1. SubSeq(s, 1, 0) = <<>>
    BY SubSeqEmpty
  <2>2. QED
    BY <1>1, <2>1, ConcatEmptySeq DEF RemoveAt
<1>3. Where(s, S) = Where(RemoveAt(s, 1), S) + One(s[1] \in S)
  BY <1>1, WhereRemoveAt
<1>4. QED
  BY <1>1, <1>2, <1>3

\* Two sets of processors that differ at most in p.
LEMMA OneElement ==
  ASSUME NEW S, NEW A \in SUBSET S, NEW B \in SUBSET S, IsFiniteSet(S), NEW p \in S,
         \A q \in S : q # p => (q \in A <=> q \in B)
  PROVE  /\ Cardinality(A) \in Nat /\ Cardinality(B) \in Nat
         /\ Cardinality(B) + One(p \in A) = Cardinality(A) + One(p \in B)
<1> DEFINE R == A \ {p}
<1>1. IsFiniteSet(A) /\ IsFiniteSet(B) /\ IsFiniteSet(R)
  BY FS_Subset
<1>2. A = (IF p \in A THEN R \cup {p} ELSE R) /\ B = (IF p \in B THEN R \cup {p} ELSE R)
  OBVIOUS
<1>3. Cardinality(R) \in Nat /\ Cardinality(R \cup {p}) = Cardinality(R) + 1
  BY <1>1, FS_CardinalityType, FS_AddElement
<1> HIDE DEF R
<1>4. QED
  BY <1>2, <1>3 DEF One

-----------------------------------------------------------------------------
(* The places a batch passes through.                                      *)
\* The places a batch passes through, as sets.
OfBatch(b) == {part \in ProcessorInput : part.batch = b}

\* The increments of m for b.
OfPair(b, m) == {inc \in ModelIncrement : inc.batch = b /\ inc.model = m}

\* The processors that took b and have not read the schema yet.
AtSchema(b) == {p \in Processors : processor[p].pc = "schema" /\ Working(p, b)}

\* The loader holds b.
Loaded(b) == IF loader.batch = b THEN 1 ELSE 0

\* The processors that will push an increment of m for b.
Owing(b, m) == {p \in Processors : Working(p, b) /\ m \in processor[p].todo}

\* How often b is in the task list.
Queued(b) == Count(tasks, LAMBDA t : t = b)

\* The counts of LocalInstanceProps, in terms of these sets.
Sums ==
  \A b \in Batch :
    /\ Queued(b) = Where(tasks, {b})
    /\ Unprocessed(b) = Loaded(b) + Where(processor_queue, OfBatch(b))
                          + Cardinality(AtSchema(b))
    /\ \A m \in Model :
         Unpopped(b, m) = Cardinality(Owing(b, m)) + Where(merger_queue, OfPair(b, m))

\* The counts are numbers, and zero when nobody holds the batch.
Places ==
  \A b \in Batch :
    /\ Queued(b) \in Nat /\ Unprocessed(b) \in Nat
    /\ Queued(b) = 0 <=> \A i \in DOMAIN tasks : tasks[i] # b
    /\ Unprocessed(b) = 0 <=>
         /\ loader.batch # b
         /\ \A i \in DOMAIN processor_queue : processor_queue[i].batch # b
         /\ \A p \in Processors : processor[p].pc = "schema" => processor[p].part.batch # b
    /\ \A m \in Model :
         /\ Unpopped(b, m) \in Nat
         /\ Unpopped(b, m) = 0 <=>
              /\ \A p \in Processors : ~(Working(p, b) /\ m \in processor[p].todo)
              /\ \A i \in DOMAIN merger_queue :
                   ~(merger_queue[i].batch = b /\ merger_queue[i].model = m)

LEMMA CountsAreSums == InstanceInv => Sums
<1> SUFFICES ASSUME InstanceInv, NEW b \in Batch
    PROVE  /\ Queued(b) = Where(tasks, {b})
           /\ Unprocessed(b) = Loaded(b) + Where(processor_queue, OfBatch(b))
                          + Cardinality(AtSchema(b))
           /\ \A m \in Model :
                Unpopped(b, m) = Cardinality(Owing(b, m)) + Where(merger_queue, OfPair(b, m))
  BY DEF Sums
<1>1. /\ \A i \in DOMAIN processor_queue : processor_queue[i] \in ProcessorInput
      /\ \A i \in DOMAIN merger_queue : merger_queue[i] \in ModelIncrement
  BY ElementOfSeq DEF InstanceInv, LoaderOK, DataLoaderTypeOK, MergerOK, MergerTypeOK
<1>2. Queued(b) = Where(tasks, {b})
  <2>1. {i \in DOMAIN tasks : tasks[i] = b} = {i \in DOMAIN tasks : tasks[i] \in {b}}
    OBVIOUS
  <2>2. QED
    BY <2>1 DEF Queued, Count, Where
<1>3. Unprocessed(b) = Loaded(b) + Where(processor_queue, OfBatch(b))
                         + Cardinality(AtSchema(b))
  <2>1. {i \in DOMAIN processor_queue : processor_queue[i].batch = b}
          = {i \in DOMAIN processor_queue : processor_queue[i] \in OfBatch(b)}
    BY <1>1 DEF OfBatch
  <2>2. Unprocessed(b) =
          Loaded(b)
            + Cardinality({i \in DOMAIN processor_queue : processor_queue[i].batch = b})
            + Cardinality({p \in Processors : processor[p].pc = "schema" /\ Working(p, b)})
    BY DEF Unprocessed, Of, Count, One, Loaded
  <2>3. QED
    BY <2>1, <2>2 DEF Where, AtSchema
<1>4. ASSUME NEW m \in Model
      PROVE  Unpopped(b, m) = Cardinality(Owing(b, m)) + Where(merger_queue, OfPair(b, m))
  <2>1. {i \in DOMAIN merger_queue : merger_queue[i].batch = b /\ merger_queue[i].model = m}
          = {i \in DOMAIN merger_queue : merger_queue[i] \in OfPair(b, m)}
    BY <1>1 DEF OfPair
  <2>2. Unpopped(b, m) =
          Cardinality({p \in Processors : Working(p, b) /\ m \in processor[p].todo})
            + Cardinality({i \in DOMAIN merger_queue :
                             merger_queue[i].batch = b /\ merger_queue[i].model = m})
    BY DEF Unpopped, Of, Count
  <2>3. QED
    BY <2>1, <2>2 DEF Where, Owing
<1>5. QED
  BY <1>2, <1>3, <1>4

LEMMA PlacesOK == InstanceInv => Places
<1> SUFFICES ASSUME InstanceInv, NEW b \in Batch
    PROVE  /\ Queued(b) \in Nat /\ Unprocessed(b) \in Nat
           /\ Queued(b) = 0 <=> \A i \in DOMAIN tasks : tasks[i] # b
           /\ Unprocessed(b) = 0 <=>
                /\ loader.batch # b
                /\ \A i \in DOMAIN processor_queue : processor_queue[i].batch # b
                /\ \A p \in Processors :
                     processor[p].pc = "schema" => processor[p].part.batch # b
           /\ \A m \in Model :
                /\ Unpopped(b, m) \in Nat
                /\ Unpopped(b, m) = 0 <=>
                     /\ \A p \in Processors : ~(Working(p, b) /\ m \in processor[p].todo)
                     /\ \A i \in DOMAIN merger_queue :
                          ~(merger_queue[i].batch = b /\ merger_queue[i].model = m)
  BY DEF Places
<1> DEFINE u == Where(processor_queue, OfBatch(b))
           s == Cardinality(AtSchema(b))
<1>1. /\ processor_queue \in Seq(ProcessorInput) /\ merger_queue \in Seq(ModelIncrement)
      /\ tasks \in Seq(Batch)
      /\ \A i \in DOMAIN processor_queue : processor_queue[i] \in ProcessorInput
      /\ \A i \in DOMAIN merger_queue : merger_queue[i] \in ModelIncrement
  BY ElementOfSeq
  DEF InstanceInv, LoaderOK, DataLoaderTypeOK, MergerOK, MergerTypeOK, BatchManagerTypeOK
<1>2. /\ Queued(b) = Where(tasks, {b})
      /\ Unprocessed(b) = Loaded(b) + u + s
      /\ \A m \in Model :
           Unpopped(b, m) = Cardinality(Owing(b, m)) + Where(merger_queue, OfPair(b, m))
  BY CountsAreSums DEF Sums
<1>3. Queued(b) \in Nat /\ (Queued(b) = 0 <=> \A i \in DOMAIN tasks : tasks[i] # b)
  <2>1. Where(tasks, {b}) \in Nat
    BY <1>1, PlacesFinite
  <2>2. Where(tasks, {b}) = 0 <=> \A i \in DOMAIN tasks : tasks[i] \notin {b}
    BY <1>1, WhereNone
  <2>3. QED
    BY <1>2, <2>1, <2>2
<1>4. u \in Nat /\ (u = 0 <=> \A i \in DOMAIN processor_queue : processor_queue[i].batch # b)
  <2>1. u \in Nat
    BY <1>1, PlacesFinite
  <2>2. u = 0 <=> \A i \in DOMAIN processor_queue : processor_queue[i] \notin OfBatch(b)
    BY <1>1, WhereNone
  <2>3. QED
    BY <1>1, <2>1, <2>2 DEF OfBatch
<1>5. s \in Nat /\ (s = 0 <=> AtSchema(b) = {})
  <2>1. IsFiniteSet(AtSchema(b))
    BY ProcessorAssumption, FS_Subset DEF AtSchema
  <2>2. QED
    BY <2>1, FS_CardinalityType, FS_EmptySet
<1>6. AtSchema(b) = {} <=>
        \A p \in Processors : processor[p].pc = "schema" => processor[p].part.batch # b
  BY DEF AtSchema, Working
<1>7. ASSUME NEW m \in Model
      PROVE  /\ Unpopped(b, m) \in Nat
             /\ Unpopped(b, m) = 0 <=>
                  /\ \A p \in Processors : ~(Working(p, b) /\ m \in processor[p].todo)
                  /\ \A i \in DOMAIN merger_queue :
                       ~(merger_queue[i].batch = b /\ merger_queue[i].model = m)
  <2> DEFINE w == Where(merger_queue, OfPair(b, m))
  <2>1. w \in Nat
    BY <1>1, PlacesFinite
  <2>2. w = 0 <=> \A i \in DOMAIN merger_queue : merger_queue[i] \notin OfPair(b, m)
    BY <1>1, WhereNone
  <2>3. w = 0 <=> \A i \in DOMAIN merger_queue :
                    ~(merger_queue[i].batch = b /\ merger_queue[i].model = m)
    BY <1>1, <2>2 DEF OfPair
  <2>4. IsFiniteSet(Owing(b, m))
    BY ProcessorAssumption, FS_Subset DEF Owing
  <2>5. Cardinality(Owing(b, m)) \in Nat /\ (Cardinality(Owing(b, m)) = 0 <=> Owing(b, m) = {})
    BY <2>4, FS_CardinalityType, FS_EmptySet
  <2>6. Owing(b, m) = {} <=> \A p \in Processors : ~(Working(p, b) /\ m \in processor[p].todo)
    BY DEF Owing
  <2> HIDE DEF w
  <2>7. QED
    BY <1>2, <2>1, <2>3, <2>5, <2>6 DEF w
<1> HIDE DEF u, s
<1>8. Unprocessed(b) \in Nat /\ (Unprocessed(b) = 0 <=> loader.batch # b /\ u = 0 /\ s = 0)
  BY <1>2, <1>4, <1>5 DEF Loaded
<1>9. QED
  BY <1>3, <1>4, <1>5, <1>6, <1>7, <1>8

-----------------------------------------------------------------------------
(* Steps of the loader.                                                    *)
\* No batch moves from one of the places to another, but for a place that
\* counts the same.
Still ==
  \A b \in Batch :
    Unprocessed(b)' = Unprocessed(b) /\ \A m \in Model : Unpopped(b, m)' = Unpopped(b, m)

\* Both sides of a step, for a batch.
LEMMA UnprocessedIs ==
  ASSUME InstanceInv, InstanceInv', NEW b \in Batch
  PROVE  /\ Queued(b) = Where(tasks, {b}) /\ Queued(b)' = Where(tasks', {b})
         /\ Queued(b) \in Nat /\ Queued(b)' \in Nat
         /\ Unprocessed(b) = Loaded(b) + Where(processor_queue, OfBatch(b))
                               + Cardinality(AtSchema(b))
         /\ Unprocessed(b)' = Loaded(b)' + Where(processor_queue', OfBatch(b))
                                + Cardinality(AtSchema(b)')
         /\ Where(processor_queue, OfBatch(b)) \in Nat /\ Cardinality(AtSchema(b)) \in Nat
<1>1. Sums /\ Sums' /\ Places /\ Places'
  BY CountsAreSums, PlacesOK, PTL
<1>2. Where(processor_queue, OfBatch(b)) \in Nat
  BY PlacesFinite DEF InstanceInv, LoaderOK, DataLoaderTypeOK
<1>3. IsFiniteSet(AtSchema(b))
  BY ProcessorAssumption, FS_Subset DEF AtSchema
<1>4. Cardinality(AtSchema(b)) \in Nat
  BY <1>3, FS_CardinalityType
<1>5. Queued(b) \in Nat /\ Queued(b)' \in Nat
  BY <1>1 DEF Places
<1>6. QED
  BY <1>1, <1>2, <1>4, <1>5 DEF Sums

\* Both sides of a step, for a batch and a model.
LEMMA UnpoppedIs ==
  ASSUME InstanceInv, InstanceInv', NEW b \in Batch, NEW m \in Model
  PROVE  /\ Unpopped(b, m) = Cardinality(Owing(b, m)) + Where(merger_queue, OfPair(b, m))
         /\ Unpopped(b, m)' = Cardinality(Owing(b, m)') + Where(merger_queue', OfPair(b, m))
         /\ Where(merger_queue, OfPair(b, m)) \in Nat /\ Cardinality(Owing(b, m)) \in Nat
<1>1. Sums /\ Sums'
  BY CountsAreSums, PTL
<1>2. Where(merger_queue, OfPair(b, m)) \in Nat
  BY PlacesFinite DEF InstanceInv, MergerOK, MergerTypeOK
<1>3. IsFiniteSet(Owing(b, m))
  BY ProcessorAssumption, FS_Subset DEF Owing
<1>4. Cardinality(Owing(b, m)) \in Nat
  BY <1>3, FS_CardinalityType
<1>5. QED
  BY <1>1, <1>2, <1>4 DEF Sums

LEMMA NothingMoves ==
  ASSUME InstanceInv, InstanceInv', loader'.batch = loader.batch,
         UNCHANGED <<processor_queue, merger_queue, processor>>
  PROVE  Still
<1>1. ASSUME NEW b \in Batch PROVE Unprocessed(b)' = Unprocessed(b)
  <2>1. AtSchema(b)' = AtSchema(b) /\ Loaded(b)' = Loaded(b)
    BY DEF AtSchema, Working, Loaded
  <2>2. QED
    BY <2>1, UnprocessedIs
<1>2. ASSUME NEW b \in Batch, NEW m \in Model PROVE Unpopped(b, m)' = Unpopped(b, m)
  <2>1. Owing(b, m)' = Owing(b, m)
    BY DEF Owing, Working
  <2>2. QED
    BY <2>1, UnpoppedIs
<1>3. QED
  BY <1>1, <1>2 DEF Still

\* The thread of the data loader takes a batch from the list or moves it on.
Takes(b) ==
  /\ Queued(b) = Queued(b)' + 1 /\ Unprocessed(b)' = Unprocessed(b) + 1
  /\ \A m \in Model : b \notin in_progress[m]
  /\ in_progress' = [m \in Model |-> IF m \in GetModelNames
                                     THEN in_progress[m] \cup {b} ELSE in_progress[m]]
  /\ \A k \in Batch : k # b => Queued(k)' = Queued(k) /\ Unprocessed(k)' = Unprocessed(k)
  /\ \A k \in Batch, m \in Model : Unpopped(k, m)' = Unpopped(k, m)

\* A step of the loader takes a batch, or none moves.
LEMMA LoaderFlow ==
  ASSUME InstanceInv, InstanceInv', CleanInv, GenerationInv, LoaderStep
  PROVE  \/ Still /\ UNCHANGED batchManagerVars
         \/ \E b \in Batch : Takes(b)
<1>0. /\ loader \in LoaderState /\ tasks \in Seq(Batch)
      /\ processor_queue \in Seq(ProcessorInput)
      /\ loader.pc \in {"batch", "cache", "push"} => loader.batch \in Batch
  BY DEF InstanceInv, LoaderOK, DataLoaderTypeOK, BatchManagerTypeOK, LoaderHolds
<1>1. ASSUME loader'.batch = loader.batch, UNCHANGED <<processor_queue, batchManagerVars>>
      PROVE  Still /\ UNCHANGED batchManagerVars
  BY <1>1, NothingMoves DEF LoaderStep, mergerVars, processorVars
<1>2. CASE LoaderStop \/ LoaderSize \/ LoaderNothing \/ LoaderCache
  BY <1>0, <1>1, <1>2
  DEF LoaderStop, LoaderSize, LoaderNothing, LoaderCache, LoaderGoto, LoaderState
<1>3. CASE LoaderBatch
  <2>1. loader.batch \in generation
    BY <1>3 DEF LoaderBatch, GenerationInv
  <2>2. QED
    BY <1>0, <1>1, <1>3, <2>1 DEF LoaderBatch, LoaderGoto, LoaderState
<1>4. CASE LoaderNext
  <2>1. PICK i \in 1..Len(tasks) :
          /\ NextTask(i)
          /\ loader' = [loader EXCEPT !.pc = "batch", !.batch = tasks[i]]
    BY <1>4, Zenon DEF LoaderNext
  <2>0. tasks \in Seq(Batch) /\ tasks[i] \in Batch /\ tasks' = RemoveAt(tasks, i)
    BY <1>0, <2>1, TakeOut DEF NextTask
  <2>2. PICK c \in Batch : c = tasks[i]
    BY <2>0
  <2>3. loader.batch = Nil /\ loader'.batch = c /\ c # Nil
    BY <1>0, <1>4, <2>1, <2>2, BatchAssumption, NilAssumption
    DEF LoaderNext, CleanInv, LoaderState
  <2>4. UNCHANGED <<processor_queue, merger_queue, processor>>
    BY <1>4 DEF LoaderNext, LoaderStep, mergerVars, processorVars
  <2>5. ASSUME NEW b \in Batch
        PROVE  Queued(b) = Queued(b)' + One(b = c) /\ Unprocessed(b)' = Unprocessed(b) + One(b = c)
    <3>1. Where(tasks, {b}) = Where(tasks', {b}) + One(c \in {b})
      BY <2>0, <2>2, WhereRemoveAt
    <3>2. Loaded(b) = 0 /\ Loaded(b)' = One(b = c)
      BY <2>3, BatchAssumption, NilAssumption DEF One, Loaded
    <3>3. AtSchema(b)' = AtSchema(b)
      BY <2>4 DEF AtSchema, Working
    <3>4. One(c \in {b}) = One(b = c) /\ One(b = c) \in Nat
      BY DEF One
    <3>5. QED
      BY <2>4, <3>1, <3>2, <3>3, <3>4, UnprocessedIs
  <2>6. ASSUME NEW b \in Batch, NEW m \in Model PROVE Unpopped(b, m)' = Unpopped(b, m)
    <3>1. Owing(b, m)' = Owing(b, m)
      BY <2>4 DEF Owing, Working
    <3>2. QED
      BY <2>4, <3>1, UnpoppedIs
  <2>7. /\ \A m \in Model : c \notin in_progress[m]
        /\ in_progress' = [m \in Model |-> IF m \in GetModelNames
                                           THEN in_progress[m] \cup {c} ELSE in_progress[m]]
    BY <2>1, <2>2 DEF NextTask, Selectable
  <2>8. \A b \in Batch : Queued(b)' \in Nat /\ Unprocessed(b) \in Nat
    <3>1. Places /\ Places'
      BY PlacesOK, PTL
    <3>2. QED
      BY <3>1 DEF Places
  <2>9. Queued(c) = Queued(c)' + 1 /\ Unprocessed(c)' = Unprocessed(c) + 1
    BY <2>2, <2>5 DEF One
  <2>10. ASSUME NEW b \in Batch, b # c
         PROVE  Queued(b)' = Queued(b) /\ Unprocessed(b)' = Unprocessed(b)
    BY <2>5, <2>8, <2>10 DEF One
  <2>11. Takes(c)
    BY <2>6, <2>7, <2>9, <2>10 DEF Takes
  <2>12. QED
    BY <2>2, <2>11
<1>5. CASE LoaderPush
  <2> DEFINE part == [batch |-> loader.batch, cached_theta |-> loader.cached_theta]
  <2>1. part \in ProcessorInput /\ processor_queue' = Append(processor_queue, part)
    BY <1>0, <1>5 DEF LoaderPush, ProcessorInput, LoaderState
  <2>2. loader.batch \in Batch /\ loader'.batch = Nil
    BY <1>0, <1>5 DEF LoaderPush, LoaderAgain
  <2>3. UNCHANGED <<merger_queue, processor, batchManagerVars>>
    BY <1>5 DEF LoaderPush, LoaderStep, mergerVars, processorVars
  <2>4. ASSUME NEW b \in Batch PROVE Unprocessed(b)' = Unprocessed(b)
    <3>1. Where(processor_queue', OfBatch(b))
            = Where(processor_queue, OfBatch(b)) + One(part \in OfBatch(b))
      BY <1>0, <2>1, WhereAppend
    <3>2. One(part \in OfBatch(b)) = Loaded(b) /\ Loaded(b)' = 0 /\ Loaded(b) \in Nat
      BY <2>1, <2>2, BatchAssumption, NilAssumption DEF OfBatch, One, Loaded
    <3>3. Where(processor_queue', OfBatch(b)) = Where(processor_queue, OfBatch(b)) + Loaded(b)
      BY <3>1, <3>2
    <3>4. AtSchema(b)' = AtSchema(b)
      BY <2>3 DEF AtSchema, Working
    <3>5. /\ Unprocessed(b) = Loaded(b) + Where(processor_queue, OfBatch(b))
                               + Cardinality(AtSchema(b))
          /\ Unprocessed(b)' = 0 + Where(processor_queue', OfBatch(b)) + Cardinality(AtSchema(b))
          /\ Where(processor_queue, OfBatch(b)) \in Nat /\ Cardinality(AtSchema(b)) \in Nat
      BY <3>2, <3>4, UnprocessedIs
    <3>6. QED
      BY <3>2, <3>3, <3>5
  <2>5. ASSUME NEW b \in Batch, NEW m \in Model PROVE Unpopped(b, m)' = Unpopped(b, m)
    <3>1. Owing(b, m)' = Owing(b, m)
      BY <2>3 DEF Owing, Working
    <3>2. QED
      BY <2>3, <3>1, UnpoppedIs
  <2>6. QED
    BY <2>3, <2>4, <2>5 DEF Still
<1>6. QED
  BY <1>2, <1>3, <1>4, <1>5 DEF LoaderStep, LoaderThread

-----------------------------------------------------------------------------
(* Steps of a processor.                                                   *)
\* A step of processor p changes the places it is counted in, and the queues.
SchemaOf(p, b) == IF processor[p].pc = "schema" /\ Working(p, b) THEN 1 ELSE 0

\* ... and the increment of m for b that it owes.
OwedBy(p, b, m) == IF Working(p, b) /\ m \in processor[p].todo THEN 1 ELSE 0

LEMMA OneProcessor ==
  ASSUME InstanceInv, InstanceInv', UNCHANGED loader, NEW p \in Processors,
         \A q \in Processors : q # p => processor'[q] = processor[q], NEW b \in Batch
  PROVE  /\ Unprocessed(b)' + Where(processor_queue, OfBatch(b)) + SchemaOf(p, b)
              = Unprocessed(b) + Where(processor_queue', OfBatch(b)) + SchemaOf(p, b)'
         /\ \A m \in Model :
              Unpopped(b, m)' + Where(merger_queue, OfPair(b, m)) + OwedBy(p, b, m)
                = Unpopped(b, m) + Where(merger_queue', OfPair(b, m)) + OwedBy(p, b, m)'
<1> USE ProcessorAssumption
<1>1. /\ Where(processor_queue', OfBatch(b)) \in Nat
      /\ \A m \in Model : Where(merger_queue', OfPair(b, m)) \in Nat
  BY PlacesFinite DEF InstanceInv, LoaderOK, DataLoaderTypeOK, MergerOK, MergerTypeOK
<1>2. Unprocessed(b)' + Where(processor_queue, OfBatch(b)) + SchemaOf(p, b)
        = Unprocessed(b) + Where(processor_queue', OfBatch(b)) + SchemaOf(p, b)'
  <2> DEFINE A == AtSchema(b)
             A2 == AtSchema(b)'
  <2>1. /\ A \in SUBSET Processors /\ A2 \in SUBSET Processors
        /\ \A q \in Processors : q # p => (q \in A <=> q \in A2)
        /\ SchemaOf(p, b) = IF p \in A THEN 1 ELSE 0
        /\ SchemaOf(p, b)' = IF p \in A2 THEN 1 ELSE 0
        /\ Loaded(b)' = Loaded(b) /\ Loaded(b) \in Nat
    BY DEF AtSchema, Working, SchemaOf, Loaded
  <2>2. /\ Unprocessed(b) = Loaded(b) + Where(processor_queue, OfBatch(b)) + Cardinality(A)
        /\ Unprocessed(b)' = Loaded(b)' + Where(processor_queue', OfBatch(b)) + Cardinality(A2)
        /\ Where(processor_queue, OfBatch(b)) \in Nat
    BY UnprocessedIs
  <2> HIDE DEF A, A2
  <2>3. /\ Cardinality(A) \in Nat /\ Cardinality(A2) \in Nat
        /\ Cardinality(A2) + One(p \in A) = Cardinality(A) + One(p \in A2)
    BY <2>1, OneElement
  <2>4. QED
    BY <1>1, <2>1, <2>2, <2>3 DEF One
<1>3. ASSUME NEW m \in Model
      PROVE  Unpopped(b, m)' + Where(merger_queue, OfPair(b, m)) + OwedBy(p, b, m)
               = Unpopped(b, m) + Where(merger_queue', OfPair(b, m)) + OwedBy(p, b, m)'
  <2> DEFINE A == Owing(b, m)
             A2 == Owing(b, m)'
  <2>1. /\ A \in SUBSET Processors /\ A2 \in SUBSET Processors
        /\ \A q \in Processors : q # p => (q \in A <=> q \in A2)
        /\ OwedBy(p, b, m) = IF p \in A THEN 1 ELSE 0
        /\ OwedBy(p, b, m)' = IF p \in A2 THEN 1 ELSE 0
    BY DEF Owing, Working, OwedBy
  <2>2. /\ Unpopped(b, m) = Cardinality(A) + Where(merger_queue, OfPair(b, m))
        /\ Unpopped(b, m)' = Cardinality(A2) + Where(merger_queue', OfPair(b, m))
        /\ Where(merger_queue, OfPair(b, m)) \in Nat
    BY UnpoppedIs
  <2> HIDE DEF A, A2
  <2>3. /\ Cardinality(A) \in Nat /\ Cardinality(A2) \in Nat
        /\ Cardinality(A2) + One(p \in A) = Cardinality(A) + One(p \in A2)
    BY <2>1, OneElement
  <2>4. QED
    BY <1>1, <2>1, <2>2, <2>3 DEF One
<1>4. QED
  BY <1>2, <1>3

\* A processor that keeps the places it is counted in, with both queues as they are.
LEMMA ProcessorStays ==
  ASSUME InstanceInv, InstanceInv', UNCHANGED <<loader, processor_queue, merger_queue>>,
         NEW p \in Processors,
         \A q \in Processors : q # p => processor'[q] = processor[q],
         \A b \in Batch : SchemaOf(p, b)' = SchemaOf(p, b),
         \A b \in Batch, m \in Model : OwedBy(p, b, m)' = OwedBy(p, b, m)
  PROVE  Still
<1>1. Places /\ Places'
  BY PlacesOK, PTL
<1>2. ASSUME NEW b \in Batch PROVE Unprocessed(b)' = Unprocessed(b)
  <2>1. Unprocessed(b)' + Where(processor_queue, OfBatch(b)) + SchemaOf(p, b)
          = Unprocessed(b) + Where(processor_queue', OfBatch(b)) + SchemaOf(p, b)'
    BY OneProcessor
  <2>2. Unprocessed(b) \in Nat /\ Unprocessed(b)' \in Nat
    BY <1>1 DEF Places
  <2>3. Where(processor_queue, OfBatch(b)) \in Nat /\ SchemaOf(p, b) \in Nat
    BY UnprocessedIs DEF SchemaOf
  <2>4. Where(processor_queue', OfBatch(b)) = Where(processor_queue, OfBatch(b))
    OBVIOUS
  <2>5. QED
    BY <2>1, <2>2, <2>3, <2>4
<1>3. ASSUME NEW b \in Batch, NEW m \in Model PROVE Unpopped(b, m)' = Unpopped(b, m)
  <2>1. /\ Unpopped(b, m)' + Where(merger_queue, OfPair(b, m)) + OwedBy(p, b, m)
             = Unpopped(b, m) + Where(merger_queue, OfPair(b, m)) + OwedBy(p, b, m)
        /\ Unpopped(b, m) \in Nat /\ Unpopped(b, m)' \in Nat
        /\ Where(merger_queue, OfPair(b, m)) \in Nat
    BY <1>1, OneProcessor, UnpoppedIs DEF Places
  <2>2. OwedBy(p, b, m) \in Nat
    BY DEF OwedBy
  <2>3. QED
    BY <2>1, <2>2
<1>4. QED
  BY <1>2, <1>3 DEF Still

\* A processor takes its snapshot of the schema: one increment is owed for each
\* model that is enabled now.
Snapshots(b) ==
  /\ Unprocessed(b) = Unprocessed(b)' + 1
  /\ \A m \in Model :
       Unpopped(b, m)' = Unpopped(b, m) + (IF m \in EnabledModels THEN 1 ELSE 0)
  /\ \A k \in Batch : k # b =>
       Unprocessed(k)' = Unprocessed(k) /\ \A m \in Model : Unpopped(k, m)' = Unpopped(k, m)

\* Where Continue leads: back to the queue check when no model is left.
LEMMA ContinueMeans ==
  ASSUME ProcessorTypeOK, NEW p \in Processors, NEW names, Continue(p, names)
  PROVE  /\ \A q \in Processors : q # p => processor'[q] = processor[q]
         /\ processor'[p].todo = names
         /\ names = {} => processor'[p].pc = "full"
         /\ names # {} => processor'[p].pc = "get" /\ processor'[p].part = processor[p].part
<1> DEFINE old == processor[p]
           new == [old EXCEPT !.pc = IF names = {} THEN "full" ELSE "get",
                              !.part = IF names = {} THEN Nil ELSE @,
                              !.todo = names, !.incarnation = 0]
<1>1. processor' = [processor EXCEPT ![p] = new]
  BY Zenon DEF Continue
<1>2. old \in ProcessorState /\ DOMAIN processor = Processors
  BY DEF ProcessorTypeOK
<1>3. /\ new.todo = names
      /\ new.pc = (IF names = {} THEN "full" ELSE "get")
      /\ new.part = (IF names = {} THEN Nil ELSE old.part)
  BY <1>2 DEF ProcessorState
<1> HIDE DEF new
<1>4. processor'[p] = new /\ \A q \in Processors : q # p => processor'[q] = processor[q]
  BY <1>1, <1>2
<1>5. QED
  BY <1>3, <1>4

\* The model that a processor asks the merger for is there.
LEMMA ModelFound ==
  ASSUME InstanceInv, HoldersInv, NEW p \in Processors, processor[p].pc \in {"get", "push"}
  PROVE  /\ Min(processor[p].todo) \in processor[p].todo
         /\ Min(processor[p].todo) \in EnabledModels
         /\ topic_model[Min(processor[p].todo)] # Nil
<1>1. /\ processor[p].todo # {} /\ processor[p].todo \subseteq EnabledModels
      /\ processor[p].todo \in SUBSET Model
  BY DEF InstanceInv, ProcessorOK, ProcessorTypeOK, ProcessorState, ProcessorHolds, HoldersInv
<1>2. Min(processor[p].todo) \in processor[p].todo /\ Min(processor[p].todo) \in Model
  BY <1>1, MinOfModels
<1>3. QED
  BY <1>1, <1>2 DEF InstanceInv, ModelsInOrder, SchemaModelsExist, EnabledModels, GetModelNames

\* A step of a processor takes the snapshot, or no batch moves.
LEMMA ProcessorFlow ==
  ASSUME InstanceInv, InstanceInv', CleanInv, HoldersInv, NEW p \in Processors, ProcessorStep(p)
  PROVE  \/ Still
         \/ /\ ProcessorSchema(p)
            /\ \E b \in Batch : b = processor[p].part.batch /\ Snapshots(b)
<1> DEFINE old == processor[p]
           new == processor'[p]
<1>0. /\ old \in ProcessorState /\ processor \in [Processors -> ProcessorState]
      /\ old.pc \in {"schema", "get", "push"} => old.part \in ProcessorInput
      /\ old.pc \in {"get", "push"} => old.todo # {}
      /\ old.pc \notin {"get", "push"} => old.todo = {}
      /\ ProcessorTypeOK
  BY DEF InstanceInv, ProcessorOK, ProcessorTypeOK, ProcessorHolds, CleanInv
<1>9. processor_queue \in Seq(ProcessorInput) /\ merger_queue \in Seq(ModelIncrement)
  BY DEF InstanceInv, LoaderOK, DataLoaderTypeOK, MergerOK, MergerTypeOK
<1>1. UNCHANGED loader /\ \A q \in Processors : q # p => processor'[q] = processor[q]
  <2>1. UNCHANGED loader
    BY DEF ProcessorStep
  <2>2. CASE ProcessorSchema(p) \/ ProcessorPush(p)
    BY <1>0, <2>1, <2>2, ContinueMeans DEF ProcessorSchema, ProcessorPush
  <2>3. CASE ProcessorStop(p) \/ ProcessorPop(p) \/ ProcessorGet(p) \/ ProcessorFull(p)
    BY <1>0, <2>1, <2>3 DEF ProcessorStop, ProcessorPop, ProcessorGet, ProcessorFull
  <2>4. QED
    BY <2>2, <2>3 DEF ProcessorStep, ProcessorThread
<1>2. Places /\ Places'
  BY PlacesOK, PTL
<1>3. CASE ProcessorStop(p) \/ ProcessorFull(p)
  <2>1. /\ UNCHANGED <<processor_queue, merger_queue>> /\ old.todo = {}
        /\ old.pc # "schema" /\ new.pc # "schema" /\ new.todo = old.todo
    BY <1>0, <1>3 DEF ProcessorStop, ProcessorFull, ProcessorState
  <2>2. /\ \A b \in Batch : SchemaOf(p, b)' = SchemaOf(p, b)
        /\ \A b \in Batch, m \in Model : OwedBy(p, b, m)' = OwedBy(p, b, m)
    BY <2>1 DEF SchemaOf, OwedBy
  <2>3. QED
    BY <1>1, <2>1, <2>2, ProcessorStays
<1>4. CASE ProcessorGet(p)
  <2>1. topic_model[Min(old.todo)] # Nil
    BY <1>4, ModelFound DEF ProcessorGet
  <2>2. /\ UNCHANGED <<processor_queue, merger_queue>>
        /\ old.pc = "get" /\ new.pc = "push" /\ new.part = old.part /\ new.todo = old.todo
    BY <1>0, <1>4, <2>1 DEF ProcessorGet, ProcessorState
  <2>3. /\ \A b \in Batch : SchemaOf(p, b)' = SchemaOf(p, b)
        /\ \A b \in Batch, m \in Model : OwedBy(p, b, m)' = OwedBy(p, b, m)
    BY <2>2 DEF SchemaOf, OwedBy, Working
  <2>4. QED
    BY <1>1, <2>2, <2>3, ProcessorStays
<1>5. CASE ProcessorPop(p)
  <2> DEFINE part == Head(processor_queue)
  <2>1. /\ processor_queue # <<>> /\ processor_queue' = Tail(processor_queue)
        /\ UNCHANGED merger_queue
        /\ part \in ProcessorInput
        /\ old.pc = "pop" /\ new.pc = "schema" /\ new.part = part /\ old.todo = {} /\ new.todo = {}
    BY <1>0, <1>9, <1>5, PopFront DEF ProcessorPop, ProcessorState
  <2>2. ASSUME NEW b \in Batch PROVE Unprocessed(b)' = Unprocessed(b)
    <3>1. Where(processor_queue, OfBatch(b))
            = Where(processor_queue', OfBatch(b)) + One(part \in OfBatch(b))
      BY <1>9, <2>1, WhereTail
    <3>2. SchemaOf(p, b) = 0 /\ SchemaOf(p, b)' = IF part \in OfBatch(b) THEN 1 ELSE 0
      BY <2>1 DEF SchemaOf, Working, OfBatch
    <3>3. Unprocessed(b)' + Where(processor_queue, OfBatch(b)) + SchemaOf(p, b)
            = Unprocessed(b) + Where(processor_queue', OfBatch(b)) + SchemaOf(p, b)'
      BY <1>1, OneProcessor
    <3>4. Where(processor_queue', OfBatch(b)) \in Nat
      BY PlacesFinite DEF InstanceInv, LoaderOK, DataLoaderTypeOK
    <3>5. Unprocessed(b) \in Nat /\ Unprocessed(b)' \in Nat
      BY <1>2 DEF Places
    <3>6. QED
      BY <3>1, <3>2, <3>3, <3>4, <3>5 DEF One
  <2>3. ASSUME NEW b \in Batch, NEW m \in Model PROVE Unpopped(b, m)' = Unpopped(b, m)
    <3>1. OwedBy(p, b, m) = 0 /\ OwedBy(p, b, m)' = 0
      BY <2>1 DEF OwedBy
    <3>2. Unpopped(b, m)' + Where(merger_queue, OfPair(b, m)) + OwedBy(p, b, m)
            = Unpopped(b, m) + Where(merger_queue', OfPair(b, m)) + OwedBy(p, b, m)'
      BY <1>1, OneProcessor
    <3>3. Where(merger_queue, OfPair(b, m)) \in Nat
      BY UnpoppedIs
    <3>4. Unpopped(b, m) \in Nat /\ Unpopped(b, m)' \in Nat
      BY <1>2 DEF Places
    <3>5. QED
      BY <2>1, <3>1, <3>2, <3>3, <3>4
  <2>4. QED
    BY <2>2, <2>3 DEF Still
<1>6. CASE ProcessorPush(p)
  <2> DEFINE k == Min(old.todo)
             inc == [batch |-> old.part.batch, model |-> k, incarnation |-> old.incarnation]
  <2>1. /\ old.pc = "push" /\ old.part \in ProcessorInput /\ old.todo # {}
        /\ old.todo \in SUBSET Model /\ old.incarnation \in Nat
        /\ merger_queue' = Append(merger_queue, inc) /\ UNCHANGED processor_queue
    BY <1>0, <1>6 DEF ProcessorPush, ProcessorState
  <2>2. k \in old.todo /\ k \in Model /\ inc \in ModelIncrement
    BY <2>1, MinOfModels DEF ModelIncrement, ProcessorInput
  <2>3. /\ new.todo = old.todo \ {k} /\ new.pc # "schema"
        /\ new.todo # {} => new.pc = "get" /\ new.part = old.part
    BY <1>0, <1>6, ContinueMeans DEF ProcessorPush
  <2>4. ASSUME NEW b \in Batch PROVE Unprocessed(b)' = Unprocessed(b)
    <3>1. SchemaOf(p, b) = 0 /\ SchemaOf(p, b)' = 0
      BY <2>1, <2>3 DEF SchemaOf
    <3>2. Unprocessed(b)' + Where(processor_queue, OfBatch(b)) + SchemaOf(p, b)
            = Unprocessed(b) + Where(processor_queue', OfBatch(b)) + SchemaOf(p, b)'
      BY <1>1, OneProcessor
    <3>3. Where(processor_queue, OfBatch(b)) \in Nat
      BY UnprocessedIs
    <3>4. Unprocessed(b) \in Nat /\ Unprocessed(b)' \in Nat
      BY <1>2 DEF Places
    <3>5. QED
      BY <2>1, <3>1, <3>2, <3>3, <3>4
  <2>5. ASSUME NEW b \in Batch, NEW m \in Model PROVE Unpopped(b, m)' = Unpopped(b, m)
    <3>1. Where(merger_queue', OfPair(b, m))
            = Where(merger_queue, OfPair(b, m)) + One(inc \in OfPair(b, m))
      BY <1>9, <2>1, <2>2, WhereAppend
    <3>2. OwedBy(p, b, m) = OwedBy(p, b, m)' + One(inc \in OfPair(b, m))
      BY <2>1, <2>2, <2>3 DEF OwedBy, Working, OfPair, One
    <3>3. Unpopped(b, m)' + Where(merger_queue, OfPair(b, m)) + OwedBy(p, b, m)
            = Unpopped(b, m) + Where(merger_queue', OfPair(b, m)) + OwedBy(p, b, m)'
      BY <1>1, OneProcessor
    <3>4. /\ Where(merger_queue, OfPair(b, m)) \in Nat /\ OwedBy(p, b, m)' \in Nat
          /\ One(inc \in OfPair(b, m)) \in Nat
      BY UnpoppedIs DEF OwedBy, One
    <3>5. Unpopped(b, m) \in Nat /\ Unpopped(b, m)' \in Nat
      BY <1>2 DEF Places
    <3>6. QED
      BY <3>1, <3>2, <3>3, <3>4, <3>5
  <2>6. QED
    BY <2>4, <2>5 DEF Still
<1>7. CASE ProcessorSchema(p)
  <2>1. /\ old.pc = "schema" /\ old.part \in ProcessorInput /\ old.todo = {}
        /\ UNCHANGED <<processor_queue, merger_queue>>
        /\ new.todo = EnabledModels /\ new.pc # "schema"
        /\ EnabledModels # {} => new.pc = "get" /\ new.part = old.part
    BY <1>0, <1>7, ContinueMeans DEF ProcessorSchema
  <2>2. PICK b \in Batch : b = old.part.batch
    BY <2>1 DEF ProcessorInput
  <2>3. ASSUME NEW k \in Batch
        PROVE  Unprocessed(k) = Unprocessed(k)' + (IF k = b THEN 1 ELSE 0)
    <3>1. SchemaOf(p, k) = (IF k = b THEN 1 ELSE 0) /\ SchemaOf(p, k)' = 0
      BY <2>1, <2>2 DEF SchemaOf, Working
    <3>2. Unprocessed(k)' + Where(processor_queue, OfBatch(k)) + SchemaOf(p, k)
            = Unprocessed(k) + Where(processor_queue', OfBatch(k)) + SchemaOf(p, k)'
      BY <1>1, OneProcessor
    <3>3. Where(processor_queue, OfBatch(k)) \in Nat
      BY UnprocessedIs
    <3>4. Unprocessed(k) \in Nat /\ Unprocessed(k)' \in Nat
      BY <1>2 DEF Places
    <3>5. QED
      BY <2>1, <3>1, <3>2, <3>3, <3>4
  <2>4. ASSUME NEW k \in Batch, NEW m \in Model
        PROVE  Unpopped(k, m)' = Unpopped(k, m)
                                   + (IF k = b /\ m \in EnabledModels THEN 1 ELSE 0)
    <3>1. /\ OwedBy(p, k, m) = 0
          /\ OwedBy(p, k, m)' = IF k = b /\ m \in EnabledModels THEN 1 ELSE 0
      BY <2>1, <2>2 DEF OwedBy, Working
    <3>2. Unpopped(k, m)' + Where(merger_queue, OfPair(k, m)) + OwedBy(p, k, m)
            = Unpopped(k, m) + Where(merger_queue', OfPair(k, m)) + OwedBy(p, k, m)'
      BY <1>1, OneProcessor
    <3>3. Where(merger_queue, OfPair(k, m)) \in Nat
      BY UnpoppedIs
    <3>4. Unpopped(k, m) \in Nat /\ Unpopped(k, m)' \in Nat
      BY <1>2 DEF Places
    <3>5. QED
      BY <2>1, <3>1, <3>2, <3>3, <3>4
  <2>5. \A k \in Batch : /\ Unprocessed(k)' \in Nat
                         /\ \A m \in Model : Unpopped(k, m) \in Nat
    BY <1>2 DEF Places
  <2>6. Snapshots(b)
    BY <2>3, <2>4, <2>5 DEF Snapshots
  <2>7. QED
    BY <1>7, <2>2, <2>6
<1>8. QED
  BY <1>3, <1>4, <1>5, <1>6, <1>7 DEF ProcessorStep, ProcessorThread

-----------------------------------------------------------------------------
(* Steps of the merger, and of the API thread.                             *)
\* The merger takes an increment from its queue.
Pops(b, m) ==
  /\ Unpopped(b, m) = Unpopped(b, m)' + 1
  /\ \A k \in Batch :
       /\ Unprocessed(k)' = Unprocessed(k)
       /\ \A n \in Model : k # b \/ n # m => Unpopped(k, n)' = Unpopped(k, n)

\* A step of the merger takes an increment, or no batch moves.
LEMMA MergerFlow ==
  ASSUME InstanceInv, InstanceInv', MergerStep
  PROVE  \/ Still /\ UNCHANGED merger_queue
         \/ /\ MergerPop /\ merger'.pc = "merge" /\ merger'.increment = Head(merger_queue)
            /\ merger_queue # <<>> /\ Head(merger_queue) \in ModelIncrement
            /\ merger_queue' = Tail(merger_queue)
            /\ \E b \in Batch, m \in Model :
                 /\ b = merger'.increment.batch /\ m = merger'.increment.model
                 /\ Pops(b, m)
<1>0. merger_queue \in Seq(ModelIncrement) /\ merger \in MergerState
  BY DEF InstanceInv, MergerOK, MergerTypeOK
<1>1. UNCHANGED <<loader, processor, processor_queue>>
  BY DEF MergerStep, processorVars
<1>2. CASE UNCHANGED merger_queue
  BY <1>1, <1>2, NothingMoves
<1>3. CASE MergerPop /\ merger_queue # <<>>
  <2>1. /\ Head(merger_queue) \in ModelIncrement /\ merger_queue' = Tail(merger_queue)
        /\ merger'.pc = "merge" /\ merger'.increment = Head(merger_queue)
    BY <1>0, <1>3, PopFront DEF MergerPop, MergerState
  <2>2. PICK b \in Batch, m \in Model :
          b = Head(merger_queue).batch /\ m = Head(merger_queue).model
    BY <2>1 DEF ModelIncrement
  <2>3. ASSUME NEW k \in Batch PROVE Unprocessed(k)' = Unprocessed(k)
    <3>1. AtSchema(k)' = AtSchema(k) /\ Loaded(k)' = Loaded(k)
      BY <1>1 DEF AtSchema, Working, Loaded
    <3>2. QED
      BY <1>1, <3>1, UnprocessedIs
  <2>4. ASSUME NEW k \in Batch, NEW n \in Model
        PROVE  Unpopped(k, n) = Unpopped(k, n)' + (IF k = b /\ n = m THEN 1 ELSE 0)
    <3>1. Where(merger_queue, OfPair(k, n))
            = Where(merger_queue', OfPair(k, n)) + One(Head(merger_queue) \in OfPair(k, n))
      BY <1>0, <1>3, <2>1, WhereTail
    <3>2. One(Head(merger_queue) \in OfPair(k, n)) = IF k = b /\ n = m THEN 1 ELSE 0
      BY <2>1, <2>2 DEF One, OfPair
    <3>3. Owing(k, n)' = Owing(k, n)
      BY <1>1 DEF Owing, Working
    <3>4. /\ Unpopped(k, n) = Cardinality(Owing(k, n)) + Where(merger_queue, OfPair(k, n))
          /\ Unpopped(k, n)' = Cardinality(Owing(k, n)) + Where(merger_queue', OfPair(k, n))
          /\ Cardinality(Owing(k, n)) \in Nat
      BY <3>3, UnpoppedIs
    <3>5. Where(merger_queue', OfPair(k, n)) \in Nat
      BY PlacesFinite DEF InstanceInv, MergerOK, MergerTypeOK
    <3>6. QED
      BY <3>1, <3>2, <3>4, <3>5
  <2>5. \A k \in Batch, n \in Model : Unpopped(k, n)' \in Nat
    <3>1. Places'
      BY PlacesOK, PTL
    <3>2. QED
      BY <3>1 DEF Places
  <2>6. Pops(b, m)
    BY <2>3, <2>4, <2>5 DEF Pops
  <2>7. QED
    BY <1>3, <2>1, <2>2, <2>6
<1>4. UNCHANGED merger_queue \/ (MergerPop /\ merger_queue # <<>>)
  BY DEF MergerStep, MergerThread, MergerStop, MergerTop, MergerTaskStep, MergerNoTask, MergerPop,
         MergerMerge, MergerCallbackDone, MergerCallbackCache, MergerPull, MergerPullReturn,
         mergerQueues
<1>5. QED
  BY <1>2, <1>3, <1>4

\* No call moves a batch; a thread that is started has none.
LEMMA ApiFlow ==
  ASSUME InstanceInv, InstanceInv', CleanInv, ApiCall \/ ApiThread
  PROVE  Still /\ UNCHANGED <<loader, processor_queue, merger_queue, merger>>
<1>1. UNCHANGED <<loader, processor_queue, merger_queue, merger>>
  BY Zenon
  DEF  ApiCall, CreateModel, DisposeModel, AddBatchCall, AddBatch, InvokeIteration, WaitIdle,
         Reconfigure, Destroy, ApiThread, CreateModelSchema, DisposeModelMerger,
         DisposeModelBatches, InvokeGeneration, InvokeAdd, WaitTimeout, WaitPush, WaitPull,
         WaitPulled, WaitReturn, RemoveProcessor, AddProcessor, DestroyProcessor,
         ReconfigureReturn, DestroyMerger, DestroyLoader, Destroyed,
         dataLoaderVars, mergerVars, mergerInternals
<1>2. CASE UNCHANGED processor
  BY <1>1, <1>2, NothingMoves
<1>3. ASSUME NEW p \in Processors, AddProcessor(p)
      PROVE  Still
  <2>1. /\ processor[p].pc = "stopped" /\ processor'[p] = NewProcessor
        /\ \A q \in Processors : q # p => processor'[q] = processor[q]
        /\ processor[p].todo = {}
    BY <1>3 DEF AddProcessor, Stopped, InstanceInv, ProcessorOK, ProcessorTypeOK, CleanInv
  <2>2. /\ \A b \in Batch : SchemaOf(p, b)' = SchemaOf(p, b)
        /\ \A b \in Batch, m \in Model : OwedBy(p, b, m)' = OwedBy(p, b, m)
    BY <2>1 DEF SchemaOf, OwedBy, Working, NewProcessor
  <2>3. QED
    BY <1>1, <2>1, <2>2, ProcessorStays
<1>4. UNCHANGED processor \/ \E p \in Processors : AddProcessor(p)
  BY Zenon
  DEF  ApiCall, CreateModel, DisposeModel, AddBatchCall, InvokeIteration, WaitIdle,
         Reconfigure, Destroy, ApiThread, CreateModelSchema, DisposeModelMerger,
         DisposeModelBatches, InvokeGeneration, InvokeAdd, WaitTimeout, WaitPush, WaitPull,
         WaitPulled, WaitReturn, RemoveProcessor, DestroyProcessor, StopProcessor,
         ReconfigureReturn, DestroyMerger, DestroyLoader, Destroyed, processorVars
<1>5. Still
  BY <1>2, <1>3, <1>4
<1>6. QED
  BY <1>1, <1>5

-----------------------------------------------------------------------------
(* Cases and frames.                                                       *)
\* The calls that change neither models nor batches: polls, processors_count,
\* the destructors.
PlainPc == {"ready", "wait.poll", "reconfigure", "destroy.processors", "destroy.merger",
            "destroy.loader", "destroyed"}

\* They start and end outside the calls of which the invariant says something.
Plain ==
  /\ api.pc \in PlainPc /\ api'.pc \in PlainPc
  /\ UNCHANGED <<schema, batchManagerVars, generation, cache, processor_queue, loader,
                 topic_model, mergerInternals, internal_task_queue, sync_event, due, quiet>>
  /\ \A p \in Processors :
       processor'[p] = processor[p] \/ (Stopped(p) /\ processor'[p] = NewProcessor)

\* The steps of the API thread, as the proofs below distinguish them.
LEMMA ApiCases ==
  ASSUME InstanceInv, ApiCall \/ ApiThread
  PROVE  \/ Plain
         \/ \E m \in Model, s \in CreateStatuses : CreateModel(m, s)
         \/ \E m \in DisposableModels : DisposeModel(m)
         \/ \E n \in IterationCounts : n # 0 /\ InvokeIteration(n)
         \/ AddBatchCall \/ CreateModelSchema \/ DisposeModelMerger \/ DisposeModelBatches
         \/ InvokeGeneration \/ InvokeAdd \/ WaitPush \/ WaitPull \/ WaitPulled \/ WaitReturn
<1> USE DEF Plain, PlainPc, Call, At, dataLoaderVars, mergerVars, mergerInternals, processorVars
<1>0. /\ \A pc \in ApiPc : Goto(pc) => api'.pc = pc
      /\ Return => api'.pc = "ready"
      /\ DOMAIN processor = Processors
  BY GotoOK, ReturnOK DEF InstanceInv, ApiOK, ProcessorOK, ProcessorTypeOK
<1>1. ASSUME InvokeIteration(0) PROVE Plain
  BY <1>1 DEF InvokeIteration
<1>2. CASE WaitIdle \/ Destroy \/ WaitTimeout \/ ReconfigureReturn
  BY <1>0, <1>2 DEF WaitIdle, Destroy, WaitTimeout, ReconfigureReturn, ApiPc
<1>3. ASSUME NEW n \in ProcessorCounts, Reconfigure(n) PROVE Plain
  BY <1>3 DEF Reconfigure, InstanceInv, ApiOK, ApiState
<1>4. ASSUME NEW p \in Processors, RemoveProcessor(p) \/ DestroyProcessor(p) PROVE Plain
  BY <1>4 DEF RemoveProcessor, DestroyProcessor, StopProcessor
<1>5. ASSUME NEW p \in Processors, AddProcessor(p) PROVE Plain
  BY <1>0, <1>5 DEF AddProcessor
<1>6. CASE DestroyMerger \/ DestroyLoader \/ Destroyed
  BY <1>0, <1>6 DEF DestroyMerger, DestroyLoader, Destroyed, ApiPc
<1>7. CASE ApiCall
  <2>1. ASSUME NEW n \in IterationCounts, InvokeIteration(n)
        PROVE  Plain \/ \E k \in IterationCounts : k # 0 /\ InvokeIteration(k)
    BY <1>1, <2>1
  <2> HIDE DEF Plain
  <2>2. QED
    BY <1>2, <1>3, <1>7, <2>1, Zenon DEF ApiCall
<1>8. CASE ApiThread
  <2> HIDE DEF Plain
  <2>1. QED
    BY <1>2, <1>4, <1>5, <1>6, <1>8, Zenon DEF ApiThread
<1>9. QED
  BY <1>7, <1>8

\* What the merger and a processor leave alone.
LEMMA MergerLeaves ==
  ASSUME MergerStep
  PROVE  UNCHANGED <<schema, generation, processor_queue, loader, processor, api, due, quiet,
                     incarnations, tasks>>
BY Zenon
DEF MergerStep, MergerThread, MergerStop, MergerTop, MergerTaskStep, MergerNoTask, MergerPop,
    MergerMerge, MergerCallbackDone, MergerCallbackCache, MergerPull, MergerPullReturn,
    mergerModels, processorVars, apiVars, batchManagerVars, CallbackDone, Done

LEMMA LoaderLeaves ==
  ASSUME LoaderStep
  PROVE  UNCHANGED <<schema, generation, cache, topic_model, topic_model_inc, scores,
                     incarnations, merger_queue, internal_task_queue, sync_event, merger,
                     processor, api, due, quiet>>
BY Zenon
DEF LoaderStep, LoaderThread, LoaderStop, LoaderSize, LoaderNext, LoaderNothing, LoaderBatch,
    LoaderCache, LoaderPush, mergerVars, processorVars, apiVars

LEMMA ProcessorLeaves ==
  ASSUME NEW p \in Processors, ProcessorStep(p)
  PROVE  UNCHANGED <<schema, tasks, in_progress, generation, cache, loader, topic_model,
                     topic_model_inc, scores, incarnations, internal_task_queue, sync_event,
                     merger, api, due, quiet>>
BY Zenon DEF ProcessorStep, batchManagerVars, apiVars
LEMMA SchemaStep ==
  ASSUME InstanceInv, SchemaInv, Disciplined, [Next]_vars
  PROVE  SchemaInv'
<1> USE DEF SchemaInv
<1>0. /\ schema \in [Model -> ModelStatus] /\ api \in ApiState
      /\ topic_model \in [Model -> TopicModel \cup {Nil}]
  BY DEF InstanceInv, SchemaTypeOK, ApiOK, MergerOK, MergerTypeOK
<1>1. CASE /\ UNCHANGED <<schema, topic_model>>
           /\ UNCHANGED api \/ api'.pc \notin {"create", "dispose.merger"}
           /\ UNCHANGED api \/ api.pc \notin {"create", "dispose.merger"}
  BY <1>1
<1>2. CASE MergerStep
  <2>1. /\ UNCHANGED <<schema, api>>
        /\ \A m \in Model : topic_model'[m] # Nil => topic_model[m] # Nil
    <3>1. CASE MergerPull
      <4>1. \A m \in Model : m # Min(merger.todo) => topic_model'[m] = topic_model[m]
        BY <1>0, <3>1 DEF MergerPull
      <4>2. topic_model[Min(merger.todo)] # Nil
        BY <3>1 DEF MergerPull, PullStops
      <4>3. QED
        BY <1>2, <4>1, <4>2, MergerLeaves
    <3>2. CASE UNCHANGED topic_model
      BY <1>2, <3>2, MergerLeaves
    <3>3. MergerPull \/ UNCHANGED topic_model
      BY <1>2, Zenon
      DEF MergerStep, MergerThread, MergerStop, MergerTop, MergerTaskStep, MergerNoTask,
          MergerPop, MergerMerge, MergerCallbackDone, MergerCallbackCache, MergerPullReturn,
          mergerModels
    <3>4. QED
      BY <3>1, <3>2, <3>3
  <2>2. QED
    BY <2>1
<1>3. ASSUME NEW m \in Model, NEW s \in CreateStatuses, CreateModel(m, s)
      PROVE  SchemaInv'
  <2>1. /\ UNCHANGED schema /\ api.pc = "ready"
        /\ api'.pc = "create" /\ api'.model = m /\ api'.status = s
    BY <1>0, <1>3 DEF CreateModel, Call, ApiState
  <2>2. s = "enabled"
    BY DEF Disciplined
  <2>3. \A k \in Model : k # m => topic_model'[k] = topic_model[k]
    BY <1>0, <1>3 DEF CreateModel, CreateTopicModel
  <2>4. QED
    BY <2>1, <2>2, <2>3
<1>4. CASE CreateModelSchema
  <2>1. /\ api.pc = "create" /\ api.status = "enabled" /\ api.model \in Model
        /\ schema' = [schema EXCEPT ![api.model] = "enabled"]
        /\ UNCHANGED topic_model
        /\ api'.pc = "ready"
    BY <1>4, ReturnOK
    DEF CreateModelSchema, set_model_config, At, InstanceInv, ApiOK, CallHolds, mergerVars
  <2>2. QED
    BY <1>0, <2>1
<1>5. ASSUME NEW m \in DisposableModels, DisposeModel(m)
      PROVE  SchemaInv'
  <2>1. m \in Model /\ m \notin Kept
    BY <1>5, LocalInstanceAssumption DEF DisposeModel, Call, Kept
  <2>2. /\ schema' = [schema EXCEPT ![m] = "absent"] /\ UNCHANGED topic_model
        /\ api.pc = "ready" /\ api'.pc = "dispose.merger" /\ api'.model = m
    BY <1>0, <1>5 DEF DisposeModel, Call, clear_model_config, mergerVars, ApiState
  <2>3. Kept \subseteq Model
    BY DEF Kept
  <2>4. QED
    BY <1>0, <2>1, <2>2, <2>3
<1>6. CASE DisposeModelMerger
  <2>1. /\ api.pc = "dispose.merger" /\ api.model \in Model /\ UNCHANGED schema
        /\ topic_model' = [topic_model EXCEPT ![api.model] = Nil]
        /\ api'.pc = "dispose.batches"
    BY <1>0, <1>6
    DEF DisposeModelMerger, DisposeTopicModel, At, Goto, InstanceInv, ApiOK, CallHolds, ApiState
  <2>2. QED
    BY <1>0, <2>1
<1>7. CASE \/ Plain \/ AddBatchCall \/ DisposeModelBatches \/ InvokeGeneration
           \/ InvokeAdd \/ WaitPush \/ WaitPull \/ WaitPulled \/ WaitReturn
           \/ \E n \in IterationCounts : n # 0 /\ InvokeIteration(n)
  <2>1. UNCHANGED <<schema, topic_model>>
    BY <1>7, Zenon
    DEF Plain, AddBatchCall, DisposeModelBatches, InvokeGeneration, InvokeAdd, WaitPush,
        WaitPull, WaitPulled, WaitReturn, InvokeIteration, mergerVars
  <2>2. /\ api.pc \notin {"create", "dispose.merger"}
        /\ UNCHANGED api \/ api'.pc \notin {"create", "dispose.merger"}
    BY <1>0, <1>7, ReturnOK, Zenon
    DEF Plain, PlainPc, AddBatchCall, DisposeModelBatches, InvokeGeneration, InvokeAdd, WaitPush,
        WaitPull, WaitPulled, WaitReturn, InvokeIteration, At, Call, Goto, ApiState
  <2>3. QED
    BY <1>1, <2>1, <2>2
<1>8. CASE LoaderStep
  BY <1>1, <1>8, LoaderLeaves
<1>9. ASSUME NEW p \in Processors, ProcessorStep(p) PROVE SchemaInv'
  BY <1>1, <1>9, ProcessorLeaves
<1>10. CASE UNCHANGED vars
  BY <1>1, <1>10 DEF vars, mergerVars, apiVars
<1>11. QED
  BY <1>2, <1>3, <1>4, <1>5, <1>6, <1>7, <1>8, <1>9, <1>10, ApiCases DEF Next

-----------------------------------------------------------------------------
(* Threads between two batches.                                            *)
\* Where the loader may go.
LEMMA LoaderGoes ==
  ASSUME loader \in LoaderState, LoaderThread
  PROVE  \/ /\ loader.pc = "size" /\ loader'.pc \in {"stopped", "next"}
            /\ loader'.batch = loader.batch
         \/ loader.pc = "next" /\ loader'.pc = "size" /\ loader'.batch = loader.batch
         \/ loader.pc = "next" /\ loader'.pc = "batch" /\ LoaderNext
         \/ /\ loader.pc \in {"batch", "cache"} /\ loader'.pc \in {"cache", "push"}
            /\ loader'.batch = loader.batch
         \/ loader'.pc = "size" /\ loader'.batch = Nil
<1> USE DEF LoaderGoto, LoaderAgain, LoaderState
<1>1. CASE LoaderStop \/ LoaderSize \/ LoaderNothing
  BY <1>1 DEF LoaderStop, LoaderSize, LoaderNothing
<1>2. CASE LoaderNext
  <2>1. loader.pc = "next" /\ loader'.pc = "batch"
    BY <1>2 DEF LoaderNext
  <2>2. QED
    BY <1>2, <2>1
<1>3. CASE LoaderBatch
  BY <1>3 DEF LoaderBatch
<1>4. CASE LoaderCache
  BY <1>4 DEF LoaderCache
<1>5. CASE LoaderPush
  BY <1>5 DEF LoaderPush
<1>6. QED
  BY <1>1, <1>2, <1>3, <1>4, <1>5 DEF LoaderThread

LEMMA CleanStep ==
  ASSUME InstanceInv, CleanInv, HoldersInv, [Next]_vars
  PROVE  CleanInv'
<1> DEFINE LoaderClean == loader.pc \notin {"batch", "cache", "push"} => loader.batch = Nil
           ProcessorsClean == \A p \in Processors :
             /\ processor[p].pc \notin {"get", "push"} => processor[p].todo = {}
             /\ processor[p].pc # "aborted"
<1>0. /\ loader \in LoaderState /\ processor \in [Processors -> ProcessorState]
      /\ LoaderClean /\ ProcessorsClean /\ (CleanInv' <=> LoaderClean' /\ ProcessorsClean')
  BY DEF CleanInv, InstanceInv, LoaderOK, DataLoaderTypeOK, ProcessorOK, ProcessorTypeOK
<1>1. UNCHANGED loader => LoaderClean'
  BY <1>0
<1>2. UNCHANGED processor => ProcessorsClean'
  BY <1>0
<1>3. CASE LoaderStep
  <2>1. LoaderClean'
    BY <1>0, <1>3, LoaderGoes DEF LoaderStep
  <2>2. QED
    BY <1>0, <1>2, <1>3, <2>1, LoaderLeaves
<1>4. ASSUME NEW p \in Processors, ProcessorStep(p)
      PROVE  CleanInv'
  <2> DEFINE old == processor[p]
             new == processor'[p]
  <2>1. \A q \in Processors : q # p => processor'[q] = processor[q]
    <3>1. CASE ProcessorSchema(p) \/ ProcessorPush(p)
      BY <3>1, ContinueMeans DEF ProcessorSchema, ProcessorPush, InstanceInv, ProcessorOK
    <3>2. CASE ProcessorStop(p) \/ ProcessorPop(p) \/ ProcessorGet(p) \/ ProcessorFull(p)
      BY <1>0, <3>2 DEF ProcessorStop, ProcessorPop, ProcessorGet, ProcessorFull
    <3>3. QED
      BY <1>4, <3>1, <3>2 DEF ProcessorStep, ProcessorThread
  <2>2. (new.pc \notin {"get", "push"} => new.todo = {}) /\ new.pc # "aborted"
    <3>1. CASE ProcessorSchema(p) \/ ProcessorPush(p)
      BY <3>1, ContinueMeans DEF ProcessorSchema, ProcessorPush, InstanceInv, ProcessorOK
    <3>2. CASE ProcessorGet(p)
      <4>1. old.pc = "get" /\ topic_model[Min(old.todo)] # Nil
        BY <3>2, ModelFound DEF ProcessorGet
      <4>2. new.pc = "push" /\ new.todo = old.todo
        BY <1>0, <3>2, <4>1 DEF ProcessorGet, ProcessorState
      <4>3. QED
        BY <4>2
    <3>3. CASE ProcessorStop(p) \/ ProcessorPop(p) \/ ProcessorFull(p)
      <4>1. /\ old \in ProcessorState /\ old.todo = {}
            /\ new.pc \in {"stopped", "schema", "pop"} /\ new.todo = old.todo
        BY <1>0, <3>3 DEF ProcessorStop, ProcessorPop, ProcessorFull, ProcessorState
      <4>2. QED
        BY <4>1
    <3>4. QED
      BY <1>4, <3>1, <3>2, <3>3 DEF ProcessorStep, ProcessorThread
  <2>3. ProcessorsClean'
    BY <1>0, <2>1, <2>2
  <2>4. QED
    BY <1>0, <1>1, <1>4, <2>3, ProcessorLeaves
<1>5. CASE MergerStep \/ UNCHANGED vars
  <2>1. UNCHANGED <<loader, processor>>
    BY <1>5, MergerLeaves DEF vars, dataLoaderVars, processorVars
  <2>2. QED
    BY <1>0, <1>1, <1>2, <2>1
<1>6. CASE ApiCall \/ ApiThread
  <2>1. UNCHANGED loader
    BY <1>6, Zenon
    DEF ApiCall, CreateModel, DisposeModel, AddBatchCall, AddBatch, InvokeIteration, WaitIdle,
        Reconfigure, Destroy, ApiThread, CreateModelSchema, DisposeModelMerger,
        DisposeModelBatches, InvokeGeneration, InvokeAdd, WaitTimeout, WaitPush, WaitPull,
        WaitPulled, WaitReturn, RemoveProcessor, AddProcessor, DestroyProcessor,
        ReconfigureReturn, DestroyMerger, DestroyLoader, Destroyed, dataLoaderVars
  <2>2. UNCHANGED processor \/ \E p \in Processors : AddProcessor(p)
    BY <1>6, Zenon
    DEF ApiCall, CreateModel, DisposeModel, AddBatchCall, InvokeIteration, WaitIdle,
        Reconfigure, Destroy, ApiThread, CreateModelSchema, DisposeModelMerger,
        DisposeModelBatches, InvokeGeneration, InvokeAdd, WaitTimeout, WaitPush, WaitPull,
        WaitPulled, WaitReturn, RemoveProcessor, DestroyProcessor, StopProcessor,
        ReconfigureReturn, DestroyMerger, DestroyLoader, Destroyed, processorVars
  <2>3. ASSUME NEW p \in Processors, AddProcessor(p)
        PROVE  ProcessorsClean'
    BY <1>0, <2>3 DEF AddProcessor, NewProcessor
  <2>4. QED
    BY <1>0, <1>1, <1>2, <2>1, <2>2, <2>3
<1>7. QED
  BY <1>3, <1>4, <1>5, <1>6 DEF Next

LEMMA GenerationStep ==
  ASSUME InstanceInv, GenerationInv, [Next]_vars
  PROVE  GenerationInv'
<1> USE DEF GenerationInv
<1>0. /\ loader \in LoaderState /\ tasks \in Seq(Batch) /\ generation \in SUBSET Batch
      /\ due \in [Model -> Counters]
  BY DEF InstanceInv, LoaderOK, DataLoaderTypeOK, BatchManagerTypeOK, ApiOK
<1>1. CASE UNCHANGED <<loader, tasks, due>> /\ generation \subseteq generation'
  BY <1>1
<1>2. CASE LoaderStep
  <2>1. UNCHANGED <<generation, due>>
    BY <1>2, LoaderLeaves
  <2>2. CASE LoaderNext
    <3>1. PICK i \in 1..Len(tasks) :
            /\ NextTask(i)
            /\ loader' = [loader EXCEPT !.pc = "batch", !.batch = tasks[i]]
      BY <2>2, Zenon DEF LoaderNext
    <3>2. tasks' = RemoveAt(tasks, i) /\ loader'.batch = tasks[i] /\ tasks[i] \in generation
      BY <1>0, <3>1, LenProperties DEF NextTask, LoaderState
    <3>3. \A j \in DOMAIN tasks' : tasks'[j] \in generation
      <4>1. /\ DOMAIN tasks' = 1..(Len(tasks) - 1) /\ DOMAIN tasks = 1..Len(tasks)
            /\ Len(tasks) \in Nat
            /\ \A j \in 1..(Len(tasks) - 1) : tasks'[j] = IF j < i THEN tasks[j] ELSE tasks[j + 1]
        BY <1>0, <3>2, RemoveAtElements, LenProperties
      <4>2. QED
        BY <4>1
    <3>4. QED
      BY <2>1, <3>2, <3>3
  <2>3. CASE ~LoaderNext
    <3>1. UNCHANGED tasks
      BY <1>2, <2>3, Zenon
      DEF LoaderStep, LoaderThread, LoaderStop, LoaderSize, LoaderNothing, LoaderBatch,
          LoaderCache, LoaderPush, DoneForAll, batchManagerVars
    <3>2. loader'.pc \in {"batch", "cache", "push"} /\ ~LoaderNext =>
            loader'.batch = loader.batch /\ loader.pc \in {"batch", "cache", "push"}
      BY <1>0, <1>2, <2>1, LoaderGoes, NilAssumption DEF LoaderStep
    <3>3. QED
      BY <2>1, <2>3, <3>1, <3>2
  <2>4. QED
    BY <2>2, <2>3
<1>3. CASE InvokeAdd
  <2> DEFINE b == Min(api.todo)
  <2>1. b \in Batch /\ b \in generation
    BY <1>3, MinOfBatches DEF InvokeAdd, At, InstanceInv, ApiOK, CallHolds, ApiState
  <2>2. /\ tasks' = Append(tasks, b)
        /\ UNCHANGED <<generation, loader>>
        /\ due' = [m \in Model |-> IF m \in EnabledModels
                                   THEN [due[m] EXCEPT ![b] = @ + 1] ELSE due[m]]
    BY <1>3 DEF InvokeAdd, Add, dataLoaderVars
  <2> HIDE DEF b
  <2>3. \A i \in DOMAIN tasks' : tasks'[i] \in generation
    <3>1. /\ DOMAIN tasks' = 1..(Len(tasks) + 1) /\ DOMAIN tasks = 1..Len(tasks)
          /\ Len(tasks) \in Nat
          /\ tasks'[Len(tasks) + 1] = b /\ \A i \in 1..Len(tasks) : tasks'[i] = tasks[i]
      BY <1>0, <2>1, <2>2, AppendProperties, LenProperties
    <3>2. QED
      BY <2>1, <3>1
  <2>4. ASSUME NEW m \in Model, NEW c \in Batch, due'[m][c] > 0
        PROVE  c \in generation
    <3>1. CASE c = b
      BY <2>1, <3>1
    <3>2. CASE c # b
      <4>1. due'[m][c] = due[m][c]
        BY <1>0, <2>2, <3>2 DEF Counters
      <4>2. QED
        BY <2>4, <4>1
    <3>3. QED
      BY <3>1, <3>2
  <2>5. QED
    BY <2>2, <2>3, <2>4
<1>4. CASE DisposeModelBatches \/ WaitReturn
  <2>1. /\ UNCHANGED <<loader, tasks, generation>>
        /\ \A m \in Model : due'[m] = due[m] \/ due'[m] = NoCounts
    BY <1>0, <1>4 DEF DisposeModelBatches, ForgetModel, WaitReturn, dataLoaderVars, batchManagerVars
  <2>2. \A b \in Batch : ~(NoCounts[b] > 0)
    BY DEF NoCounts
  <2>3. QED
    BY <2>1, <2>2
<1>5. CASE AddBatchCall
  <2>1. UNCHANGED <<loader, tasks, due>> /\ generation \subseteq generation'
    BY <1>5 DEF AddBatchCall, AddBatch, batchManagerVars
  <2>2. QED
    BY <1>1, <2>1
<1>6. CASE \/ Plain \/ CreateModelSchema \/ DisposeModelMerger \/ InvokeGeneration
           \/ WaitPush \/ WaitPull \/ WaitPulled
           \/ \E m \in Model, s \in CreateStatuses : CreateModel(m, s)
           \/ \E m \in DisposableModels : DisposeModel(m)
           \/ \E n \in IterationCounts : n # 0 /\ InvokeIteration(n)
  <2>1. UNCHANGED <<loader, tasks, due, generation>>
    BY <1>6, Zenon
    DEF Plain, CreateModelSchema, DisposeModelMerger, InvokeGeneration, WaitPush, WaitPull,
        WaitPulled, CreateModel, DisposeModel, InvokeIteration, dataLoaderVars, batchManagerVars
  <2>2. QED
    BY <1>1, <2>1
<1>7. CASE MergerStep \/ UNCHANGED vars \/ \E p \in Processors : ProcessorStep(p)
  <2>1. UNCHANGED <<loader, tasks, due, generation>>
    BY <1>7, MergerLeaves, ProcessorLeaves DEF vars, dataLoaderVars, batchManagerVars, apiVars
  <2>2. QED
    BY <1>1, <2>1
<1>8. QED
  BY <1>2, <1>3, <1>4, <1>5, <1>6, <1>7, ApiCases DEF Next

\* The merger's steps outside the handling of an increment.
Idle == {"top", "tasks", "queue", "pull", "stopped"}

\* Where the merger may go.
LEMMA MergerGoes ==
  ASSUME merger \in MergerState, MergerThread
  PROVE  \/ /\ MergerPop /\ merger_queue # <<>> /\ merger.pc = "queue" /\ merger'.pc = "merge"
            /\ UNCHANGED in_progress
         \/ /\ MergerMerge /\ merger.pc = "merge" /\ merger'.pc = "done"
            /\ merger'.increment = merger.increment /\ UNCHANGED in_progress
         \/ /\ MergerCallbackDone /\ merger.pc = "done" /\ merger'.pc = "cache"
            /\ merger'.increment = merger.increment
         \/ /\ MergerCallbackCache /\ merger.pc = "cache" /\ merger'.pc = "tasks"
            /\ UNCHANGED in_progress
         \/ merger.pc \in Idle /\ merger'.pc \in Idle /\ UNCHANGED <<in_progress, merger_queue>>
<1> USE DEF Idle, MergerGoto, MergerState, mergerModels, mergerQueues, batchManagerVars
<1>1. CASE MergerStop \/ MergerTop \/ MergerNoTask
  BY <1>1 DEF MergerStop, MergerTop, MergerNoTask
<1>2. CASE MergerTaskStep
  <2>1. UNCHANGED <<in_progress, merger_queue>> /\ merger.pc = "tasks"
    BY <1>2, Zenon DEF MergerTaskStep
  <2>2. UNCHANGED merger \/ merger' = [merger EXCEPT !.pc = "pull",
                                        !.todo = {m \in Model : topic_model[m] # Nil}]
    BY <1>2, Zenon DEF MergerTaskStep
  <2>3. QED
    BY <2>1, <2>2
<1>3. CASE MergerPop
  <2>1. CASE merger_queue = <<>>
    BY <1>3, <2>1 DEF MergerPop
  <2>2. CASE merger_queue # <<>>
    <3>1. merger.pc = "queue" /\ merger'.pc = "merge" /\ UNCHANGED in_progress
      BY <1>3, <2>2 DEF MergerPop
    <3>2. QED
      BY <1>3, <2>2, <3>1
  <2>3. QED
    BY <2>1, <2>2
<1>4. CASE MergerMerge
  <2>1. /\ merger.pc = "merge" /\ merger'.pc = "done" /\ merger'.increment = merger.increment
        /\ UNCHANGED in_progress
    BY <1>4 DEF MergerMerge
  <2>2. QED
    BY <1>4, <2>1
<1>5. CASE MergerCallbackDone
  <2>1. /\ merger.pc = "done" /\ merger'.pc = "cache" /\ merger'.increment = merger.increment
    BY <1>5 DEF MergerCallbackDone
  <2>2. QED
    BY <1>5, <2>1
<1>6. CASE MergerCallbackCache
  <2>1. merger.pc = "cache" /\ merger'.pc = "tasks" /\ UNCHANGED in_progress
    BY <1>6 DEF MergerCallbackCache
  <2>2. QED
    BY <1>6, <2>1
<1>7. CASE MergerPull
  BY <1>7 DEF MergerPull
<1>8. CASE MergerPullReturn
  BY <1>8 DEF MergerPullReturn
<1>9. QED
  BY <1>1, <1>2, <1>3, <1>4, <1>5, <1>6, <1>7, <1>8 DEF MergerThread

-----------------------------------------------------------------------------
(* The marks of the batch manager.                                         *)
\* The merger holds an increment of m for b that it has not reported yet.
Held(b, m) == IF MergerHolds(b, m, {"merge", "done"}) THEN 1 ELSE 0

\* The ghost variable of BatchTracking, by places.
HandedSum ==
  \A b \in Batch, m \in Model :
    Handed(b, m) = (IF m \in GetModelNames THEN Unprocessed(b) ELSE 0)
                     + Unpopped(b, m) + Held(b, m)

LEMMA HandedIs == HandedSum
BY DEF HandedSum, Handed, Held, One

\* When the batch manager says that everything is processed, nobody in the
\* pipeline holds a batch: some model is in the schema, and owes nothing.
LEMMA NobodyHolds ==
  ASSUME InstanceInv, SchemaInv, MarksInv, IsEverythingProcessed
  PROVE  /\ \A b \in Batch : Queued(b) = 0 /\ Unprocessed(b) = 0
         /\ \A b \in Batch, m \in Model : Unpopped(b, m) = 0 /\ Held(b, m) = 0
         /\ merger.pc \notin {"merge", "done"}
         /\ merger_queue = <<>>
         /\ \A p \in Processors : processor[p].pc \notin {"schema", "get", "push"}
<1>1. Places /\ HandedSum
  BY PlacesOK, HandedIs
<1>2. \A b \in Batch, m \in Model : Handed(b, m) = 0
  BY DEF MarksInv, IsEverythingProcessed
<1>3. \A b \in Batch, m \in Model :
        Held(b, m) \in {0, 1} /\ Unpopped(b, m) \in Nat /\ Unprocessed(b) \in Nat
  BY <1>1 DEF Held, Places
<1>4. \A b \in Batch, m \in Model : Unpopped(b, m) = 0 /\ Held(b, m) = 0
  BY <1>1, <1>2, <1>3 DEF HandedSum
<1>5. PICK n \in Model : n \in GetModelNames
  BY DEF SchemaInv, Kept, GetModelNames
<1>6. \A b \in Batch : Unprocessed(b) = 0
  BY <1>1, <1>2, <1>3, <1>5 DEF HandedSum
<1>7. \A b \in Batch : Queued(b) = 0
  BY <1>1 DEF Places, IsEverythingProcessed
<1>8. merger.pc \notin {"merge", "done"}
  BY <1>4 DEF Held, MergerHolds, InstanceInv, MergerOK, MergerHoldsIncrement, ModelIncrement
<1>9. merger_queue = <<>>
  <2>1. merger_queue \in Seq(ModelIncrement)
    BY DEF InstanceInv, MergerOK, MergerTypeOK
  <2>2. CASE merger_queue # <<>>
    <3>1. 1 \in DOMAIN merger_queue /\ merger_queue[1] \in ModelIncrement
      BY <2>1, <2>2, LenProperties, EmptySeq, ElementOfSeq
    <3>2. merger_queue[1].batch \in Batch /\ merger_queue[1].model \in Model
      BY <3>1 DEF ModelIncrement
    <3>3. Unpopped(merger_queue[1].batch, merger_queue[1].model) # 0
      BY <1>1, <3>1, <3>2 DEF Places
    <3>4. QED
      BY <1>4, <3>2, <3>3
  <2>3. QED
    BY <2>2
<1>10. ASSUME NEW p \in Processors, processor[p].pc \in {"schema", "get", "push"}
       PROVE  FALSE
  <2>1. /\ processor[p].part.batch \in Batch /\ processor[p].todo \in SUBSET Model
        /\ processor[p].pc \in {"get", "push"} => processor[p].todo # {}
    BY <1>10
    DEF InstanceInv, ProcessorOK, ProcessorTypeOK, ProcessorState, ProcessorHolds, ProcessorInput
  <2>2. CASE processor[p].pc = "schema"
    BY <1>1, <1>6, <2>1, <2>2 DEF Places
  <2>3. CASE processor[p].pc \in {"get", "push"}
    <3>1. PICK m \in Model : m \in processor[p].todo
      BY <2>1, <2>3
    <3>2. Working(p, processor[p].part.batch)
      BY <2>3 DEF Working
    <3>3. Unpopped(processor[p].part.batch, m) # 0
      BY <1>1, <2>1, <3>1, <3>2 DEF Places
    <3>4. QED
      BY <1>4, <2>1, <3>1, <3>3
  <2>4. QED
    BY <1>10, <2>2, <2>3
<1>11. QED
  BY <1>4, <1>6, <1>7, <1>8, <1>9, <1>10

LEMMA MarksStep ==
  ASSUME InstanceInv, InstanceInv', SchemaInv, CleanInv, GenerationInv, MarksInv, HoldersInv,
         CalmInv, Disciplined, [Next]_vars
  PROVE  MarksInv'
<1>0. /\ HandedSum /\ HandedSum' /\ Places /\ Places'
      /\ in_progress \in [Model -> SUBSET Batch]
      /\ in_progress' \in [Model -> SUBSET Batch] /\ merger \in MergerState
  <2>1. HandedSum' /\ Places'
    BY HandedIs, PlacesOK, PTL
  <2>2. QED
    BY <2>1, HandedIs, PlacesOK DEF InstanceInv, BatchManagerTypeOK, MergerOK, MergerTypeOK
<1>1. ASSUME Still, UNCHANGED <<schema, in_progress>>,
             \A b \in Batch, m \in Model : Held(b, m)' = Held(b, m)
      PROVE  MarksInv'
  <2> SUFFICES ASSUME NEW b \in Batch, NEW m \in Model
      PROVE  Handed(b, m)' = IF b \in in_progress'[m] THEN 1 ELSE 0
    BY DEF MarksInv
  <2>1. /\ Unprocessed(b)' = Unprocessed(b) /\ Unpopped(b, m)' = Unpopped(b, m)
        /\ Held(b, m)' = Held(b, m) /\ GetModelNames' = GetModelNames
    BY <1>1 DEF Still, GetModelNames
  <2>2. Handed(b, m)' = Handed(b, m)
    BY <1>0, <2>1 DEF HandedSum
  <2>3. QED
    BY <1>1, <2>2 DEF MarksInv
<1>2. UNCHANGED merger => \A b \in Batch, m \in Model : Held(b, m)' = Held(b, m)
  BY DEF Held, MergerHolds
<1>3. CASE LoaderStep
  <2>1. UNCHANGED <<schema, merger>>
    BY <1>3, LoaderLeaves
  <2>2. CASE Still /\ UNCHANGED batchManagerVars
    BY <1>1, <1>2, <2>1, <2>2 DEF batchManagerVars
  <2>3. ASSUME NEW c \in Batch, Takes(c)
        PROVE  MarksInv'
    <3> SUFFICES ASSUME NEW b \in Batch, NEW m \in Model
        PROVE  Handed(b, m)' = IF b \in in_progress'[m] THEN 1 ELSE 0
      BY DEF MarksInv
    <3>1. /\ Unpopped(b, m)' = Unpopped(b, m) /\ Held(b, m)' = Held(b, m)
          /\ GetModelNames' = GetModelNames
          /\ Unprocessed(b)' = IF b = c THEN Unprocessed(b) + 1 ELSE Unprocessed(b)
          /\ in_progress'[m] = IF m \in GetModelNames THEN in_progress[m] \cup {c}
                                                       ELSE in_progress[m]
          /\ c \notin in_progress[m]
      BY <1>2, <2>1, <2>3 DEF Takes, GetModelNames
    <3>2. Handed(b, m)' = IF b = c /\ m \in GetModelNames THEN Handed(b, m) + 1 ELSE Handed(b, m)
      <4>1. /\ Unprocessed(b) \in Nat /\ Unpopped(b, m) \in Nat /\ Held(b, m) \in Nat
        BY <1>0 DEF Places, Held
      <4>2. /\ Handed(b, m) = (IF m \in GetModelNames THEN Unprocessed(b) ELSE 0)
                                + Unpopped(b, m) + Held(b, m)
            /\ Handed(b, m)' = (IF m \in GetModelNames THEN Unprocessed(b)' ELSE 0)
                                 + Unpopped(b, m) + Held(b, m)
        BY <1>0, <3>1 DEF HandedSum
      <4>3. QED
        BY <3>1, <4>1, <4>2
    <3>3. Handed(b, m) = IF b \in in_progress[m] THEN 1 ELSE 0
      BY DEF MarksInv
    <3>4. QED
      BY <3>1, <3>2, <3>3
  <2>4. QED
    BY <1>3, <2>2, <2>3, LoaderFlow
<1>4. ASSUME NEW p \in Processors, ProcessorStep(p)
      PROVE  MarksInv'
  <2>1. UNCHANGED <<schema, in_progress, merger>>
    BY <1>4, ProcessorLeaves
  <2>2. CASE Still
    BY <1>1, <1>2, <2>1, <2>2
  <2>3. ASSUME NEW c \in Batch, Snapshots(c)
        PROVE  MarksInv'
    <3> SUFFICES ASSUME NEW b \in Batch, NEW m \in Model
        PROVE  Handed(b, m)' = Handed(b, m)
      BY <2>1 DEF MarksInv
    <3>1. /\ Held(b, m)' = Held(b, m) /\ GetModelNames' = GetModelNames
          /\ Unprocessed(b)' = IF b = c THEN Unprocessed(b) - 1 ELSE Unprocessed(b)
          /\ Unpopped(b, m)' = IF b = c /\ m \in EnabledModels THEN Unpopped(b, m) + 1
                                                               ELSE Unpopped(b, m)
          /\ Unprocessed(b) \in Nat /\ Unpopped(b, m) \in Nat
      <4>1. Unprocessed(b) \in Nat /\ Unprocessed(b)' \in Nat /\ Unpopped(b, m) \in Nat
        BY <1>0 DEF Places
      <4>2. QED
        BY <1>2, <2>1, <2>3, <4>1 DEF Snapshots, GetModelNames
    <3>2. m \in EnabledModels <=> m \in GetModelNames
      BY DEF EnabledModels, GetModelNames, SchemaInv, InstanceInv, SchemaTypeOK, ModelStatus
    <3>3. Held(b, m) \in Nat
      BY DEF Held
    <3>4. /\ Handed(b, m) = (IF m \in GetModelNames THEN Unprocessed(b) ELSE 0)
                              + Unpopped(b, m) + Held(b, m)
          /\ Handed(b, m)' = (IF m \in GetModelNames THEN Unprocessed(b)' ELSE 0)
                               + Unpopped(b, m)' + Held(b, m)
      BY <1>0, <3>1 DEF HandedSum
    <3>5. QED
      BY <3>1, <3>2, <3>3, <3>4
  <2>4. QED
    BY <1>4, <2>2, <2>3, ProcessorFlow

<1>5. CASE MergerStep
  <2>1. UNCHANGED schema /\ GetModelNames' = GetModelNames
    BY <1>5, MergerLeaves DEF GetModelNames
  <2>2. MergerThread
    BY <1>5 DEF MergerStep
  <2>3. CASE merger.pc \in Idle /\ merger'.pc \in Idle /\ UNCHANGED <<in_progress, merger_queue>>
    <3>1. Still
      BY <1>5, <2>3, MergerFlow DEF Idle
    <3>2. \A b \in Batch, m \in Model : Held(b, m)' = Held(b, m)
      BY <2>3 DEF Idle, Held, MergerHolds
    <3>3. QED
      BY <1>1, <2>1, <2>3, <3>1, <3>2
  <2>4. CASE /\ MergerMerge /\ merger.pc = "merge" /\ merger'.pc = "done"
             /\ merger'.increment = merger.increment /\ UNCHANGED in_progress
    <3>1. Still
      BY <1>5, <2>4, MergerFlow
    <3>2. \A b \in Batch, m \in Model : Held(b, m)' = Held(b, m)
      BY <2>4 DEF Held, MergerHolds
    <3>3. QED
      BY <1>1, <2>1, <2>4, <3>1, <3>2
  <2>5. CASE /\ MergerCallbackCache /\ merger.pc = "cache" /\ merger'.pc = "tasks"
             /\ UNCHANGED in_progress
    <3>1. Still
      BY <1>5, <2>5, MergerFlow
    <3>2. \A b \in Batch, m \in Model : Held(b, m)' = Held(b, m)
      BY <2>5 DEF Held, MergerHolds
    <3>3. QED
      BY <1>1, <2>1, <2>5, <3>1, <3>2
  <2>6. CASE /\ MergerCallbackDone /\ merger.pc = "done" /\ merger'.pc = "cache"
             /\ merger'.increment = merger.increment
    <3>1. Still
      BY <1>5, <2>6, MergerFlow
    <3>2. PICK c \in Batch, k \in Model : c = merger.increment.batch /\ k = merger.increment.model
      BY <2>6 DEF InstanceInv, MergerOK, MergerHoldsIncrement, ModelIncrement
    <3>3. in_progress' = [in_progress EXCEPT ![k] = @ \ {c}]
      BY <2>6, <3>2 DEF MergerCallbackDone, CallbackDone, Done
    <3> SUFFICES ASSUME NEW b \in Batch, NEW m \in Model
        PROVE  Handed(b, m)' = IF b \in in_progress'[m] THEN 1 ELSE 0
      BY DEF MarksInv
    <3>4. Held(b, m)' = 0 /\ Held(b, m) = IF b = c /\ m = k THEN 1 ELSE 0
      BY <2>6, <3>2 DEF Held, MergerHolds
    <3>5. /\ Unprocessed(b)' = Unprocessed(b) /\ Unpopped(b, m)' = Unpopped(b, m)
          /\ Unprocessed(b) \in Nat /\ Unpopped(b, m) \in Nat
      BY <1>0, <3>1 DEF Still, Places
    <3>6. /\ Handed(b, m) = (IF m \in GetModelNames THEN Unprocessed(b) ELSE 0)
                              + Unpopped(b, m) + Held(b, m)
          /\ Handed(b, m)' = (IF m \in GetModelNames THEN Unprocessed(b) ELSE 0)
                              + Unpopped(b, m) + 0
      BY <1>0, <2>1, <3>4, <3>5 DEF HandedSum
    <3>7. Handed(b, m) = IF b \in in_progress[m] THEN 1 ELSE 0
      BY DEF MarksInv
    <3>8. b \in in_progress'[m] <=> (b \in in_progress[m] /\ ~(b = c /\ m = k))
      BY <1>0, <3>3
    <3>9. QED
      BY <3>4, <3>5, <3>6, <3>7, <3>8
  <2>7. CASE /\ MergerPop /\ merger_queue # <<>> /\ merger.pc = "queue" /\ merger'.pc = "merge"
             /\ UNCHANGED in_progress
    <3>1. PICK c \in Batch, k \in Model :
            c = merger'.increment.batch /\ k = merger'.increment.model /\ Pops(c, k)
      <4>1. ~(UNCHANGED merger_queue)
        BY <2>7, HeadTailProperties DEF MergerPop, InstanceInv, MergerOK, MergerTypeOK
      <4>2. QED
        BY <1>5, <4>1, MergerFlow
    <3> SUFFICES ASSUME NEW b \in Batch, NEW m \in Model
        PROVE  Handed(b, m)' = Handed(b, m)
      BY <2>7 DEF MarksInv
    <3>2. Held(b, m) = 0 /\ Held(b, m)' = IF b = c /\ m = k THEN 1 ELSE 0
      BY <2>7, <3>1 DEF Held, MergerHolds
    <3>3. /\ Unprocessed(b)' = Unprocessed(b) /\ Unprocessed(b) \in Nat
          /\ Unpopped(b, m) \in Nat /\ Unpopped(b, m)' \in Nat
          /\ Unpopped(b, m)' = IF b = c /\ m = k THEN Unpopped(b, m) - 1 ELSE Unpopped(b, m)
      <4>1. Unprocessed(b) \in Nat /\ Unpopped(b, m) \in Nat /\ Unpopped(b, m)' \in Nat
        BY <1>0 DEF Places
      <4>2. QED
        BY <3>1, <4>1 DEF Pops
    <3>4. /\ Handed(b, m) = (IF m \in GetModelNames THEN Unprocessed(b) ELSE 0)
                              + Unpopped(b, m) + Held(b, m)
          /\ Handed(b, m)' = (IF m \in GetModelNames THEN Unprocessed(b) ELSE 0)
                              + Unpopped(b, m)' + Held(b, m)'
      BY <1>0, <2>1, <3>3 DEF HandedSum
    <3>5. QED
      BY <3>2, <3>3, <3>4
  <2>8. QED
    BY <1>0, <2>2, <2>3, <2>4, <2>5, <2>6, <2>7, MergerGoes
<1>6. CASE ApiCall \/ ApiThread
  <2>1. Still /\ UNCHANGED merger /\ \A b \in Batch, m \in Model : Held(b, m)' = Held(b, m)
    BY <1>2, <1>6, ApiFlow
  <2>2. CASE UNCHANGED <<schema, in_progress>>
    BY <1>1, <2>1, <2>2
  <2>3. ASSUME IsEverythingProcessed, \A m \in Model : in_progress'[m] = {}
        PROVE  MarksInv'
    <3> SUFFICES ASSUME NEW b \in Batch, NEW m \in Model PROVE Handed(b, m)' = 0
      BY <2>3 DEF MarksInv
    <3>1. Unprocessed(b)' = 0 /\ Unpopped(b, m)' = 0 /\ Held(b, m)' = 0
      BY <2>1, <2>3, NobodyHolds DEF Still
    <3>2. QED
      BY <1>0, <3>1 DEF HandedSum
  <2>4. CASE CreateModelSchema \/ DisposeModelBatches \/ \E m \in DisposableModels : DisposeModel(m)
    <3>1. IsEverythingProcessed
      <4>1. quiet
        BY <2>4, Zenon
        DEF CreateModelSchema, DisposeModelBatches, DisposeModel, At, Call, CalmInv, Disciplined
      <4>2. QED
        BY <4>1 DEF CalmInv, Calm, Drained
    <3>2. \A m \in Model : in_progress'[m] = {}
      <4>1. \A m \in Model : in_progress[m] = {}
        BY <3>1 DEF IsEverythingProcessed
      <4>2. QED
        BY <1>0, <2>4, <4>1, Zenon
        DEF CreateModelSchema, DisposeModelBatches, DisposeModel, ForgetModel, batchManagerVars
    <3>3. QED
      BY <2>3, <3>1, <3>2
  <2>5. CASE \/ Plain \/ AddBatchCall \/ DisposeModelMerger \/ InvokeGeneration \/ InvokeAdd
             \/ WaitPush \/ WaitPull \/ WaitPulled \/ WaitReturn
             \/ \E m \in Model, s \in CreateStatuses : CreateModel(m, s)
             \/ \E n \in IterationCounts : n # 0 /\ InvokeIteration(n)
    <3>1. UNCHANGED <<schema, in_progress>>
      BY <2>5, Zenon
      DEF Plain, AddBatchCall, AddBatch, DisposeModelMerger, InvokeGeneration, InvokeAdd, Add,
          WaitPush, WaitPull, WaitPulled, WaitReturn, CreateModel, InvokeIteration,
          batchManagerVars
    <3>2. QED
      BY <2>2, <3>1
  <2>6. QED
    BY <1>6, <2>4, <2>5, ApiCases
<1>7. CASE UNCHANGED vars
  <2>1. UNCHANGED <<schema, in_progress, loader, processor_queue, merger_queue, processor, merger>>
    BY <1>7 DEF vars, batchManagerVars, dataLoaderVars, mergerVars, processorVars
  <2>2. QED
    BY <1>1, <1>2, <2>1, NothingMoves
<1>8. QED
  BY <1>3, <1>4, <1>5, <1>6, <1>7 DEF Next
===============================================================================
