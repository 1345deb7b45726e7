---------------------------- MODULE MCTopicModel ----------------------------
(* A model with two topics and two classes for TLC. *)
EXTENDS ModelUpdates

Tok(class, keyword) == [class_id |-> class, keyword |-> keyword]
Topics(a, b) == [t \in Topic |-> IF t = 1 THEN a ELSE b]

TwoClasses == {<<Tok("text", "a"), Tok("author", "a")>>, <<Tok("text", "b"), Tok("text", "a")>>}
TextOnly == {"text"}
RandomRows == {Topics(1, 2), Topics(2, 1)}
Counters == {Topics(0, 0), Topics(0, 3), Topics(3, 0), Topics(1, 2), Topics(2, 1)}

NoDictionary == [token \in Token |-> ZeroRow]
Reg(type, tau, background) ==
  [type |-> type, tau |-> tau, fits |-> TRUE, background |-> background,
   topics_coefficients |-> Topics(1, 1),
   has_dictionary |-> FALSE, dictionary |-> NoDictionary]

Smoothing == Reg("DirichletPhi", 1, {})
Sparsing == Reg("SmoothSparsePhi", 2, {2})
Misfit == [Sparsing EXCEPT !.fits = FALSE]
ByDictionary == [Sparsing EXCEPT !.has_dictionary = TRUE,
                                 !.dictionary[Tok("text", "a")] = Topics(-3, 1)]
Lists == {<<Sparsing, Smoothing>>, <<ByDictionary, Misfit>>, <<Sparsing, Sparsing>>}

\* The same token twice, the second time with other weights.
Written ==
  {<<[token |-> Tok("author", "a"), n |-> Topics(1, 0), r |-> ZeroRow],
     [token |-> Tok("text", "b"), n |-> Topics(0, 1), r |-> ZeroRow],
     [token |-> Tok("author", "a"), n |-> Topics(0, 2), r |-> ZeroRow]>>}
=============================================================================
