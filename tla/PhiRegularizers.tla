-------------------------- MODULE PhiRegularizers --------------------------
(***************************************************************************)
(* Regularizers of Phi that only read the configuration                    *)
(* (regularizer_sandbox/dirichlet_phi.cc, smooth_sparse_phi.cc), and       *)
(* Merger::InvokePhiRegularizers, which applies the list of a model to a   *)
(* copy of it.  DecorrelatorPhi computes with quotients and is left out.   *)
(***************************************************************************)
EXTENDS TopicModel

\* A configured regularizer.  dictionary gives every token a coefficient per
\* topic, 0 to a token it does not list; has_dictionary: it is named and exists.
\* fits: the parameters match the number of topics.
Regularizer ==
  [type : {"DirichletPhi", "SmoothSparsePhi"}, tau : Int, fits : BOOLEAN,
   background : SUBSET Topic, topics_coefficients : Row,
   has_dictionary : BOOLEAN, dictionary : [Token -> Row]]

DirichletPhiValue(reg, token, t) ==
  reg.tau * (IF reg.has_dictionary THEN reg.dictionary[token][t] ELSE 1)

\* With a dictionary the objective topics lose their minus sign.
SmoothSparsePhiValue(reg, token, t) ==
  IF reg.has_dictionary
  THEN reg.tau * reg.dictionary[token][t]
         * (IF t \in reg.background THEN 1 ELSE reg.topics_coefficients[t])
  ELSE reg.tau * (IF t \in reg.background THEN 1 ELSE -reg.topics_coefficients[t])

Value(reg, token) ==
  [t \in Topic |-> IF reg.type = "DirichletPhi" THEN DirichletPhiValue(reg, token, t)
                   ELSE SmoothSparsePhiValue(reg, token, t)]

Increased(model, reg) ==
  LET increased[i \in 0..token_size(model)] ==
        IF i = 0 THEN model
        ELSE IncreaseRegularizerWeight(increased[i - 1], i,
                                       Value(reg, model.token_id_to_token[i]))
  IN increased

\* A regularizer with wrong parameters returns false and changes nothing.
RegularizePhi(model, reg) ==
  IF reg.fits THEN Increased(model, reg)[token_size(model)] ELSE model

Regularized(model, regs) ==
  LET regularized[i \in 0..Len(regs)] ==
        IF i = 0 THEN model ELSE RegularizePhi(regularized[i - 1], regs[i])
  IN regularized
=============================================================================
