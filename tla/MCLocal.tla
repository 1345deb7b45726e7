------------------------------- MODULE MCLocal -------------------------------
(* Instances of LocalInstance for TLC. *)
EXTENDS LocalInstanceProps, TLC

\* Schemas that runs start from.
AllEnabled == {[m \in Model |-> "enabled"]}
SecondOnly == {[m \in Model |-> IF m = 1 THEN "absent" ELSE "enabled"]}

\* Nothing distinguishes the processors, for the invariants and the steps.
ProcessorSymmetry == Permutations(Processors)
==============================================================================
