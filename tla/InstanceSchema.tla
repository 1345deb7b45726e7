--------------------------- MODULE InstanceSchema ---------------------------
(***************************************************************************)
(* core/instance_schema.{h,cc}: the configuration shared by all the        *)
(* threads of an Instance.  Readers take a snapshot (ThreadSafeHolder::get *)
(* returns a shared_ptr to an immutable object); writers publish a         *)
(* modified copy.  Of a ModelConfig only `enabled' matters here; the rest  *)
(* (regularizers, scores, topics) is abstracted away.                      *)
(*                                                                         *)
(* Model names and batch uuids are naturals: std::map and std::set iterate *)
(* over them in increasing order, and that order is observable.            *)
(***************************************************************************)
EXTENDS Naturals, FiniteSetsExt

CONSTANTS Model,               \* model names, alphabetically ordered
          Nil                  \* a null pointer, the empty name, the nil uuid

ASSUME ModelAssumption == Model \subseteq Nat

ASSUME NilAssumption == Nil \notin Nat

VARIABLE schema                \* schema_->get(): models_config_

ModelStatus == {"absent", "enabled", "disabled"}

SchemaTypeOK == schema \in [Model -> ModelStatus]

\* GetModelNames: enabled or not, in the order of the map.
GetModelNames == {m \in Model : schema[m] # "absent"}

EnabledModels == {m \in Model : schema[m] = "enabled"}

\* Instance::CreateOrReconfigureModel's copy-modify-set of the schema.
set_model_config(m, status) ==
  /\ status \in ModelStatus \ {"absent"}
  /\ schema' = [schema EXCEPT ![m] = status]

clear_model_config(m) == schema' = [schema EXCEPT ![m] = "absent"]
=============================================================================
