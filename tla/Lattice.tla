------------------------------ MODULE Lattice ------------------------------
(***************************************************************************)
(* The partial orders of uses and of model classes, declared as data.      *)
(***************************************************************************)

UseTypes == {"training", "fine_tuning", "rag_retrieval", "human_reference",
             "synthesis"}

USE_TYPE_CONTAINMENT ==
  [training        |-> UseTypes \ {"synthesis"},
   fine_tuning     |-> {"fine_tuning", "rag_retrieval", "human_reference"},
   rag_retrieval   |-> {"rag_retrieval", "human_reference"},
   human_reference |-> {"human_reference"},
   synthesis       |-> {"synthesis"}]

is_use_type_contained(granted, requested) ==
  requested \in USE_TYPE_CONTAINMENT[granted]

ModelClasses == {"all_models", "open_weights", "proprietary_frontier"}

MODEL_CLASS_CONTAINMENT ==
  [all_models           |-> ModelClasses,
   open_weights         |-> {"open_weights"},
   proprietary_frontier |-> {"proprietary_frontier"}]

is_model_class_contained(granted, requested) ==
  requested \in MODEL_CLASS_CONTAINMENT[granted]
=============================================================================
