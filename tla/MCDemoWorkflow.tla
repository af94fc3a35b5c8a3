--------------------------- MODULE MCDemoWorkflow ---------------------------
(* DemoWorkflow with commands of a single stage: those whose files the gate
   looks at or other stages read. *)
EXTENDS DemoWorkflow

MCSingles ==
  {"build_offline_features", "train_model", "materialize_online_features",
   "simulate_traffic", "monitor_serving", "sync_storage"}

(* States are told apart by as much of the history as a property asks for: how
   many commands there were, and which of them ran one stage or were killed. *)
Unreported(e) == e.kind = "single" \/ e.how = "killed"
MCView == <<evidence, cmd, [n \in DOMAIN ended |-> Unreported(ended[n])], gate>>
=============================================================================
