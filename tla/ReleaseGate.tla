----------------------------- MODULE ReleaseGate -----------------------------
(***************************************************************************)
(* The release gate (release_gate.py): the files it reads as evidence, the *)
(* reasons it draws from them and the decision.                            *)
(*                                                                         *)
(* A file is described by the commands whose work is in it.  A command     *)
(* killed while it writes a file leaves a torn one, which json.loads       *)
(* refuses; the storage and verification reports are text, of which the    *)
(* gate asks no more than that they exist.                                 *)
(***************************************************************************)
EXTENDS Naturals, FiniteSets

CONSTANT MaxCommands  \* bound: commands run on one output root

ASSUME GateAssumption == MaxCommands \in Nat

VARIABLES
  file,     \* for each file the commands whose work is in it, {} when absent
  torn,     \* the files a command left incomplete that failed or was killed
  traffic,  \* what the serving metrics say: "good" is below both hold
            \* thresholds, "poor" above one, "null" that of an empty log, an
            \* error rate of 0 and a null p95
  results   \* workflow_results.json: the workflow run and its status

evidence == <<file, torn, traffic, results>>

Ids == 1..MaxCommands

(* JSON evidence besides workflow_results.json, which is file "results" too. *)
JsonEvidence == {"model_metrics", "serving", "drift", "results"}

Present(f) == file[f] # {}
Valid(f) == Present(f) /\ f \notin torn

(* Each member names a branch that appends to holds. *)
Holds ==
  {f \in JsonEvidence : ~Valid(f)}
    \cup (IF Present("storage") THEN {} ELSE {"storage"})
    \cup (IF Valid("serving") /\ traffic = "poor" THEN {"threshold"} ELSE {})
    \cup (IF Valid("results") /\ results.status # "passed" THEN {"workflow"} ELSE {})

(* The two warnings _collect_evidence starts from are never withdrawn, so that
   what the drift metrics and the verification report add to them decides
   nothing; of these only the missing report is kept. *)
Warnings ==
  {"synthetic data", "local API"}
    \cup (IF Present("verification") THEN {} ELSE {"verification"})

(* _evaluate_serving_metrics converts p95_latency_ms with float(), which
   raises TypeError on null. *)
Raises == Valid("serving") /\ traffic = "null"

(* run_release_gate; "error" when it raises and writes nothing. *)
Decide ==
  IF Raises THEN "error"
  ELSE IF Holds # {} THEN "hold"
  ELSE IF Warnings # {} THEN "warn"
  ELSE "pass"
=============================================================================
