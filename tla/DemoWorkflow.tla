---------------------------- MODULE DemoWorkflow ----------------------------
(***************************************************************************)
(* The commands that work on one output root, one at a time (workflow.py,  *)
(* cli.py, release_verification.py): run-demo-workflow with and without    *)
(* its release gate, verify-release, release-gate, and the command of each *)
(* stage by itself.  A command advances by one file operation at a time;   *)
(* it may raise, or be killed, before or during each of them.              *)
(*                                                                         *)
(* What a file says is abstracted to where it comes from: the set of the   *)
(* commands whose work is in it.                                           *)
(***************************************************************************)
EXTENDS ReleaseGate, Sequences

CONSTANT Singles  \* the stages that are run by themselves

VARIABLES
  cmd,    \* the command under way
  ended,  \* history: the kind of each command and how it ended
  gate    \* history: the last evaluation of the release gate: the command that
          \* asked, the workflow whose results it read, the decision, and
          \* whether a file was not the work of that workflow alone

flowVars == <<evidence, cmd, ended, gate>>

Files ==
  {"events", "offline", "train", "validation", "test", "model", "model_manifest",
   "model_metrics", "snapshot", "snapshot_manifest", "log", "serving", "drift", "sqlite",
   "storage", "database", "results", "verification"}

(* What the stages leave behind. *)
DataFiles == Files \ {"results", "verification"}

Serving == {"model", "model_manifest", "snapshot", "snapshot_manifest"}

(* A stage: the files it cannot do without, those it reads when they are there
   (a missing log or snapshot reads as no rows, missing model metrics as no
   reference, a missing database is created empty), and the files it writes,
   in this order. *)
StageOf(name, needs, takes, writes) ==
  [name |-> name, needs |-> needs, takes |-> takes, writes |-> writes]

GenerateEvents == StageOf("generate_synthetic_events", {}, {}, <<"events">>)

BuildOffline ==
  StageOf("build_offline_features", {"events"}, {},
          <<"offline", "train", "validation", "test">>)

TrainModel ==
  StageOf("train_model", {"train", "validation", "test"}, {},
          <<"model", "model_manifest", "model_metrics">>)

Materialize ==
  StageOf("materialize_online_features", {"offline"}, {}, <<"snapshot", "snapshot_manifest">>)

SmokeTest == StageOf("api_smoke_test", Serving, {}, <<"log">>)

SimulateTraffic == StageOf("simulate_traffic", Serving, {}, <<"log">>)

MonitorServing == StageOf("monitor_serving", {}, {"log"}, <<"serving">>)

MonitorDrift ==
  StageOf("monitor_drift", {"train", "test"}, {"log", "model_metrics"}, <<"drift">>)

SyncStorage == StageOf("sync_storage", {"snapshot"}, {"log"}, <<"snapshot", "sqlite">>)

InspectStorage == StageOf("inspect_storage", {}, {"snapshot", "sqlite"}, <<"storage">>)

SyncRelational ==
  StageOf("sync_relational_store", {"events", "offline", "snapshot"}, {}, <<"database">>)

InspectRelational == StageOf("inspect_relational_store", {}, {"database"}, << >>)

(* Mutant of StageOrder: the log is monitored before there is traffic. *)
StageOrderMonitorsFirst ==
  <<GenerateEvents, BuildOffline, TrainModel, Materialize, SmokeTest, MonitorServing,
    SimulateTraffic, MonitorDrift, SyncStorage, InspectStorage, SyncRelational,
    InspectRelational>>

(* WORKFLOW_STAGE_ORDER without release_gate. *)
StageOrder ==
  <<GenerateEvents, BuildOffline, TrainModel, Materialize, SmokeTest, SimulateTraffic,
    MonitorServing, MonitorDrift, SyncStorage, InspectStorage, SyncRelational,
    InspectRelational>>

Places == 1..Len(StageOrder)

(* A CSV file cut at the end of a line still parses. *)
Ready(stage) ==
  /\ \A f \in stage.needs : Present(f)
  /\ \A f \in stage.needs \cup stage.takes : f \notin torn \/ f = "events"

(* Mutant of Removes: the workflow's stages build on what is there. *)
RemovesNothing(stage, alone) == {{}}

(* What a stage removes before it does anything else: simulate-traffic by
   itself may be told to append, sync-storage by itself upserts. *)
Removes(stage, alone) ==
  CASE stage = SimulateTraffic -> IF alone THEN {{}, {"log"}} ELSE {{"log"}}
    [] stage = SyncStorage -> IF alone THEN {{}} ELSE {{"sqlite"}}
    [] OTHER -> {{}}

CommandKinds == {"workflow", "ungated", "verify", "single", "release-gate"}

(* The phase is "stage" and "writing" before and after the removal of a
   stage's files, then "interim", "gate", "final", "verification" and "regate";
   left are the files still to be written. *)
NoCommand ==
  [kind |-> "single", phase |-> "idle", at |-> 1, left |-> << >>, failed |-> FALSE]

FlowInit ==
  /\ file = [f \in Files |-> {}]
  /\ torn = {}
  /\ traffic = "null"
  /\ results = [by |-> 0, status |-> "skipped"]
  /\ cmd = NoCommand
  /\ ended = << >>
  /\ gate = [by |-> 0, of |-> 0, decision |-> "none", mixed |-> FALSE]

(* The number of the command under way. *)
Me == Len(ended) + 1

Stage == StageOrder[cmd.at]
Alone == cmd.kind = "single"

EndCommand(how) ==
  /\ cmd' = NoCommand
  /\ ended' = Append(ended, [kind |-> cmd.kind, how |-> how])

Proceed(phase) ==
  /\ cmd' = [cmd EXCEPT !.phase = phase]
  /\ UNCHANGED ended

-----------------------------------------------------------------------------
(* Commands and their stages *)

Start ==
  /\ cmd.phase = "idle"
  /\ Len(ended) < MaxCommands
  /\ \E kind \in {"workflow", "single", "release-gate"}, at \in Places :
       /\ at # 1 => kind = "single"
       /\ kind = "single" => StageOrder[at].name \in Singles
       /\ cmd' = [kind |-> kind, phase |-> IF kind = "release-gate" THEN "regate" ELSE "stage",
                  at |-> at, left |-> << >>, failed |-> FALSE]
  /\ UNCHANGED <<evidence, ended, gate>>

BeginStage ==
  /\ cmd.phase = "stage"
  /\ \E gone \in Removes(Stage, Alone) :
       /\ file' = [f \in Files |-> IF f \in gone THEN {} ELSE file[f]]
       /\ torn' = torn \ gone
  /\ cmd' = [cmd EXCEPT !.phase = "writing", !.left = Stage.writes]
  /\ UNCHANGED <<traffic, results, ended, gate>>

(* The work that goes into what this stage writes. *)
Work == (UNION {file[f] : f \in Stage.needs \cup Stage.takes}) \cup {Me}

(* put_many of sync-storage writes back the rows it has read; the log and the
   SQLite table keep what they hold; anything else is replaced. *)
Written(f) ==
  IF Stage = SyncStorage /\ f = "snapshot" THEN file[f]
  ELSE IF f \in {"log", "sqlite"} THEN file[f] \cup Work
  ELSE Work

(* Appending to a log with an incomplete line does not repair it. *)
Mended(f) == IF f = "log" THEN torn ELSE torn \ {f}

WriteFile ==
  /\ cmd.phase = "writing"
  /\ cmd.left # << >>
  /\ Ready(Stage)
  /\ LET f == Head(cmd.left)
     IN  /\ file' = [file EXCEPT ![f] = Written(f)]
         /\ torn' = Mended(f)
         /\ traffic' \in IF f # "serving" THEN {traffic}
                         ELSE IF Present("log") THEN {"good", "poor"}
                         ELSE {"null"}
  /\ cmd' = [cmd EXCEPT !.left = Tail(@)]
  /\ UNCHANGED <<results, ended, gate>>

EndStage ==
  /\ cmd.phase = "writing"
  /\ cmd.left = << >>
  /\ IF Alone THEN EndCommand("passed")
     ELSE IF cmd.at < Len(StageOrder)
     THEN /\ cmd' = [cmd EXCEPT !.phase = "stage", !.at = @ + 1]
          /\ UNCHANGED ended
     ELSE Proceed("interim")
  /\ UNCHANGED <<evidence, gate>>

(* The file a command is about to write, which may be left incomplete; the
   databases are written in transactions. *)
InHand ==
  CASE cmd.phase = "writing" /\ cmd.left # << >> -> {Head(cmd.left)} \ {"sqlite", "database"}
    [] cmd.phase \in {"interim", "final"} -> {"results"}
    [] cmd.phase = "verification" -> {"verification"}
    [] OTHER -> {}

(* Where a command stops: the file in hand as it was, or incomplete. *)
Interrupted ==
  \E cut \in SUBSET InHand :
    /\ cmd.phase = "writing" /\ cut # {} => Ready(Stage)
    /\ torn' = torn \cup cut
    /\ file' = [f \in Files |-> IF f \in cut THEN file[f] \cup {Me} ELSE file[f]]

(* A stage raises, possibly in the middle of a write: the remaining ones are
   skipped. *)
FailStage ==
  /\ cmd.phase \in {"stage", "writing"}
  /\ Interrupted
  /\ IF Alone THEN EndCommand("failed")
     ELSE /\ cmd' = [cmd EXCEPT !.phase = "interim", !.left = << >>, !.failed = TRUE]
          /\ UNCHANGED ended
  /\ UNCHANGED <<traffic, results, gate>>

-----------------------------------------------------------------------------
(* Reports and the gate *)

(* Mutant of WriteResults: only a workflow that passes reports. *)
WriteResultsOfSuccess(status) ==
  IF status = "passed"
  THEN /\ results' = [by |-> Me, status |-> status]
       /\ file' = [file EXCEPT !["results"] = {Me}]
       /\ torn' = torn \ {"results"}
       /\ UNCHANGED traffic
  ELSE UNCHANGED evidence

WriteResults(status) ==
  /\ results' = [by |-> Me, status |-> status]
  /\ file' = [file EXCEPT !["results"] = {Me}]
  /\ torn' = torn \ {"results"}
  /\ UNCHANGED traffic

(* _write_workflow_reports before the gate, which reads the file.  Whether the
   config has a gate, and whether it was verify-release that called
   run_demo_workflow, makes no difference up to here. *)
WriteInterim ==
  /\ cmd.phase = "interim"
  /\ WriteResults(IF cmd.failed THEN "failed" ELSE "passed")
  /\ \E kind \in {"workflow", "ungated", "verify"} :
       cmd' = [cmd EXCEPT !.kind = kind,
                          !.phase = IF cmd.failed \/ kind = "ungated" THEN "final" ELSE "gate"]
  /\ UNCHANGED <<ended, gate>>

Mixed == \E f \in DataFiles : file[f] # {results.by} \/ f \in torn

Evaluate ==
  gate' = [by |-> Me, of |-> results.by, decision |-> Decide, mixed |-> Mixed]

(* _stage_release_gate: the stage fails when the gate raises, and passes
   whatever the gate decides. *)
GateStage ==
  /\ cmd.phase = "gate"
  /\ Evaluate
  /\ cmd' = [cmd EXCEPT !.phase = "final", !.failed = (Decide = "error")]
  /\ UNCHANGED <<evidence, ended>>

(* DemoWorkflowResult.status: a failed stage first, then a skipped one, which
   without a failure is the gate alone. *)
FinalStatus ==
  IF cmd.failed THEN "failed" ELSE IF cmd.kind = "ungated" THEN "skipped" ELSE "passed"

WriteFinal ==
  /\ cmd.phase = "final"
  /\ WriteResults(FinalStatus)
  /\ IF cmd.kind = "verify" THEN Proceed("verification") ELSE EndCommand(FinalStatus)
  /\ UNCHANGED gate

WriteVerification ==
  /\ cmd.phase = "verification"
  /\ file' = [file EXCEPT !["verification"] = {Me}]
  /\ torn' = torn \ {"verification"}
  /\ Proceed("regate")
  /\ UNCHANGED <<traffic, results, gate>>

(* release-gate, and the end of verify-release: the exit code. *)
RunGate ==
  /\ cmd.phase = "regate"
  /\ Evaluate
  /\ EndCommand(IF Decide \in {"hold", "error"} \/ (cmd.kind = "verify" /\ results.status # "passed")
                THEN "failed" ELSE "passed")
  /\ UNCHANGED evidence

(* The process is killed, or an exception that nothing catches ends it. *)
Kill ==
  /\ cmd.phase # "idle"
  /\ EndCommand("killed")
  /\ Interrupted
  /\ UNCHANGED <<traffic, results, gate>>

FlowNext ==
  \/ Start
  \/ BeginStage
  \/ WriteFile
  \/ EndStage
  \/ FailStage
  \/ WriteInterim
  \/ GateStage
  \/ WriteFinal
  \/ WriteVerification
  \/ RunGate
  \/ Kill

FlowSpec == FlowInit /\ [][FlowNext]_flowVars

-----------------------------------------------------------------------------
(* Properties *)

(* When a workflow was the last command and its results say "passed", every
   file on the output root is its work alone and is complete: nothing of an
   earlier run, killed or failed or not, has found its way in. *)
PassedIsOwn ==
  cmd.phase = "idle" /\ ended # << >> /\ results = [by |-> Len(ended), status |-> "passed"]
    /\ Valid("results") => ~Mixed

(* The gate approves of files that are not all the work of the workflow whose
   results it has read only when a command of one stage, or a command that was
   killed, came in between: a workflow that fails withdraws the approval. *)
MixedApprovalHasCause ==
  gate.decision \in {"pass", "warn"} /\ gate.mixed =>
    \E n \in gate.of + 1 .. gate.by - 1 :
      ended[n].kind = "single" \/ ended[n].how = "killed"

(* The gate inside a workflow finds all its evidence, that of this workflow,
   and can decide: nothing but a threshold makes it hold. *)
OwnGateDecides ==
  cmd.phase = "gate" => ~Raises /\ Holds \subseteq {"threshold"} /\ ~Mixed

(* docs/operations.md:23 "release-gate evaluates existing metrics and writes a
   pass/warn/hold decision", and :58 "hold: required evidence is missing or a
   hard threshold fails". *)
GateDecides == gate.decision # "error"
=============================================================================
