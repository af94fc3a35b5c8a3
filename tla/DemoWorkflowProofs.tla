------------------------- MODULE DemoWorkflowProofs -------------------------
(* What holds of the workflow's output root for any number of commands, in any
   order, wherever they raise or are killed. *)
EXTENDS DemoWorkflow, TLAPS

Elements(s) == {s[i] : i \in DOMAIN s}

Once(s) == \A i, j \in DOMAIN s : s[i] = s[j] => i = j

-----------------------------------------------------------------------------
(* The plan of the workflow. *)

(* The stage after which a file is the workflow's own for good: the log of the
   smoke test still goes on from the one before. *)
PlaceOf(f) ==
  IF f = "events" THEN 1
  ELSE IF f \in {"offline", "train", "validation", "test"} THEN 2
  ELSE IF f \in {"model", "model_manifest", "model_metrics"} THEN 3
  ELSE IF f \in {"snapshot", "snapshot_manifest"} THEN 4
  ELSE IF f = "log" THEN 6
  ELSE IF f = "serving" THEN 7
  ELSE IF f = "drift" THEN 8
  ELSE IF f = "sqlite" THEN 9
  ELSE IF f = "storage" THEN 10
  ELSE 11

LEMMA DataFileNames ==
  DataFiles = {"events", "offline", "train", "validation", "test", "model", "model_manifest",
               "model_metrics", "snapshot", "snapshot_manifest", "log", "serving", "drift", "sqlite",
               "storage", "database"}
BY DEF DataFiles, Files

LEMMA StageTable ==
  /\ Len(StageOrder) = 12
  /\ StageOrder[1] = GenerateEvents /\ StageOrder[2] = BuildOffline
  /\ StageOrder[3] = TrainModel /\ StageOrder[4] = Materialize
  /\ StageOrder[5] = SmokeTest /\ StageOrder[6] = SimulateTraffic
  /\ StageOrder[7] = MonitorServing /\ StageOrder[8] = MonitorDrift
  /\ StageOrder[9] = SyncStorage /\ StageOrder[10] = InspectStorage
  /\ StageOrder[11] = SyncRelational /\ StageOrder[12] = InspectRelational
BY DEF StageOrder

(* What a stage reads was settled before it, what it writes is settled by it. *)
FitsAt(stage, i) ==
  /\ stage.needs \cup stage.takes \subseteq DataFiles
  /\ \A f \in stage.needs \cup stage.takes : PlaceOf(f) < i
  /\ stage.writes \in Seq(DataFiles) /\ Once(stage.writes)
  /\ \A f \in Elements(stage.writes) :
       PlaceOf(f) = i \/ (i = 5 /\ f = "log") \/ (i = 9 /\ f = "snapshot")
  /\ \A f \in DataFiles : PlaceOf(f) = i => f \in Elements(stage.writes)
  /\ stage = SyncStorage <=> i = 9
  /\ stage = SimulateTraffic <=> i = 6

LEMMA NamesDiffer ==
  /\ SyncStorage.name = "sync_storage" /\ SimulateTraffic.name = "simulate_traffic"
  /\ SyncStorage # SimulateTraffic
<1>1. SyncStorage.name = "sync_storage" /\ SimulateTraffic.name = "simulate_traffic"
  BY DEF SyncStorage, SimulateTraffic, StageOf
<1>2. QED
  BY <1>1

LEMMA Plan ==
  ASSUME NEW i \in 1..12
  PROVE  FitsAt(StageOrder[i], i)
<1> USE DEF StageOf, PlaceOf, Elements, Once
<1>1. FitsAt(GenerateEvents, 1)
  BY DataFileNames, NamesDiffer DEF FitsAt, GenerateEvents
<1>2. FitsAt(BuildOffline, 2)
  BY DataFileNames, NamesDiffer DEF FitsAt, BuildOffline
<1>3. FitsAt(TrainModel, 3)
  BY DataFileNames, NamesDiffer DEF FitsAt, TrainModel
<1>4. FitsAt(Materialize, 4)
  BY DataFileNames, NamesDiffer DEF FitsAt, Materialize
<1>5. FitsAt(SmokeTest, 5)
  BY DataFileNames, NamesDiffer DEF FitsAt, SmokeTest, Serving
<1>6. FitsAt(SimulateTraffic, 6)
  BY DataFileNames, NamesDiffer DEF FitsAt, SimulateTraffic, Serving
<1>7. FitsAt(MonitorServing, 7)
  BY DataFileNames, NamesDiffer DEF FitsAt, MonitorServing
<1>8. FitsAt(MonitorDrift, 8)
  BY DataFileNames, NamesDiffer DEF FitsAt, MonitorDrift
<1>9. FitsAt(SyncStorage, 9)
  BY DataFileNames, NamesDiffer DEF FitsAt, SyncStorage
<1>10. FitsAt(InspectStorage, 10)
  BY DataFileNames, NamesDiffer DEF FitsAt, InspectStorage
<1>11. FitsAt(SyncRelational, 11)
  BY DataFileNames, NamesDiffer DEF FitsAt, SyncRelational
<1>12. FitsAt(InspectRelational, 12)
  BY DataFileNames, NamesDiffer DEF FitsAt, InspectRelational
<1> QED
  <2> HIDE DEF StageOf, PlaceOf, Elements, Once
  <2>1. i \in {1, 2, 3, 4, 5, 6, 7, 8, 9, 10, 11, 12}
    OBVIOUS
  <2>2. QED
    BY <1>1, <1>2, <1>3, <1>4, <1>5, <1>6, <1>7, <1>8, <1>9, <1>10, <1>11, <1>12, <2>1, StageTable

-----------------------------------------------------------------------------
(* Where a command is, and what is its own by then. *)

Workflows == {"workflow", "ungated", "verify"}

FlowPhases ==
  {"idle", "stage", "writing", "interim", "gate", "final", "verification", "regate"}

Endings == {"passed", "failed", "skipped", "killed"}

FlowTyped ==
  /\ DOMAIN file = Files
  /\ cmd \in [kind : CommandKinds, phase : FlowPhases, at : 1..12, left : Seq(DataFiles),
              failed : BOOLEAN]
  /\ ended \in Seq([kind : CommandKinds, how : Endings])
  /\ results.by \in Nat /\ gate.of \in Nat /\ gate.by \in Nat

PhaseInv ==
  /\ cmd.phase = "idle" => cmd.kind = "single"
  /\ cmd.phase \in {"stage", "writing"} => cmd.kind # "release-gate" /\ ~cmd.failed
  /\ cmd.phase \in {"interim", "final"} => cmd.kind \in Workflows
  /\ cmd.phase = "gate" => cmd.kind \in {"workflow", "verify"} /\ ~cmd.failed
  /\ cmd.phase = "verification" => cmd.kind = "verify"
  /\ cmd.phase = "regate" => cmd.kind \in {"verify", "release-gate"}

Own(f, n) == file[f] = {n} /\ f \notin torn

AllOwn(n) == \A f \in DataFiles : Own(f, n)

Left == Elements(cmd.left)

(* Before a stage of a workflow, what is settled is the workflow's own. *)
StageInv ==
  cmd.phase = "stage" /\ cmd.kind \in Workflows =>
    /\ \A f \in DataFiles : PlaceOf(f) < cmd.at => Own(f, Me)
    /\ cmd.at > 7 => traffic # "null"

(* In a stage, so is what the stage has written; what it adds to, it has
   emptied. *)
WritingInv ==
  cmd.phase = "writing" /\ cmd.kind \in Workflows =>
    /\ Left \subseteq Elements(Stage.writes) /\ Once(cmd.left)
    /\ \A f \in DataFiles :
         PlaceOf(f) < cmd.at \/ (PlaceOf(f) = cmd.at /\ f \notin Left) => Own(f, Me)
    /\ \A f \in Left : f \in {"log", "sqlite"} /\ PlaceOf(f) = cmd.at => file[f] = {} /\ f \notin torn
    /\ cmd.at > 7 \/ (cmd.at = 7 /\ "serving" \notin Left) => traffic # "null"

InterimInv ==
  cmd.phase = "interim" /\ ~cmd.failed => AllOwn(Me) /\ traffic # "null"

(* From its first report on the results are the workflow's; while they say
   "passed", everything is its own. *)
Reported == cmd.kind \in Workflows /\ cmd.phase \in {"gate", "final", "verification", "regate"}

ReportInv ==
  Reported =>
    /\ results.by = Me
    /\ results.status = "passed" => AllOwn(Me)
    /\ cmd.phase = "gate" => results.status = "passed" /\ traffic # "null" /\ Valid("results")
    /\ cmd.phase = "final" /\ ~cmd.failed => AllOwn(Me)

(* A command that may change files and report nothing. *)
Unreported(e) == e.kind = "single" \/ e.how = "killed"

(* Results that say "passed" are of the files that are there until such a
   command comes. *)
Standing ==
  results.status = "passed" /\ ~(\E n \in results.by + 1 .. Len(ended) : Unreported(ended[n]))
    => AllOwn(results.by)

StandingInv ==
  ~Reported =>
    /\ results.by <= Len(ended)
    /\ cmd.phase \in {"idle", "regate"} => Standing

GateInv ==
  /\ gate.by <= Me
  /\ MixedApprovalHasCause

FlowInv ==
  /\ FlowTyped /\ PhaseInv /\ StageInv /\ WritingInv /\ InterimInv
  /\ ReportInv /\ StandingInv /\ GateInv

(* What is written once is not left when it has been written. *)
LEMMA HeadOnce ==
  ASSUME NEW s \in Seq(DataFiles), s # << >>, Once(s)
  PROVE  Once(Tail(s)) /\ Head(s) \notin Elements(Tail(s))
<1>1. /\ 1 \in DOMAIN s /\ s[1] = Head(s)
      /\ \A i \in DOMAIN Tail(s) : i \in Nat \ {0} /\ i + 1 \in DOMAIN s /\ Tail(s)[i] = s[i + 1]
  OBVIOUS
<1>2. \A i \in DOMAIN s, j \in DOMAIN s : s[i] = s[j] => i = j
  BY DEF Once
<1>3. ASSUME NEW i \in DOMAIN Tail(s), NEW j \in DOMAIN Tail(s), Tail(s)[i] = Tail(s)[j]
      PROVE  i = j
  <2>1. i + 1 = j + 1
    BY <1>1, <1>2, <1>3
  <2>2. QED
    BY <1>1, <2>1
<1>4. ASSUME NEW i \in DOMAIN Tail(s)
      PROVE  Tail(s)[i] # Head(s)
  <2>1. i + 1 # 1 /\ i + 1 \in DOMAIN s /\ Tail(s)[i] = s[i + 1]
    BY <1>1
  <2>2. QED
    BY <1>1, <1>2, <2>1
<1>5. QED
  BY <1>3, <1>4 DEF Once, Elements

LEMMA PlaceRange == \A f : PlaceOf(f) \in 1..11
BY DEF PlaceOf

LEMMA CommandFacts ==
  ASSUME FlowTyped
  PROVE  /\ cmd.kind \in CommandKinds /\ cmd.phase \in FlowPhases /\ cmd.at \in 1..12
         /\ cmd.left \in Seq(DataFiles) /\ cmd.failed \in BOOLEAN
         /\ Len(ended) \in Nat /\ Me = Len(ended) + 1
         /\ FitsAt(Stage, cmd.at)
<1>1. cmd.at \in 1..12
  BY DEF FlowTyped
<1>2. FitsAt(Stage, cmd.at)
  BY <1>1, Plan DEF Stage
<1>3. Len(ended) \in Nat
  BY DEF FlowTyped
<1>4. QED
  BY <1>1, <1>2, <1>3 DEF FlowTyped, Me

(* A command ends: the list of those that have ended grows by it. *)
LEMMA EndFacts ==
  ASSUME FlowTyped, NEW how \in Endings, EndCommand(how)
  PROVE  /\ cmd'.phase = "idle" /\ cmd'.kind = "single"
         /\ cmd' \in [kind : CommandKinds, phase : FlowPhases, at : 1..12, left : Seq(DataFiles),
                      failed : BOOLEAN]
         /\ ended' \in Seq([kind : CommandKinds, how : Endings])
         /\ Len(ended') = Me /\ Me' = Me + 1
         /\ ended'[Me].kind = cmd.kind /\ ended'[Me].how = how
         /\ \A n \in 1..Len(ended) : ended'[n] = ended[n]
<1>1. cmd' = [kind |-> "single", phase |-> "idle", at |-> 1, left |-> << >>, failed |-> FALSE]
  BY DEF EndCommand, NoCommand
<1>2. << >> \in Seq(DataFiles)
  OBVIOUS
<1>3. cmd' \in [kind : CommandKinds, phase : FlowPhases, at : 1..12, left : Seq(DataFiles),
                failed : BOOLEAN]
  BY <1>1, <1>2 DEF CommandKinds, FlowPhases
<1> DEFINE e == [kind |-> cmd.kind, how |-> how]
           E == [kind : CommandKinds, how : Endings]
<1>4. e \in E /\ e.kind = cmd.kind /\ e.how = how
  BY CommandFacts
<1>5. ended \in Seq(E) /\ ended' = Append(ended, e)
  BY DEF FlowTyped, EndCommand
<1> HIDE DEF e, E
<1>6. /\ ended' \in Seq(E) /\ Len(ended') = Len(ended) + 1
      /\ ended'[Len(ended) + 1] = e /\ \A n \in 1..Len(ended) : ended'[n] = ended[n]
  BY <1>4, <1>5
<1>7. QED
  BY <1>1, <1>3, <1>4, <1>6 DEF E, Me

(* Whose the data is does not change with the other files. *)
SameData == \A f \in DataFiles : file'[f] = file[f] /\ (f \in torn' <=> f \in torn)

LEMMA SameOwners ==
  ASSUME SameData
  PROVE  /\ \A n, f \in DataFiles : Own(f, n)' <=> Own(f, n)
         /\ \A n : AllOwn(n) => \A f \in DataFiles : file'[f] = {n} /\ f \notin torn'
BY DEF SameData, Own, AllOwn

LEMMA MixedOrOwn == Mixed <=> ~AllOwn(results.by)
BY DEF Mixed, AllOwn, Own

-----------------------------------------------------------------------------
(* The history of the gate. *)

(* Whoever has ended stays where it is in the list. *)
LEMMA GateKept ==
  ASSUME FlowTyped, GateInv, gate' = gate,
         ended' = ended \/ \E how \in Endings : EndCommand(how)
  PROVE  GateInv'
<1>1. /\ Len(ended) \in Nat /\ Me \in Nat /\ Me = Len(ended) + 1
      /\ gate.of \in Nat /\ gate.by \in Nat /\ gate.by <= Me
  BY CommandFacts DEF FlowTyped, GateInv
<1>2. Me' \in {Me, Me + 1} /\ \A n \in 1..Len(ended) : ended'[n] = ended[n]
  BY EndFacts DEF Me
<1>3. ASSUME gate.decision \in {"pass", "warn"}, gate.mixed
      PROVE  \E n \in gate.of + 1 .. gate.by - 1 :
               ended'[n].kind = "single" \/ ended'[n].how = "killed"
  <2>1. PICK n \in gate.of + 1 .. gate.by - 1 : ended[n].kind = "single" \/ ended[n].how = "killed"
    BY <1>3, Zenon DEF GateInv, MixedApprovalHasCause
  <2>2. n \in 1..Len(ended)
    BY <1>1
  <2>3. ended'[n] = ended[n]
    BY <1>2, <2>2
  <2>4. QED
    BY <2>1, <2>3
<1>4. gate'.by <= Me'
  BY <1>1, <1>2
<1>5. MixedApprovalHasCause'
  BY <1>3, Zenon DEF MixedApprovalHasCause
<1>6. QED
  BY <1>4, <1>5 DEF GateInv

(* What the gate approves of is passed results. *)
LEMMA ApprovalOfPassed ==
  ASSUME Decide \in {"pass", "warn"}
  PROVE  results.status = "passed"
<1>1. Decide # "error" /\ Decide # "hold"
  OBVIOUS
<1>2. ~Raises /\ Holds = {}
  BY <1>1 DEF Decide
<1>3. Valid("results")
  BY <1>2 DEF Holds, JsonEvidence
<1>4. QED
  BY <1>2, <1>3 DEF Holds

(* An evaluation of the gate: where it approves of what is mixed, a command
   that reported nothing came in between. *)
LEMMA GateAsked ==
  ASSUME FlowTyped, ReportInv, StandingInv, Evaluate, cmd.phase \in {"gate", "regate"},
         cmd.phase = "gate" => cmd.kind \in Workflows,
         ended' = ended \/ \E how \in Endings : EndCommand(how)
  PROVE  GateInv' /\ gate'.of \in Nat /\ gate'.by \in Nat
<1>1. Len(ended) \in Nat /\ Me \in Nat /\ Me = Len(ended) + 1
  BY CommandFacts
<1>2. Me' \in {Me, Me + 1} /\ \A n \in 1..Len(ended) : ended'[n] = ended[n]
  BY EndFacts DEF Me
<1>3. /\ gate'.by = Me /\ gate'.of = results.by /\ gate'.decision = Decide
      /\ gate'.mixed = Mixed
  BY Zenon DEF Evaluate
<1>4. gate'.by <= Me' /\ results.by \in Nat
  BY <1>1, <1>2, <1>3 DEF FlowTyped
<1>5. ASSUME gate'.decision \in {"pass", "warn"}, gate'.mixed
      PROVE  \E n \in gate'.of + 1 .. gate'.by - 1 :
               ended'[n].kind = "single" \/ ended'[n].how = "killed"
  <2>1. results.status = "passed" /\ ~AllOwn(results.by)
    <3>1. Mixed
      BY <1>3, <1>5, Zenon
    <3>2. Decide \in {"pass", "warn"}
      BY <1>3, <1>5, Zenon
    <3>3. QED
      BY <3>1, <3>2, ApprovalOfPassed, MixedOrOwn
  <2>2. ~Reported
    BY <2>1 DEF ReportInv
  <2>3. Standing
    BY <2>2 DEF StandingInv, Reported
  <2>4. PICK n \in results.by + 1 .. Len(ended) : Unreported(ended[n])
    BY <2>1, <2>3, Zenon DEF Standing
  <2>5. n \in 1..Len(ended) /\ n \in gate'.of + 1 .. gate'.by - 1
    BY <1>1, <1>3, <1>4
  <2>6. ended'[n] = ended[n]
    BY <1>2, <2>5
  <2>7. QED
    BY <2>4, <2>5, <2>6 DEF Unreported
<1>6. MixedApprovalHasCause'
  BY <1>5, Zenon DEF MixedApprovalHasCause
<1>7. QED
  BY <1>1, <1>3, <1>4, <1>6 DEF GateInv

-----------------------------------------------------------------------------
(* The steps. *)

(* After a command has ended only the list of those that ended and the results
   matter. *)
LEMMA EndedInv ==
  ASSUME FlowTyped, NEW how \in Endings, EndCommand(how),
         DOMAIN file' = Files, results'.by \in Nat, gate'.of \in Nat, gate'.by \in Nat,
         GateInv', results'.by <= Me, Standing'
  PROVE  FlowInv'
<1>1. /\ cmd'.phase = "idle" /\ cmd'.kind = "single" /\ Len(ended') = Me
      /\ cmd' \in [kind : CommandKinds, phase : FlowPhases, at : 1..12, left : Seq(DataFiles),
                   failed : BOOLEAN]
      /\ ended' \in Seq([kind : CommandKinds, how : Endings])
  BY EndFacts
<1>2. FlowTyped'
  BY <1>1 DEF FlowTyped
<1>3. PhaseInv' /\ StageInv' /\ WritingInv' /\ InterimInv'
  BY <1>1 DEF PhaseInv, StageInv, WritingInv, InterimInv
<1>4. ~Reported'
  BY <1>1 DEF Reported
<1>5. ReportInv' /\ StandingInv'
  BY <1>1, <1>4 DEF ReportInv, StandingInv
<1>6. QED
  BY <1>2, <1>3, <1>5 DEF FlowInv

(* A command that reported nothing has ended. *)
LEMMA UnreportedEnds ==
  ASSUME FlowTyped, NEW how \in Endings, EndCommand(how), results' = results,
         results.by <= Len(ended), cmd.kind = "single" \/ how = "killed"
  PROVE  results'.by <= Me /\ Standing'
<1>1. /\ Len(ended') = Me /\ ended'[Me].kind = cmd.kind /\ ended'[Me].how = how
  BY EndFacts
<1>2. Unreported(ended'[Me])
  BY <1>1 DEF Unreported
<1>3. Len(ended) \in Nat /\ Me = Len(ended) + 1 /\ results.by \in Nat
  BY CommandFacts DEF FlowTyped
<1>4. Me \in results.by + 1 .. Me /\ results.by <= Me
  BY <1>3
<1>5. \E n \in results'.by + 1 .. Len(ended') : Unreported(ended'[n])
  BY <1>1, <1>2, <1>4
<1>6. QED
  BY <1>4, <1>5 DEF Standing, Unreported

(* A workflow that has reported ends. *)
LEMMA ReportedEnds ==
  ASSUME FlowTyped, results'.by = Me,
         results'.status = "passed" => \A f \in DataFiles : file'[f] = {Me} /\ f \notin torn'
  PROVE  results'.by <= Me /\ Standing'
<1>1. Me \in Nat
  BY CommandFacts
<1>2. results'.status = "passed" => \A f \in DataFiles : file'[f] = {results'.by} /\ f \notin torn'
  OBVIOUS
<1>3. QED
  BY <1>1, <1>2 DEF Standing, AllOwn, Own

(* A command goes on: nobody has ended, and the number of the command stays. *)
LEMMA GoesOn ==
  ASSUME FlowTyped, ended' = ended
  PROVE  Me' = Me /\ Len(ended') = Len(ended)
BY DEF Me

LEMMA StartStep ==
  ASSUME FlowInv, Start
  PROVE  FlowInv'
<1>1. PICK kind \in {"workflow", "single", "release-gate"}, at \in Places :
        /\ at # 1 => kind = "single"
        /\ cmd' = [kind |-> kind, phase |-> IF kind = "release-gate" THEN "regate" ELSE "stage",
                   at |-> at, left |-> << >>, failed |-> FALSE]
  BY DEF Start
<1>2. /\ file' = file /\ torn' = torn /\ traffic' = traffic /\ results' = results
      /\ ended' = ended /\ gate' = gate /\ cmd.phase = "idle"
  BY DEF Start, evidence
<1> DEFINE phase == IF kind = "release-gate" THEN "regate" ELSE "stage"
<1>3. at \in 1..12 /\ << >> \in Seq(DataFiles) /\ phase \in FlowPhases /\ kind \in CommandKinds
  BY StageTable DEF Places, FlowPhases, CommandKinds
<1>4. /\ cmd'.kind = kind /\ cmd'.phase = phase /\ cmd'.at = at /\ cmd'.failed = FALSE
      /\ cmd' \in [kind : CommandKinds, phase : FlowPhases, at : 1..12, left : Seq(DataFiles),
                   failed : BOOLEAN]
  BY <1>1, <1>3
<1>5. FlowTyped'
  BY <1>2, <1>4 DEF FlowInv, FlowTyped
<1>6. PhaseInv'
  BY <1>4 DEF PhaseInv, CommandKinds, Workflows
<1>7. StageInv'
  <2>1. \A f : ~(PlaceOf(f) < 1)
    BY PlaceRange
  <2>2. kind \in Workflows => at = 1
    BY <1>1 DEF Workflows
  <2>3. QED
    BY <1>4, <2>1, <2>2 DEF StageInv
<1>8. WritingInv' /\ InterimInv'
  BY <1>4 DEF WritingInv, InterimInv
<1>9. ~Reported' /\ ~Reported
  BY <1>2, <1>4 DEF Reported, Workflows
<1>10. ReportInv' /\ StandingInv'
  BY <1>2, <1>9 DEF ReportInv, FlowInv, StandingInv, Standing, AllOwn, Own
<1>11. GateInv'
  BY <1>2, GateKept DEF FlowInv
<1>12. QED
  BY <1>5, <1>6, <1>7, <1>8, <1>10, <1>11 DEF FlowInv

(* A command in a stage has not reported. *)
LEMMA InStage ==
  ASSUME FlowInv, cmd.phase \in {"stage", "writing", "interim"}
  PROVE  ~Reported /\ results.by <= Len(ended)
BY DEF FlowInv, StandingInv, Reported

LEMMA BeginStageStep ==
  ASSUME FlowInv, BeginStage
  PROVE  FlowInv'
<1>1. PICK gone \in Removes(Stage, Alone) :
        /\ file' = [f \in Files |-> IF f \in gone THEN {} ELSE file[f]]
        /\ torn' = torn \ gone
  BY DEF BeginStage
<1>2. /\ cmd' = [cmd EXCEPT !.phase = "writing", !.left = Stage.writes]
      /\ traffic' = traffic /\ results' = results /\ ended' = ended /\ gate' = gate
      /\ cmd.phase = "stage"
  BY DEF BeginStage
<1>3. FlowTyped /\ FitsAt(Stage, cmd.at)
  BY CommandFacts DEF FlowInv
<1>4. /\ cmd'.kind = cmd.kind /\ cmd'.phase = "writing" /\ cmd'.at = cmd.at
      /\ cmd'.left = Stage.writes /\ cmd'.failed = cmd.failed
      /\ cmd' \in [kind : CommandKinds, phase : FlowPhases, at : 1..12, left : Seq(DataFiles),
                   failed : BOOLEAN]
  <2> DEFINE writes == Stage.writes
  <2>1. writes \in Seq(DataFiles) /\ "writing" \in FlowPhases
    BY <1>3 DEF FitsAt, FlowPhases
  <2> HIDE DEF writes
  <2>2. cmd' = [cmd EXCEPT !.phase = "writing", !.left = writes]
    BY <1>2 DEF writes
  <2>3. QED
    BY <1>3, <2>1, <2>2 DEF FlowTyped, writes
<1>5. FlowTyped'
  BY <1>1, <1>2, <1>3, <1>4 DEF FlowTyped
<1>6. PhaseInv'
  BY <1>2, <1>4 DEF PhaseInv, FlowInv
<1>7. StageInv' /\ InterimInv'
  BY <1>4 DEF StageInv, InterimInv
<1>8. WritingInv'
  <2>1. SUFFICES ASSUME cmd.kind \in Workflows
                 PROVE  /\ Left' \subseteq Elements(Stage.writes)' /\ Once(cmd'.left)
                        /\ \A f \in DataFiles :
                             PlaceOf(f) < cmd'.at \/ (PlaceOf(f) = cmd'.at /\ f \notin Left')
                               => Own(f, Me)'
                        /\ \A f \in Left' : f \in {"log", "sqlite"} /\ PlaceOf(f) = cmd'.at
                                              => file'[f] = {} /\ f \notin torn'
                        /\ cmd'.at > 7 \/ (cmd'.at = 7 /\ "serving" \notin Left')
                             => traffic' # "null"
    BY <1>4 DEF WritingInv
  <2>2. Left' = Elements(Stage.writes) /\ Stage' = Stage /\ Me' = Me
    BY <1>2, <1>4 DEF Left, Stage, Me
  <2>3. gone = IF cmd.at = 6 THEN {"log"} ELSE IF cmd.at = 9 THEN {"sqlite"} ELSE {}
    <3>1. ~Alone
      BY <2>1 DEF Alone, Workflows
    <3>2. CASE cmd.at = 6
      <4>1. Stage = SimulateTraffic /\ Removes(Stage, Alone) = {{"log"}}
        BY <1>3, <3>1, <3>2, NamesDiffer DEF FitsAt, Removes
      <4>2. QED
        BY <3>2, <4>1
    <3>3. CASE cmd.at = 9
      <4>1. Stage = SyncStorage /\ Stage # SimulateTraffic
        BY <1>3, <3>3 DEF FitsAt
      <4>2. Removes(Stage, Alone) = {{"sqlite"}}
        BY <3>1, <4>1 DEF Removes
      <4>3. QED
        BY <3>3, <4>2
    <3>4. CASE cmd.at \notin {6, 9}
      <4>1. Stage # SyncStorage /\ Stage # SimulateTraffic
        BY <1>3, <3>4 DEF FitsAt
      <4>2. Removes(Stage, Alone) = {{}}
        BY <4>1 DEF Removes
      <4>3. QED
        BY <3>4, <4>2
    <3>5. QED
      BY <3>2, <3>3, <3>4
  <2>4. /\ \A f \in DataFiles : PlaceOf(f) < cmd.at => Own(f, Me)
        /\ cmd.at > 7 => traffic # "null"
    BY <1>2, <2>1 DEF FlowInv, StageInv
  <2>5. DataFiles \subseteq Files /\ PlaceOf("log") = 6 /\ PlaceOf("sqlite") = 9
        /\ PlaceOf("serving") = 7 /\ {"log", "sqlite", "serving"} \subseteq DataFiles
    BY DataFileNames DEF PlaceOf, DataFiles
  <2>6. ASSUME NEW f \in DataFiles,
               PlaceOf(f) < cmd'.at \/ (PlaceOf(f) = cmd'.at /\ f \notin Left')
        PROVE  Own(f, Me)'
    <3>1. PlaceOf(f) < cmd.at
      BY <1>3, <1>4, <2>2, <2>6 DEF FitsAt
    <3>2. f \notin gone
      BY <2>3, <2>5, <3>1
    <3>3. file'[f] = file[f] /\ f \notin torn'
      BY <1>1, <2>4, <2>5, <3>1, <3>2 DEF Own
    <3>4. QED
      BY <2>2, <2>4, <3>1, <3>3 DEF Own
  <2>7. ASSUME NEW f \in Left', f \in {"log", "sqlite"}, PlaceOf(f) = cmd'.at
        PROVE  file'[f] = {} /\ f \notin torn'
    <3>1. f \in gone /\ f \in Files
      BY <1>4, <2>3, <2>5, <2>7
    <3>2. QED
      BY <1>1, <3>1
  <2>8. cmd'.at > 7 \/ (cmd'.at = 7 /\ "serving" \notin Left') => traffic' # "null"
    <3>1. cmd.at = 7 => "serving" \in Left'
      BY <1>3, <2>2, <2>5 DEF FitsAt
    <3>2. QED
      BY <1>2, <1>4, <2>4, <3>1
  <2>9. Left' \subseteq Elements(Stage.writes)' /\ Once(cmd'.left)
    BY <1>3, <1>4, <2>2 DEF FitsAt
  <2>10. QED
    BY <2>6, <2>7, <2>8, <2>9
<1>9. ReportInv' /\ StandingInv'
  <2>1. ~Reported' /\ results.by <= Len(ended)
    BY <1>2, <1>4, InStage DEF Reported
  <2>2. QED
    BY <1>2, <1>4, <2>1 DEF ReportInv, StandingInv
<1>10. GateInv'
  BY <1>2, GateKept DEF FlowInv
<1>11. QED
  BY <1>5, <1>6, <1>7, <1>8, <1>9, <1>10 DEF FlowInv

LEMMA WriteFileStep ==
  ASSUME FlowInv, WriteFile
  PROVE  FlowInv'
<1> DEFINE f == Head(cmd.left)
<1>1. /\ cmd.phase = "writing" /\ cmd.left # << >> /\ Ready(Stage)
      /\ file' = [file EXCEPT ![f] = Written(f)] /\ torn' = Mended(f)
      /\ traffic' \in (IF f # "serving" THEN {traffic}
                       ELSE IF Present("log") THEN {"good", "poor"} ELSE {"null"})
      /\ cmd' = [cmd EXCEPT !.left = Tail(@)]
      /\ results' = results /\ ended' = ended /\ gate' = gate
  BY DEF WriteFile
<1>2. FlowTyped /\ FitsAt(Stage, cmd.at) /\ cmd.left \in Seq(DataFiles)
  BY CommandFacts DEF FlowInv
<1>3. f \in DataFiles /\ f \in Left /\ Left' = Elements(Tail(cmd.left))
      /\ \A x \in Left : x = f \/ x \in Elements(Tail(cmd.left))
  <2> DEFINE s == cmd.left
  <2>1. s \in Seq(DataFiles) /\ s # << >>
    BY <1>1, <1>2
  <2>2. cmd'.left = Tail(s)
    BY <1>1, <1>2 DEF FlowTyped
  <2> HIDE DEF s
  <2>3. /\ Head(s) \in DataFiles /\ 1 \in DOMAIN s /\ s[1] = Head(s)
        /\ \A i \in DOMAIN s : i # 1 => i - 1 \in DOMAIN Tail(s) /\ Tail(s)[i - 1] = s[i]
    BY <2>1
  <2>4. \A x \in Elements(s) : x = Head(s) \/ x \in Elements(Tail(s))
    BY <2>3 DEF Elements
  <2>5. QED
    BY <2>2, <2>3, <2>4 DEF s, Left, Elements
<1>4. Elements(Tail(cmd.left)) \subseteq Left
  <2> DEFINE s == cmd.left
  <2>1. s \in Seq(DataFiles) /\ s # << >>
    BY <1>1, <1>2
  <2> HIDE DEF s
  <2>2. \A i \in DOMAIN Tail(s) : i + 1 \in DOMAIN s /\ Tail(s)[i] = s[i + 1]
    BY <2>1
  <2>3. QED
    BY <2>2 DEF s, Left, Elements
<1>5. /\ cmd'.kind = cmd.kind /\ cmd'.phase = "writing" /\ cmd'.at = cmd.at
      /\ cmd'.failed = cmd.failed
      /\ cmd' \in [kind : CommandKinds, phase : FlowPhases, at : 1..12, left : Seq(DataFiles),
                   failed : BOOLEAN]
  <2> DEFINE s == cmd.left
  <2>1. Tail(s) \in Seq(DataFiles)
    <3>1. s \in Seq(DataFiles) /\ s # << >>
      BY <1>1, <1>2
    <3> HIDE DEF s
    <3>2. QED
      BY <3>1
  <2>2. cmd' = [cmd EXCEPT !.left = Tail(s)]
    BY <1>1
  <2> HIDE DEF s
  <2>3. QED
    BY <1>1, <1>2, <2>1, <2>2 DEF FlowTyped
<1> HIDE DEF f
<1>6. FlowTyped'
  BY <1>1, <1>2, <1>5 DEF FlowTyped
<1>7. PhaseInv' /\ StageInv' /\ InterimInv'
  BY <1>1, <1>5 DEF PhaseInv, FlowInv, StageInv, InterimInv
<1>8. WritingInv'
  <2>1. SUFFICES ASSUME cmd.kind \in Workflows
                 PROVE  /\ Left' \subseteq Elements(Stage.writes)' /\ Once(cmd'.left)
                        /\ \A g \in DataFiles :
                             PlaceOf(g) < cmd'.at \/ (PlaceOf(g) = cmd'.at /\ g \notin Left')
                               => Own(g, Me)'
                        /\ \A g \in Left' : g \in {"log", "sqlite"} /\ PlaceOf(g) = cmd'.at
                                              => file'[g] = {} /\ g \notin torn'
                        /\ cmd'.at > 7 \/ (cmd'.at = 7 /\ "serving" \notin Left')
                             => traffic' # "null"
    BY <1>5 DEF WritingInv
  <2>2. Stage' = Stage /\ Me' = Me
    BY <1>1, <1>5 DEF Stage, Me
  <2>3. /\ Left \subseteq Elements(Stage.writes) /\ Once(cmd.left)
        /\ \A g \in DataFiles :
             PlaceOf(g) < cmd.at \/ (PlaceOf(g) = cmd.at /\ g \notin Left) => Own(g, Me)
        /\ \A g \in Left : g \in {"log", "sqlite"} /\ PlaceOf(g) = cmd.at
                             => file[g] = {} /\ g \notin torn
        /\ cmd.at > 7 \/ (cmd.at = 7 /\ "serving" \notin Left) => traffic # "null"
    BY <1>1, <2>1 DEF FlowInv, WritingInv
  <2>4. Work = {Me}
    <3>1. Stage.needs \cup Stage.takes \subseteq DataFiles
          /\ \A g \in Stage.needs \cup Stage.takes : PlaceOf(g) < cmd.at
      BY <1>2 DEF FitsAt
    <3>2. \A g \in Stage.needs \cup Stage.takes : file[g] = {Me}
      BY <2>3, <3>1 DEF Own
    <3>3. UNION {file[g] : g \in Stage.needs \cup Stage.takes} \subseteq {Me}
      BY <3>2
    <3>4. QED
      BY <3>3 DEF Work
  <2>5. PlaceOf("log") = 6 /\ PlaceOf("sqlite") = 9 /\ PlaceOf("serving") = 7
        /\ PlaceOf("snapshot") = 4 /\ {"log", "sqlite", "serving", "snapshot"} \subseteq DataFiles
        /\ DataFiles \subseteq Files
    BY DataFileNames DEF PlaceOf, DataFiles
  <2>6. PlaceOf(f) = cmd.at \/ (cmd.at = 5 /\ f = "log") \/ (cmd.at = 9 /\ f = "snapshot")
    BY <1>2, <1>3, <2>3 DEF FitsAt
  <2>7. \A g \in DataFiles : g # f => file'[g] = file[g] /\ (g \in torn' => g \in torn)
    BY <1>1 DEF Mended
  <2>8. f # "log" => f \notin torn'
    BY <1>1 DEF Mended
  <2>9. PlaceOf(f) = cmd.at => file'[f] = {Me} /\ f \notin torn'
    <3>1. SUFFICES ASSUME PlaceOf(f) = cmd.at
                   PROVE  file'[f] = {Me} /\ f \notin torn'
      OBVIOUS
    <3>2. file'[f] = Written(f)
      BY <1>1, <1>2, <1>3, <2>5 DEF FlowTyped
    <3>3. ~(Stage = SyncStorage /\ f = "snapshot")
      BY <1>2, <2>5, <3>1 DEF FitsAt
    <3>4. CASE f \in {"log", "sqlite"}
      <4>1. file[f] = {} /\ f \notin torn
        BY <1>3, <2>3, <3>1, <3>4
      <4>2. Written(f) = file[f] \cup Work
        BY <3>3, <3>4 DEF Written
      <4>3. f \notin torn'
        BY <1>1, <4>1 DEF Mended
      <4>4. QED
        BY <2>4, <3>2, <4>1, <4>2, <4>3
    <3>5. CASE f \notin {"log", "sqlite"}
      <4>1. Written(f) = Work
        BY <3>3, <3>5 DEF Written
      <4>2. QED
        BY <2>4, <2>8, <3>2, <3>5, <4>1
    <3>6. QED
      BY <3>4, <3>5
  <2>10. cmd.at = 9 /\ f = "snapshot" => file'[f] = file[f]
    <3>1. SUFFICES ASSUME cmd.at = 9, f = "snapshot"
                   PROVE  file'[f] = file[f]
      OBVIOUS
    <3>2. Stage = SyncStorage
      BY <1>2, <3>1 DEF FitsAt
    <3>3. Written(f) = file[f]
      BY <3>1, <3>2 DEF Written
    <3>4. QED
      BY <1>1, <1>2, <1>3, <2>5, <3>3 DEF FlowTyped
  <2>11. ASSUME NEW g \in DataFiles,
                PlaceOf(g) < cmd'.at \/ (PlaceOf(g) = cmd'.at /\ g \notin Left')
         PROVE  Own(g, Me)'
    <3>1. CASE g = f
      <4>1. CASE PlaceOf(g) = cmd.at
        BY <2>2, <2>9, <3>1, <4>1 DEF Own
      <4>2. CASE PlaceOf(g) < cmd.at
        <5>1. cmd.at = 9 /\ f = "snapshot"
          <6>1. cmd.at \in 1..12 /\ PlaceOf(g) \in 1..11
            BY <1>2, PlaceRange, CommandFacts
          <6>2. QED
            BY <2>5, <2>6, <3>1, <4>2, <6>1
        <5>2. Own(f, Me)
          BY <2>3, <3>1, <4>2
        <5>3. QED
          BY <2>2, <2>8, <2>10, <3>1, <5>1, <5>2 DEF Own
      <4>3. QED
        BY <1>5, <2>11, <4>1, <4>2
    <3>2. CASE g # f
      <4>1. Own(g, Me)
        BY <1>3, <1>5, <2>3, <2>11, <3>2
      <4>2. QED
        BY <2>2, <2>7, <3>2, <4>1 DEF Own
    <3>3. QED
      BY <3>1, <3>2
  <2>12. ASSUME NEW g \in Left', g \in {"log", "sqlite"}, PlaceOf(g) = cmd'.at
         PROVE  file'[g] = {} /\ g \notin torn'
    <3>1. g \in Left /\ g \in Left'
      BY <1>3, <1>4
    <3>2. file[g] = {} /\ g \notin torn
      BY <1>5, <2>3, <2>12, <3>1
    <3>3. g # f
      BY <1>1, <1>2, <1>3, <2>3, <3>1, HeadOnce DEF f
    <3>4. QED
      BY <2>5, <2>7, <2>12, <3>2, <3>3
  <2>13. cmd'.at > 7 \/ (cmd'.at = 7 /\ "serving" \notin Left') => traffic' # "null"
    <3>1. CASE f = "serving"
      <4>1. cmd.at = 7 /\ Own("log", Me)
        BY <2>3, <2>5, <2>6, <3>1
      <4>2. Present("log")
        BY <4>1 DEF Own, Present
      <4>3. QED
        BY <1>1, <3>1, <4>2
    <3>2. CASE f # "serving"
      <4>1. traffic' = traffic
        BY <1>1, <3>2
      <4>2. QED
        BY <1>3, <1>5, <2>3, <3>2, <4>1
    <3>3. QED
      BY <3>1, <3>2
  <2>14. Left' \subseteq Elements(Stage.writes)' /\ Once(cmd'.left)
    <3>1. cmd'.left = Tail(cmd.left)
      BY <1>1, <1>2 DEF FlowTyped
    <3>2. QED
      BY <1>1, <1>2, <1>3, <1>4, <2>2, <2>3, <3>1, HeadOnce
  <2>15. QED
    BY <2>11, <2>12, <2>13, <2>14
<1>9. ReportInv' /\ StandingInv'
  <2>1. ~Reported' /\ results.by <= Len(ended)
    BY <1>1, <1>5, InStage DEF Reported
  <2>2. QED
    BY <1>1, <1>5, <2>1 DEF ReportInv, StandingInv
<1>10. GateInv'
  BY <1>1, <1>2, GateKept DEF FlowInv
<1>11. QED
  BY <1>6, <1>7, <1>8, <1>9, <1>10 DEF FlowInv

LEMMA EndStageStep ==
  ASSUME FlowInv, EndStage
  PROVE  FlowInv'
<1>1. /\ cmd.phase = "writing" /\ cmd.left = << >>
      /\ file' = file /\ torn' = torn /\ traffic' = traffic /\ results' = results /\ gate' = gate
  BY DEF EndStage, evidence
<1>2. FlowTyped /\ ~Reported /\ results.by <= Len(ended) /\ cmd.kind # "release-gate"
  BY <1>1, InStage DEF FlowInv, PhaseInv
<1>3. CASE Alone
  <2>1. EndCommand("passed") /\ "passed" \in Endings /\ cmd.kind = "single"
    BY <1>3 DEF EndStage, Endings, Alone
  <2>2. results'.by <= Me /\ Standing'
    BY <1>1, <1>2, <2>1, UnreportedEnds
  <2>3. GateInv'
    BY <1>1, <1>2, <2>1, GateKept DEF FlowInv
  <2>4. QED
    BY <1>1, <1>2, <2>1, <2>2, <2>3, EndedInv DEF FlowTyped
<1>4. ASSUME ~Alone
      PROVE  /\ cmd.kind \in Workflows
             /\ \A f \in DataFiles : PlaceOf(f) <= cmd.at => Own(f, Me)
             /\ cmd.at >= 7 => traffic # "null"
  <2>1. cmd.kind \in Workflows
    BY <1>2, <1>4, CommandFacts DEF Alone, CommandKinds, Workflows
  <2>2. Left = {}
    BY <1>1 DEF Left, Elements
  <2>3. WritingInv
    BY DEF FlowInv
  <2>4. /\ \A f \in DataFiles : PlaceOf(f) < cmd.at \/ PlaceOf(f) = cmd.at => Own(f, Me)
        /\ cmd.at > 7 \/ cmd.at = 7 => traffic # "null"
    BY <1>1, <2>1, <2>2, <2>3 DEF WritingInv
  <2>5. cmd.at \in 1..12 /\ \A f : PlaceOf(f) \in 1..11
    BY <1>2, CommandFacts, PlaceRange
  <2>6. \A f : PlaceOf(f) <= cmd.at => PlaceOf(f) < cmd.at \/ PlaceOf(f) = cmd.at
    BY <2>5
  <2>7. cmd.at >= 7 => cmd.at > 7 \/ cmd.at = 7
    BY <2>5
  <2>8. QED
    BY <2>1, <2>4, <2>6, <2>7
(* The command goes on in this or the next phase, with the files as they are. *)
<1>5. ASSUME ~Alone, ended' = ended, cmd'.kind = cmd.kind, cmd'.phase \in {"stage", "interim"},
             cmd' \in [kind : CommandKinds, phase : FlowPhases, at : 1..12, left : Seq(DataFiles),
                       failed : BOOLEAN],
             cmd'.failed = cmd.failed, StageInv', InterimInv'
      PROVE  FlowInv'
  <2>1. FlowTyped'
    BY <1>1, <1>2, <1>5 DEF FlowTyped
  <2>2. PhaseInv'
    BY <1>1, <1>4, <1>5 DEF PhaseInv, FlowInv, Workflows
  <2>3. WritingInv' /\ ~Reported'
    BY <1>5 DEF WritingInv, Reported
  <2>4. ReportInv' /\ StandingInv'
    BY <1>1, <1>2, <1>5, <2>3 DEF ReportInv, StandingInv
  <2>5. GateInv'
    BY <1>1, <1>2, <1>5, GateKept DEF FlowInv
  <2>6. QED
    BY <1>5, <2>1, <2>2, <2>3, <2>4, <2>5 DEF FlowInv
<1>6. CASE ~Alone /\ cmd.at < Len(StageOrder)
  <2>1. cmd' = [cmd EXCEPT !.phase = "stage", !.at = @ + 1] /\ ended' = ended
    BY <1>6 DEF EndStage
  <2>2. cmd.at \in 1..12 /\ cmd.at + 1 \in 1..12 /\ "stage" \in FlowPhases
    BY <1>2, <1>6, CommandFacts, StageTable DEF FlowPhases
  <2> DEFINE next == cmd.at + 1
  <2>3. cmd' = [cmd EXCEPT !.phase = "stage", !.at = next]
    BY <2>1
  <2>4. next \in 1..12
    BY <2>2
  <2> HIDE DEF next
  <2>5. /\ cmd'.phase = "stage" /\ cmd'.at = next /\ cmd'.kind = cmd.kind
        /\ cmd'.failed = cmd.failed
        /\ cmd' \in [kind : CommandKinds, phase : FlowPhases, at : 1..12, left : Seq(DataFiles),
                     failed : BOOLEAN]
    BY <1>2, <2>2, <2>3, <2>4 DEF FlowTyped
  <2>6. Me' = Me
    BY <2>1 DEF Me
  <2>7. \A f : PlaceOf(f) < next => PlaceOf(f) <= cmd.at
    <3>1. \A f : PlaceOf(f) \in Nat
      BY PlaceRange
    <3>2. QED
      BY <2>2, <3>1 DEF next
  <2>8. next > 7 => cmd.at >= 7
    BY <2>2 DEF next
  <2>9. StageInv'
    BY <1>1, <1>4, <1>6, <2>5, <2>6, <2>7, <2>8 DEF StageInv, Own
  <2>10. InterimInv'
    BY <2>5 DEF InterimInv
  <2>11. QED
    BY <1>5, <1>6, <2>1, <2>5, <2>9, <2>10
<1>7. CASE ~Alone /\ ~(cmd.at < Len(StageOrder))
  <2>1. cmd' = [cmd EXCEPT !.phase = "interim"] /\ ended' = ended
    BY <1>7 DEF EndStage, Proceed
  <2>2. cmd.at = 12 /\ "interim" \in FlowPhases
    BY <1>2, <1>7, CommandFacts, StageTable DEF FlowPhases
  <2>3. /\ cmd'.phase = "interim" /\ cmd'.kind = cmd.kind /\ cmd'.failed = cmd.failed
        /\ cmd' \in [kind : CommandKinds, phase : FlowPhases, at : 1..12, left : Seq(DataFiles),
                     failed : BOOLEAN]
    BY <1>2, <2>1, <2>2 DEF FlowTyped
  <2>4. Me' = Me
    BY <2>1 DEF Me
  <2>5. \A f : PlaceOf(f) <= cmd.at
    BY <2>2, PlaceRange
  <2>6. (\A f \in DataFiles : Own(f, Me)) /\ traffic # "null"
    BY <1>4, <1>7, <2>2, <2>5
  <2>7. InterimInv'
    BY <1>1, <2>4, <2>6 DEF InterimInv, AllOwn, Own
  <2>8. StageInv'
    BY <2>3 DEF StageInv
  <2>9. QED
    BY <1>5, <1>7, <2>1, <2>3, <2>7, <2>8
<1>8. QED
  BY <1>3, <1>6, <1>7

LEMMA FailStageStep ==
  ASSUME FlowInv, FailStage
  PROVE  FlowInv'
<1>1. /\ cmd.phase \in {"stage", "writing"} /\ Interrupted
      /\ traffic' = traffic /\ results' = results /\ gate' = gate
  BY DEF FailStage
<1>a. DOMAIN file' = Files
  BY <1>1 DEF Interrupted
<1>2. FlowTyped /\ ~Reported /\ results.by <= Len(ended) /\ cmd.kind # "release-gate"
  BY <1>1, InStage DEF FlowInv, PhaseInv
<1>3. CASE Alone
  <2>1. EndCommand("failed") /\ "failed" \in Endings /\ cmd.kind = "single"
    BY <1>3 DEF FailStage, Endings, Alone
  <2>2. results'.by <= Me /\ Standing'
    BY <1>1, <1>2, <2>1, UnreportedEnds
  <2>3. GateInv'
    BY <1>1, <1>2, <2>1, GateKept DEF FlowInv
  <2>4. QED
    BY <1>1, <1>a, <1>2, <2>1, <2>2, <2>3, EndedInv DEF FlowTyped
<1>4. CASE ~Alone
  <2>1. cmd' = [cmd EXCEPT !.phase = "interim", !.left = << >>, !.failed = TRUE] /\ ended' = ended
    BY <1>4 DEF FailStage
  <2>2. cmd.kind \in Workflows
    BY <1>2, <1>4, CommandFacts DEF Alone, CommandKinds, Workflows
  <2>3. << >> \in Seq(DataFiles) /\ "interim" \in FlowPhases
    BY DEF FlowPhases
  <2>4. /\ cmd'.phase = "interim" /\ cmd'.kind = cmd.kind /\ cmd'.failed = TRUE
        /\ cmd' \in [kind : CommandKinds, phase : FlowPhases, at : 1..12, left : Seq(DataFiles),
                     failed : BOOLEAN]
    BY <1>2, <2>1, <2>3 DEF FlowTyped
  <2>5. FlowTyped'
    BY <1>1, <1>a, <1>2, <2>1, <2>4 DEF FlowTyped
  <2>6. PhaseInv' /\ StageInv' /\ WritingInv' /\ InterimInv' /\ ~Reported'
    BY <2>2, <2>4 DEF PhaseInv, StageInv, WritingInv, InterimInv, Reported
  <2>7. ReportInv' /\ StandingInv'
    BY <1>1, <1>2, <2>1, <2>4, <2>6 DEF ReportInv, StandingInv
  <2>8. GateInv'
    BY <1>1, <1>2, <2>1, GateKept DEF FlowInv
  <2>9. QED
    BY <2>5, <2>6, <2>7, <2>8 DEF FlowInv
<1>5. QED
  BY <1>3, <1>4

(* A report touches no data. *)
LEMMA ReportTouchesNoData ==
  ASSUME FlowTyped, NEW status, WriteResults(status)
  PROVE  /\ SameData /\ DOMAIN file' = Files /\ traffic' = traffic
         /\ results'.by = Me /\ results'.status = status
         /\ Valid("results")'
<1>1. /\ results' = [by |-> Me, status |-> status] /\ file' = [file EXCEPT !["results"] = {Me}]
      /\ torn' = torn \ {"results"} /\ traffic' = traffic
  BY DEF WriteResults
<1>2. "results" \notin DataFiles /\ DataFiles \subseteq Files /\ "results" \in Files
  BY DEF DataFiles, Files
<1>3. DOMAIN file = Files
  BY DEF FlowTyped
<1>4. QED
  BY <1>1, <1>2, <1>3 DEF SameData, Valid, Present

LEMMA WriteInterimStep ==
  ASSUME FlowInv, WriteInterim
  PROVE  FlowInv'
<1> DEFINE status == IF cmd.failed THEN "failed" ELSE "passed"
<1>0. PICK kind \in {"workflow", "ungated", "verify"} :
        cmd' = [cmd EXCEPT !.kind = kind,
                           !.phase = IF cmd.failed \/ kind = "ungated" THEN "final" ELSE "gate"]
  BY DEF WriteInterim
<1> DEFINE phase == IF cmd.failed \/ kind = "ungated" THEN "final" ELSE "gate"
<1>1. /\ cmd.phase = "interim" /\ WriteResults(status)
      /\ cmd' = [cmd EXCEPT !.kind = kind, !.phase = phase] /\ ended' = ended /\ gate' = gate
  BY <1>0 DEF WriteInterim
<1>2. FlowTyped /\ kind \in Workflows /\ kind \in CommandKinds /\ cmd.failed \in BOOLEAN
  BY <1>1, CommandFacts DEF FlowInv, Workflows, CommandKinds
<1>3. /\ SameData /\ DOMAIN file' = Files /\ traffic' = traffic
      /\ results'.by = Me /\ results'.status = status /\ Valid("results")'
  BY <1>1, <1>2, ReportTouchesNoData
<1>4. phase \in {"final", "gate"} /\ phase \in FlowPhases
  BY DEF FlowPhases
<1>5. /\ phase = "gate" => ~cmd.failed /\ kind # "ungated"
      /\ status = "passed" => ~cmd.failed
      /\ ~cmd.failed => status = "passed"
  OBVIOUS
<1> HIDE DEF phase, status
<1>6. /\ cmd'.phase = phase /\ cmd'.kind = kind /\ cmd'.failed = cmd.failed
      /\ cmd' \in [kind : CommandKinds, phase : FlowPhases, at : 1..12, left : Seq(DataFiles),
                   failed : BOOLEAN]
  BY <1>1, <1>2, <1>4 DEF FlowTyped
<1>7. Me' = Me /\ Me \in Nat
  BY <1>1, <1>2, CommandFacts DEF Me
<1>8. FlowTyped'
  BY <1>1, <1>2, <1>3, <1>6, <1>7 DEF FlowTyped
<1>9. PhaseInv'
  BY <1>2, <1>4, <1>5, <1>6 DEF PhaseInv, Workflows
<1>10. StageInv' /\ WritingInv' /\ InterimInv' /\ Reported'
  BY <1>2, <1>4, <1>6 DEF StageInv, WritingInv, InterimInv, Reported
<1>11. ~cmd.failed => AllOwn(Me) /\ traffic # "null"
  BY <1>1 DEF FlowInv, InterimInv
<1>12. ~cmd.failed => AllOwn(Me)'
  BY <1>3, <1>7, <1>11, SameOwners DEF AllOwn, Own
<1>13. ReportInv'
  BY <1>3, <1>5, <1>6, <1>7, <1>11, <1>12 DEF ReportInv
<1>14. StandingInv'
  BY <1>10 DEF StandingInv
<1>15. GateInv'
  BY <1>1, <1>2, GateKept DEF FlowInv
<1>16. QED
  BY <1>8, <1>9, <1>10, <1>13, <1>14, <1>15 DEF FlowInv

LEMMA GateStageStep ==
  ASSUME FlowInv, GateStage
  PROVE  FlowInv'
<1> DEFINE fails == (Decide = "error")
<1>1. /\ cmd.phase = "gate" /\ Evaluate /\ cmd' = [cmd EXCEPT !.phase = "final", !.failed = fails]
      /\ file' = file /\ torn' = torn /\ traffic' = traffic /\ results' = results
      /\ ended' = ended
  BY DEF GateStage, evidence
<1>2. FlowTyped /\ cmd.kind \in {"workflow", "verify"} /\ cmd.kind \in Workflows
  BY <1>1 DEF FlowInv, PhaseInv, Workflows
<1>3. fails \in BOOLEAN /\ "final" \in FlowPhases
  BY DEF FlowPhases
<1> HIDE DEF fails
<1>4. /\ cmd'.phase = "final" /\ cmd'.kind = cmd.kind
      /\ cmd' \in [kind : CommandKinds, phase : FlowPhases, at : 1..12, left : Seq(DataFiles),
                   failed : BOOLEAN]
  BY <1>1, <1>2, <1>3 DEF FlowTyped
<1>5. Me' = Me
  BY <1>1 DEF Me
<1>6. GateInv' /\ gate'.of \in Nat /\ gate'.by \in Nat
  BY <1>1, <1>2, GateAsked DEF FlowInv
<1>7. FlowTyped'
  BY <1>1, <1>2, <1>4, <1>6 DEF FlowTyped
<1>8. PhaseInv' /\ StageInv' /\ WritingInv' /\ InterimInv' /\ Reported'
  BY <1>2, <1>4 DEF PhaseInv, StageInv, WritingInv, InterimInv, Reported
<1>9. results.by = Me /\ AllOwn(Me)
  BY <1>1, <1>2 DEF FlowInv, ReportInv, Reported
<1>10. ReportInv' /\ StandingInv'
  BY <1>1, <1>4, <1>5, <1>8, <1>9 DEF ReportInv, StandingInv, AllOwn, Own
<1>11. QED
  BY <1>6, <1>7, <1>8, <1>10 DEF FlowInv

LEMMA WriteFinalStep ==
  ASSUME FlowInv, WriteFinal
  PROVE  FlowInv'
<1>1. /\ cmd.phase = "final" /\ WriteResults(FinalStatus) /\ gate' = gate
      /\ IF cmd.kind = "verify" THEN Proceed("verification") ELSE EndCommand(FinalStatus)
  BY DEF WriteFinal
<1>2. FlowTyped /\ cmd.kind \in Workflows /\ cmd.failed \in BOOLEAN /\ Me \in Nat
  BY <1>1, CommandFacts DEF FlowInv, PhaseInv
<1>3. /\ SameData /\ DOMAIN file' = Files /\ traffic' = traffic
      /\ results'.by = Me /\ results'.status = FinalStatus
  BY <1>1, <1>2, ReportTouchesNoData
<1>4. FinalStatus = "passed" => AllOwn(Me)
  <2>1. FinalStatus = "passed" => ~cmd.failed
    BY DEF FinalStatus
  <2>2. QED
    BY <1>1, <1>2, <2>1 DEF FlowInv, ReportInv, Reported
<1>5. FinalStatus = "passed" => \A f \in DataFiles : file'[f] = {Me} /\ f \notin torn'
  BY <1>3, <1>4, SameOwners
<1>6. CASE cmd.kind = "verify"
  <2>1. cmd' = [cmd EXCEPT !.phase = "verification"] /\ ended' = ended
    BY <1>1, <1>6 DEF Proceed
  <2>2. "verification" \in FlowPhases
    BY DEF FlowPhases
  <2>3. /\ cmd'.phase = "verification" /\ cmd'.kind = cmd.kind
        /\ cmd' \in [kind : CommandKinds, phase : FlowPhases, at : 1..12, left : Seq(DataFiles),
                     failed : BOOLEAN]
    BY <1>2, <2>1, <2>2 DEF FlowTyped
  <2>4. Me' = Me
    BY <2>1 DEF Me
  <2>5. FlowTyped'
    BY <1>1, <1>2, <1>3, <2>1, <2>3 DEF FlowTyped
  <2>6. PhaseInv' /\ StageInv' /\ WritingInv' /\ InterimInv' /\ Reported'
    BY <1>2, <1>6, <2>3 DEF PhaseInv, StageInv, WritingInv, InterimInv, Reported
  <2>7. ReportInv' /\ StandingInv'
    BY <1>3, <1>5, <2>3, <2>4, <2>6 DEF ReportInv, StandingInv, AllOwn, Own
  <2>8. GateInv'
    BY <1>1, <1>2, <2>1, GateKept DEF FlowInv
  <2>9. QED
    BY <2>5, <2>6, <2>7, <2>8 DEF FlowInv
<1>7. CASE cmd.kind # "verify"
  <2>1. EndCommand(FinalStatus) /\ FinalStatus \in Endings
    BY <1>1, <1>7 DEF FinalStatus, Endings
  <2>2. results'.by <= Me /\ Standing'
    BY <1>2, <1>3, <1>5, ReportedEnds
  <2>3. GateInv'
    BY <1>1, <1>2, <2>1, GateKept DEF FlowInv
  <2>4. gate'.of \in Nat /\ gate'.by \in Nat /\ results'.by \in Nat
    BY <1>1, <1>2, <1>3 DEF FlowTyped
  <2>5. QED
    BY <1>2, <1>3, <2>1, <2>2, <2>3, <2>4, EndedInv
<1>8. QED
  BY <1>6, <1>7

LEMMA WriteVerificationStep ==
  ASSUME FlowInv, WriteVerification
  PROVE  FlowInv'
<1>1. /\ cmd.phase = "verification" /\ file' = [file EXCEPT !["verification"] = {Me}]
      /\ torn' = torn \ {"verification"} /\ cmd' = [cmd EXCEPT !.phase = "regate"]
      /\ traffic' = traffic /\ results' = results /\ ended' = ended /\ gate' = gate
  BY DEF WriteVerification, Proceed
<1>2. FlowTyped /\ cmd.kind = "verify" /\ cmd.kind \in Workflows
  BY <1>1 DEF FlowInv, PhaseInv, Workflows
<1>3. "regate" \in FlowPhases /\ "verification" \notin DataFiles /\ DataFiles \subseteq Files
  BY DEF FlowPhases, DataFiles
<1>4. /\ cmd'.phase = "regate" /\ cmd'.kind = cmd.kind
      /\ cmd' \in [kind : CommandKinds, phase : FlowPhases, at : 1..12, left : Seq(DataFiles),
                   failed : BOOLEAN]
  BY <1>1, <1>2, <1>3 DEF FlowTyped
<1>5. Me' = Me
  BY <1>1 DEF Me
<1>6. FlowTyped' /\ SameData
  BY <1>1, <1>2, <1>3, <1>4 DEF FlowTyped, SameData
<1>7. PhaseInv' /\ StageInv' /\ WritingInv' /\ InterimInv' /\ Reported' /\ Reported
  BY <1>1, <1>2, <1>4 DEF PhaseInv, StageInv, WritingInv, InterimInv, Reported
<1>8. results.by = Me /\ (results.status = "passed" => AllOwn(Me))
  BY <1>7 DEF FlowInv, ReportInv
<1>9. ReportInv' /\ StandingInv'
  BY <1>1, <1>4, <1>5, <1>6, <1>7, <1>8, SameOwners DEF ReportInv, StandingInv, AllOwn, Own
<1>10. GateInv'
  BY <1>1, <1>2, GateKept DEF FlowInv
<1>11. QED
  BY <1>6, <1>7, <1>9, <1>10 DEF FlowInv

(* A command that may not have reported, and has written nothing, ends. *)
LEMMA NothingWrittenEnds ==
  ASSUME FlowTyped, NEW how \in Endings, EndCommand(how), file' = file, torn' = torn,
         results' = results, results.by <= Len(ended), Standing
  PROVE  results'.by <= Me /\ Standing'
<1>1. Len(ended') = Me /\ \A n \in 1..Len(ended) : ended'[n] = ended[n]
  BY EndFacts
<1>2. Len(ended) \in Nat /\ Me = Len(ended) + 1 /\ results.by \in Nat
  BY CommandFacts DEF FlowTyped
<1>3. ASSUME ~(\E n \in results.by + 1 .. Me : Unreported(ended'[n]))
      PROVE  ~(\E n \in results.by + 1 .. Len(ended) : Unreported(ended[n]))
  <2>1. ASSUME NEW n \in results.by + 1 .. Len(ended)
        PROVE  ~Unreported(ended[n])
    <3>1. n \in 1..Len(ended) /\ n \in results.by + 1 .. Me
      BY <1>2
    <3>2. ended'[n] = ended[n]
      BY <1>1, <3>1
    <3>3. QED
      BY <1>3, <3>1, <3>2
  <2>2. QED
    BY <2>1
<1>4. ASSUME results.status = "passed",
             ~(\E n \in results'.by + 1 .. Len(ended') :
                 ended'[n].kind = "single" \/ ended'[n].how = "killed")
      PROVE  \A f \in DataFiles : file'[f] = {results'.by} /\ f \notin torn'
  <2>1. ~(\E n \in results.by + 1 .. Me : Unreported(ended'[n]))
    BY <1>1, <1>4 DEF Unreported
  <2>2. AllOwn(results.by)
    BY <1>3, <1>4, <2>1 DEF Standing
  <2>3. QED
    BY <2>2 DEF AllOwn, Own
<1>5. Standing'
  BY <1>4, Zenon DEF Standing, Unreported, AllOwn, Own
<1>6. QED
  BY <1>2, <1>5

LEMMA RunGateStep ==
  ASSUME FlowInv, RunGate
  PROVE  FlowInv'
<1>1. /\ cmd.phase = "regate" /\ Evaluate
      /\ file' = file /\ torn' = torn /\ traffic' = traffic /\ results' = results
  BY DEF RunGate, evidence
<1>2. PICK how \in {"failed", "passed"} : EndCommand(how)
  BY DEF RunGate
<1>3. FlowTyped /\ how \in Endings /\ cmd.kind \in {"verify", "release-gate"} /\ Me \in Nat
  BY <1>1, CommandFacts DEF FlowInv, PhaseInv, Endings
<1>4. GateInv' /\ gate'.of \in Nat /\ gate'.by \in Nat
  BY <1>1, <1>2, <1>3, GateAsked DEF FlowInv
<1>5. CASE cmd.kind = "verify"
  <2>1. results.by = Me /\ (results.status = "passed" => AllOwn(Me))
    BY <1>1, <1>5 DEF FlowInv, ReportInv, Reported, Workflows
  <2>2. results'.status = "passed" => \A f \in DataFiles : file'[f] = {Me} /\ f \notin torn'
    BY <1>1, <2>1 DEF AllOwn, Own
  <2>3. results'.by <= Me /\ Standing'
    BY <1>1, <1>3, <2>1, <2>2, ReportedEnds
  <2>4. QED
    BY <1>1, <1>2, <1>3, <1>4, <2>3, EndedInv DEF FlowTyped
<1>6. CASE cmd.kind = "release-gate"
  <2>1. ~Reported
    BY <1>6 DEF Reported, Workflows
  <2>2. results.by <= Len(ended) /\ Standing
    BY <1>1, <2>1 DEF FlowInv, StandingInv
  <2>3. results'.by <= Me /\ Standing'
    BY <1>1, <1>2, <1>3, <2>2, NothingWrittenEnds
  <2>4. QED
    BY <1>1, <1>2, <1>3, <1>4, <2>3, EndedInv DEF FlowTyped
<1>7. QED
  BY <1>3, <1>5, <1>6

LEMMA KillStep ==
  ASSUME FlowInv, Kill
  PROVE  FlowInv'
<1>1. PICK cut \in SUBSET InHand :
        /\ torn' = torn \cup cut
        /\ file' = [f \in Files |-> IF f \in cut THEN file[f] \cup {Me} ELSE file[f]]
  BY DEF Kill, Interrupted
<1>2. /\ cmd.phase # "idle" /\ EndCommand("killed") /\ "killed" \in Endings
      /\ traffic' = traffic /\ results' = results /\ gate' = gate
  BY DEF Kill, Endings
<1>3. FlowTyped /\ Me \in Nat
  BY CommandFacts DEF FlowInv
<1>4. GateInv'
  BY <1>2, <1>3, GateKept DEF FlowInv
<1>5. results'.by <= Me /\ Standing'
  <2>1. CASE ~Reported
    <3>1. results.by <= Len(ended)
      BY <2>1 DEF FlowInv, StandingInv
    <3>2. QED
      BY <1>2, <1>3, <3>1, UnreportedEnds
  <2>2. CASE Reported
    <3>1. results.by = Me /\ (results.status = "passed" => AllOwn(Me))
      BY <2>2 DEF FlowInv, ReportInv
    <3>2. InHand \subseteq {"results", "verification"}
      <4>1. cmd.phase \in {"gate", "final", "verification", "regate"}
        BY <2>2 DEF Reported
      <4>2. QED
        BY <4>1 DEF InHand
    <3>3. DataFiles \subseteq Files /\ "results" \notin DataFiles /\ "verification" \notin DataFiles
      BY DEF DataFiles
    <3>4. \A f \in DataFiles : file'[f] = file[f] /\ (f \in torn' => f \in torn)
      BY <1>1, <3>2, <3>3
    <3>5. results'.status = "passed" => \A f \in DataFiles : file'[f] = {Me} /\ f \notin torn'
      BY <1>2, <3>1, <3>4 DEF AllOwn, Own
    <3>6. QED
      BY <1>2, <1>3, <3>1, <3>5, ReportedEnds
  <2>3. QED
    BY <2>1, <2>2
<1>6. DOMAIN file' = Files /\ results'.by \in Nat /\ gate'.of \in Nat /\ gate'.by \in Nat
  BY <1>1, <1>2, <1>3 DEF FlowTyped
<1>7. QED
  BY <1>2, <1>3, <1>4, <1>5, <1>6, EndedInv

-----------------------------------------------------------------------------
(* The theorems. *)

LEMMA FlowInitInv == FlowInit => FlowInv
<1> SUFFICES ASSUME FlowInit
             PROVE  FlowInv
  OBVIOUS
<1>1. /\ file = [f \in Files |-> {}] /\ results = [by |-> 0, status |-> "skipped"]
      /\ ended = << >> /\ gate = [by |-> 0, of |-> 0, decision |-> "none", mixed |-> FALSE]
      /\ cmd = [kind |-> "single", phase |-> "idle", at |-> 1, left |-> << >>, failed |-> FALSE]
  BY DEF FlowInit, NoCommand
<1>2. /\ cmd.phase = "idle" /\ cmd.kind = "single" /\ Len(ended) = 0 /\ Me = 1
      /\ results.by = 0 /\ results.status = "skipped"
      /\ gate.by = 0 /\ gate.of = 0 /\ gate.decision = "none"
  BY <1>1 DEF Me
<1>3. << >> \in Seq(DataFiles) /\ << >> \in Seq([kind : CommandKinds, how : Endings])
  OBVIOUS
<1>4. FlowTyped
  BY <1>1, <1>2, <1>3 DEF FlowTyped, CommandKinds, FlowPhases
<1>5. PhaseInv /\ StageInv /\ WritingInv /\ InterimInv /\ ~Reported
  BY <1>2 DEF PhaseInv, StageInv, WritingInv, InterimInv, Reported
<1>6. ReportInv /\ StandingInv
  BY <1>2, <1>5 DEF ReportInv, StandingInv, Standing
<1>7. GateInv
  BY <1>2 DEF GateInv, MixedApprovalHasCause
<1>8. QED
  BY <1>4, <1>5, <1>6, <1>7 DEF FlowInv

LEMMA FlowStepInv == FlowInv /\ [FlowNext]_flowVars => FlowInv'
<1>1. ASSUME FlowInv, UNCHANGED flowVars
      PROVE  FlowInv'
  <2>1. /\ file' = file /\ torn' = torn /\ traffic' = traffic /\ results' = results
        /\ cmd' = cmd /\ ended' = ended /\ gate' = gate
    BY <1>1 DEF flowVars, evidence
  <2>2. FlowTyped' /\ PhaseInv'
    BY <1>1, <2>1 DEF FlowInv, FlowTyped, PhaseInv
  <2>3. StageInv' /\ WritingInv' /\ InterimInv'
    BY <1>1, <2>1 DEF FlowInv, StageInv, WritingInv, InterimInv, Left, Stage, Own, AllOwn, Me
  <2>4. ReportInv' /\ StandingInv'
    BY <1>1, <2>1 DEF FlowInv, ReportInv, StandingInv, Standing, Reported, AllOwn, Own, Me, Valid,
                      Present
  <2>5. GateInv'
    BY <1>1, <2>1, GateKept DEF FlowInv
  <2>6. QED
    BY <2>2, <2>3, <2>4, <2>5 DEF FlowInv
<1>2. QED
  BY <1>1, StartStep, BeginStageStep, WriteFileStep, EndStageStep, FailStageStep,
     WriteInterimStep, GateStageStep, WriteFinalStep, WriteVerificationStep, RunGateStep,
     KillStep DEF FlowNext

(* PassedIsOwn: when a workflow was the last command and its results say
   "passed", every file on the output root is its work alone and complete. *)
THEOREM WhatPassedIsItsOwn == FlowSpec => []PassedIsOwn
<1>1. FlowInv => PassedIsOwn
  <2>1. SUFFICES ASSUME FlowInv, cmd.phase = "idle",
                        results = [by |-> Len(ended), status |-> "passed"]
                 PROVE  ~Mixed
    BY DEF PassedIsOwn
  <2>2. results.by = Len(ended) /\ results.status = "passed" /\ Len(ended) \in Nat
    BY <2>1, CommandFacts DEF FlowInv
  <2>3. ~Reported
    BY <2>1 DEF Reported
  <2>4. Standing
    BY <2>1, <2>3 DEF FlowInv, StandingInv
  <2>5. results.by + 1 .. Len(ended) = {}
    BY <2>2
  <2>6. AllOwn(results.by)
    BY <2>2, <2>4, <2>5 DEF Standing
  <2>7. QED
    BY <2>6, MixedOrOwn
<1>2. QED
  BY FlowInitInv, FlowStepInv, <1>1, PTL DEF FlowSpec

(* OwnGateDecides: the gate inside a workflow finds all its evidence, that of
   this workflow, and can decide: only a threshold makes it hold. *)
THEOREM OwnGatesDecide == FlowSpec => []OwnGateDecides
<1>1. FlowInv => OwnGateDecides
  <2>1. SUFFICES ASSUME FlowInv, cmd.phase = "gate"
                 PROVE  ~Raises /\ Holds \subseteq {"threshold"} /\ ~Mixed
    BY DEF OwnGateDecides
  <2>2. Reported
    BY <2>1 DEF FlowInv, PhaseInv, Reported, Workflows
  <2>3. /\ results.by = Me /\ AllOwn(Me) /\ results.status = "passed"
        /\ traffic # "null" /\ Valid("results")
    BY <2>1, <2>2 DEF FlowInv, ReportInv
  <2>4. \A f \in DataFiles : Valid(f)
    BY <2>3 DEF AllOwn, Own, Valid, Present
  <2>5. {"model_metrics", "serving", "drift", "storage"} \subseteq DataFiles
    BY DataFileNames
  <2>6. (\A f \in JsonEvidence : Valid(f)) /\ Present("storage")
    BY <2>3, <2>4, <2>5 DEF JsonEvidence, Valid
  <2>7. Holds \subseteq {"threshold"}
    BY <2>3, <2>6 DEF Holds
  <2>8. QED
    BY <2>3, <2>7, MixedOrOwn DEF Raises
<1>2. QED
  BY FlowInitInv, FlowStepInv, <1>1, PTL DEF FlowSpec

(* MixedApprovalHasCause: the gate approves of files that are not all the work
   of the workflow whose results it has read only when a command of one stage,
   or one that was killed, came in between. *)
THEOREM MixedApprovalsHaveCauses == FlowSpec => []MixedApprovalHasCause
<1>1. FlowInv => MixedApprovalHasCause
  BY DEF FlowInv, GateInv
<1>2. QED
  BY FlowInitInv, FlowStepInv, <1>1, PTL DEF FlowSpec
=============================================================================
