# TLA+ models of feature-store-monitoring-ops

This directory holds TLA+ specifications of the program in `src/src/feature_store_monitoring_ops`
(paths below are relative to that package), the TLC configurations that check them on small
instances, and proofs checked by TLAPS. `PROJECT.json` maps every definition to the source lines it
stands for and lists the runs, the mutants that show each property can fail, the hazards and the
theorems.

## 1. The system

The program turns synthetic demand events into offline features, a trained model and an online
feature snapshot, serves predictions from them over FastAPI, logs each prediction, and monitors and
gates the result. Its parts are commands and one server that share **files**; there is no lock, no
rename-into-place and no message queue. Whatever goes wrong goes wrong between two accesses to a
file, a Redis key or a database table.

| Component | State it keeps | Operations | Talks to | What is hard |
|---|---|---|---|---|
| Online snapshot (`storage/online.py`, `features/online.py`, `storage/sync.py`) | `online_features.json`, its manifest | materialize-online-features, sync-storage (json) | the API reads the file at any time | truncate-then-write, kill in between, read-modify-write by sync, overlapping commands |
| Prediction API (`api/app.py`, `api/service.py`, `api/safety.py`) | start-up context, three counters, the id counter | two middlewares, `/predict`, `/features`, `/health`, `/model`, `/metrics` | reads the snapshot, appends to the log | the snapshot is read twice per request, exceptions outside `try`, several requests at the middleware awaits, restarts |
| Telemetry (`monitoring/telemetry.py`, `storage/telemetry.py`) | `prediction_logs.jsonl`, SQLite table | append, reset, read all, upsert, count | several processes append and one removes the log | incomplete lines, ids that restart with each process, sync of a changing log |
| Redis online store (`storage/online.py`) | one key per zone, one index set | put_many, get, all_rows, zone_ids | API and sync as clients | put_many is many commands; kill between SET and SADD; readers in between |
| Demo workflow (`workflow.py`) and release gate (`release_gate.py`, `release_verification.py`) | all artefact files, `workflow_results.json`, the gate reports | twelve stages, two report writes, gate, verify-release | every other component by its files | failures part-way, files that outlive a run, evidence of different runs |
| Relational store (`storage/relational.py`) | four tables, a sync summary | create_schema, replace_all, inspect | reads the files of generate, build and materialize | eight statements in one transaction, reads outside any, schema creation by several at once, the summary after the commit |
| Events and offline features (`synthetic_events.py`, `schema.py`, `features/offline.py`) | none (pure functions over tables) | schedule, build, split | training, workflow | boundaries at small counts, leakage across time |
| Model training (`models/training.py`) | three splits, and a bundle of four files: model, manifest, metrics, report | build-offline-features, train-model | the API and monitor-drift read the files | four files for one result, none written atomically, readers that open them one by one, selection by the right split |
| Monitoring (`monitoring/serving.py`, `monitoring/drift.py`) | two metrics files | monitor-serving, monitor-drift | reads the log, the splits and the features; the gate reads the metrics | percentile index and rates at small counts, null metrics, checks that each see a part only |
| Configuration, CLI, reports | none | parsing and text | - | - |

What makes each component correct:

* **Snapshot.** A command that runs alone to its end leaves a readable file; an unreadable file is
  explained by the command that touched it last; what is served is what was last materialised;
  the manifest describes the file once its command is done.
* **API.** The counters account for every request; every answered prediction request is in the log;
  ids are unique and increase within a process; a zone every snapshot holds is never "unknown"; a
  process that was ready never answers "not ready"; every request is answered.
* **Telemetry.** A row whose append returned is in the file or the file is refused loudly; a sync is
  all or nothing and never moves the table back; it stores fewer rows than it read only when two
  processes used the same ids.
* **Redis.** The index never names a missing row; a row outside the index has one known cause;
  readers see rows appear singly and vanish together. However many `put_many` have met or died,
  one that runs alone leaves exactly its rows, and reads that no writer disturbs are exact.
* **Workflow and gate.** A passed workflow leaves only its own work; its own gate has all evidence;
  the gate does not approve of a mixture unless a command the results file cannot know of (a single
  stage, a killed command) came in between.
* **Relational store.** What is committed is the work of one sync, whole; nobody meets a missing
  table; an inspection no commit disturbs tells of one sync; the summary describes the database
  except where it is known to lag.
* **Training artefacts.** Where the first file of a bundle, or of a set of splits, is the work of
  a run that ended undisturbed, so is the rest; a reader that nothing disturbs reads files of one
  run; the model served is the best on the validation split.
* **Monitoring.** The percentile warns of exactly the tails of more than one request in twenty;
  the gate holds for a majority of failures only, and for nothing the monitor did not warn of; a
  window that raises no warning can be served.
* **Events and offline features.** The schedule is in the order of time; lags, windows and means are
  those the README of the repository describes, computed from earlier events of the same zone only;
  later data change no row; no split is empty and no training row knows of what is held out.

## 2. Modules

| Module | Models | State and actions |
|---|---|---|
| `SnapshotFile` | the snapshot as its readers see it: `Absent`, `Torn` or the rows of one materialisation | `Tear`, `Put` |
| `OnlineSnapshot` | the commands that rewrite it | per command: `StartMaterialise`/`StartSync` (read), `Truncate`, `Write` (the two halves of `write_text`), `ReadBack`, `WriteManifest`/`ReadZoneIds`, `Kill` |
| `PredictionApi` | the server, **composed with** `SnapshotFile` (it EXTENDS it and lets `FileNext` interleave) | `Start` (load_serving_context), `Reject`/`Accept`/`Respond` (middlewares), one action per file access of each endpoint, `Crash` |
| `TelemetrySync` | loggers, the JSONL file, sync to SQLite | `StartLogger`, `WriteRow`, `WriteRowPartly`, `SkipRow`, `EndLogger`; `ClearStore`, `ReadLog`, `CopyRows`, `CountRows`, `KillSync` |
| `OnlineRows` | what a reader of a key-value store may count on (abstract) | `Withdraw`, `Offer` |
| `RedisOnlineStore` | put_many and all_rows, one Redis command per action | `StartPut`, `ListKeys`, `DeleteKeys`, `SetRow`, `AddToIndex`, `KillPut`; `ReadIndex`, `ReadRow` |
| `ReleaseGate` | the gate's evidence, hold reasons and decision | operators only |
| `DemoWorkflow` | every command on one output root, composed with `ReleaseGate` | `Start`, `BeginStage`, `WriteFile`, `EndStage`, `FailStage`, `WriteInterim`, `GateStage`, `WriteFinal`, `WriteVerification`, `RunGate`, `Kill` |
| `SyntheticEvents` | the options of the generator and its schedule | operators only |
| `OfflineFeatures` | generation, feature construction and split as one pipeline, built on `SyntheticEvents` | `Generate`, `GenerateRefused`, `Build`, `SplitAndSave`, `SplitRefused` |
| `RelationalStore` | sync and inspection of the SQLite database, statement by statement, next to the commands that rewrite the files they read | `Truncate`, `Complete`; `ReadFile`, `CheckSchema`, `CreateTable`, `Begin`, `Execute`, `Commit`, `Abandon`, `WriteReport`; `LookSchema`, `LookCreate`, `Select` |
| `ModelArtifacts` | the splits and the model bundle, with the commands that write and read them | `Start`, `Read`, `Truncate` and `Complete` (the two halves of a write), `Kill`; operators `SelectModel`, `Chosen` |
| `Monitoring` | serving metrics, drift warnings, the gate's thresholds, and materialisation of the same window | `AppendRows`, `ResetLog`, `MonitorServing`, `MonitorDrift`, `RunGate`, `Materialize` |
| `MC*` | the instances TLC checks | constants only |
| `OnlineServingProofs` | theorems about both sides of the snapshot: `OnlineSnapshot` and `PredictionApi` | - |
| other `*Proofs` | theorems about the module they name | - |

Two refinements connect them. `OnlineSnapshot` implements `SnapshotFile` (the variable `snapshot`
is the same, the property is `FileSpec`): this is what entitles `PredictionApi` to use the smaller
file model as its environment. `RedisOnlineStore` implements `OnlineRows` under the mapping
`visible <- Visible`, the rows `all_rows` would return if it were one command.

### Abstractions

* Rows are reduced to an age (`as_of_timestamp` seen through the freshness limit), a snapshot to a
  function from zones to rows. Prediction values, names and report texts are left out.
* The event loop runs one endpoint function at a time because these functions contain no `await`
  (`busy`); other processes move between any two of its file accesses. Requests interleave at the
  awaits of `metrics_middleware` and `safety_middleware`.
* `write_text` is two steps, truncate and write; a reader in between gets `ValueError` from
  `json.loads`. Where the write windows of two commands meet, the result may be the later text with
  the tail of a longer earlier one (`mixed`), a nondeterministic choice.
* `append` of a telemetry line may stop short; the next append then continues that line.
* In `DemoWorkflow` a file is the set of the commands whose work is in it: the property is about
  provenance, and every stage passes the provenance of its inputs on to its outputs. A stage that fails, like a
  command that is killed, may leave the file it was writing incomplete (`Interrupted`); the SQLite
  and relational databases are spared, as they are written in transactions. The step that writes
  the interim report chooses whether the workflow has a release gate and whether verify-release
  runs it, since neither makes a difference before.
* In `OfflineFeatures` a column is the positions of the events it is computed from, which is all that
  leakage is about: a lag is a position or NaN, an aggregate a set of positions. `Shift` and
  `Rolling` follow pandas (group, shift, then window, NaN not counted), and the properties compare
  them with the rules stated without groups and shifts. `int(n * fraction)` may fall one short of a
  whole product in binary arithmetic, so `Truncated` allows both. The CSV may be listed backwards,
  since `--input-path` takes any file. Demand values, and with them the columns that depend on one
  event only, are left out. `features` is the frame `build_offline_features` returns; it and the
  three splits become files together, after the split, so that a run which the split refuses leaves
  none. Zone and event names are numbers, which sort like the zero-padded names
  as long as these are not longer than their padding.
* In `RelationalStore` a file or table is the generation it holds. SQLite's driver opens a
  transaction at the first DELETE (which takes the write lock) and none for a SELECT or a CREATE
  TABLE; a connection that waits too long for the lock fails. `create_all` looks for all tables
  before it creates the first. A CSV that is cut short may parse, a parquet or JSON file does not.
  A failing insert and a killed process both end in a rollback (`Abandon`). An insert writes the
  table whole, because its delete has come before in the same transaction.
* In `ModelArtifacts` a file is the command that wrote it. A command reads its files in the order of
  the code and then writes its own; a report nobody reads is left out where it comes last. Fitting
  is scikit-learn's: what each candidate scores on each split is the constant `Mae`, which stands
  for any outcome. Where the write windows of two commands meet, the file may be left unreadable.
* In `Monitoring` each command is one step (`DemoWorkflow`, `TelemetrySync` and `ModelArtifacts` take
  them apart). A feature window has one column for each treatment the code gives a column: zone,
  timestamp, demand feature, other feature, target, event id. The population stability index and the
  mean prediction may come out anywhere (`shifted`, `moved`). The error rate and the
  missing rates are rounded to six digits before they are compared: `Rounded` gives them in
  millionths, and lets what lies halfway go either way. Latencies are rounded when they are logged
  (`monitoring/telemetry.py:174`), so that rounding them again changes nothing.
  `math.ceil(0.95 * n)` is `Ceil95(n)`, with which it agrees for every log shorter than two million
  rows.
* Killing a process is an action at every step of every command.
* Variables marked "history" in a module are read by properties only, never by a guard.

## 3. Runs

Every run finishes in less than three minutes with two workers.

| Run | Instance | Shows |
|---|---|---|
| `snapshot` | 2 zones, 3 sets of rows, 2 materialisations and 1 sync in any overlap | typing; `TornHasCause`; the readable content is that of the last materialisation unless its writers met (`LastMaterialisedIsServed`); manifest and file agree (`ManifestMatchesSnapshot`); the refinement `ImplementsFile`; every command ends (`JobsEnd`) |
| `api` | 2 zones, 2 requests of any kind, 2 lives, key required, stale rows rejected | `MetricsAddUp`, `AnsweredIsLogged`, `IdsIncrease`, `KnownZoneNeverUnknown`, `ReadyNeverLapses`, typing; every accepted request is answered unless the process dies (`RequestsAnswered`) |
| `telemetry_serial` | 2 loggers of 2 requests, 2 syncs one after the other | `LossIsLoud`, `ShortfallIsSharedIds`, `StoreMovesForward`, typing |
| `telemetry_copy` | 2 loggers, 1 sync | **violation** of `SyncCopiesEveryRow`: two processes that append to one log use the same request ids, the upsert keeps one row of each pair |
| `redis_serial` | 2 zones, 3 batches, 3 put_many in turn, 1 reader at any time | `IndexedIsStored`, `OrphanHasCause`, the refinement `ImplementsRows` |
| `redis_overlap` | the same, the put_many in any overlap | `LonePutHeals`, `QuietReadIsWhole` |
| `flow` | any 3 commands on one output root: the workflow, verify-release, the gate, 6 single stages | `PassedIsOwn`, `OwnGateDecides`, `MixedApprovalHasCause` |
| `flow_gate` | 2 commands | **violation** of `GateDecides`: serving metrics of an empty log carry a null p95, on which the gate raises TypeError where the documentation promises a decision |
| `offline` | days of 2 hours of 2 minutes; 9 events or grids of up to 3 days, 2 zones, 0 to 5 slots; 15 pairs of fractions, invalid ones included | `FeaturesFollowTheRules`, `LaterEventsChangeNothing`, `SplitsAreUsable`, `TrainingKnowsNothingHeldOut`, `ScheduleIsChronological` |
| `relational` | 2 syncs, 1 inspection, 2 generations of the files, no table at first | `CommittedIsOneSync`, `StatementsFindTheirTables`, `QuietInspectionIsWhole`, `SummaryLagsOnlyByCrossing` |
| `artifacts` | any 4 of 2 builds, 2 trainings, 1 start of the API, 1 drift check; 3 candidates | `GroupIsWhole`, `QuietReadIsOfOneRun`, `BestIsServed` |
| `monitoring` | logs of 2 to 21 requests of five kinds; windows of up to 2 rows, sound or with one of 8 defects, whole or without one column; 4 reference windows | `SlowTailIsWarned`, `HoldsAreOfTheMany`, `SilenceMeansServable` |

### Bounds, and why they are enough

* **Zones.** One zone that every snapshot holds and one that only some hold: the only distinction
  the lookups make. **Row sets.** Two or three: an old one, a new one, and one of another size.
* **Requests.** Two: one to be inside an endpoint function while another is at a middleware, or one
  on each side of a restart. `MaxLives` 2 gives one restart, hence a log with rows of an earlier
  process and a counter that starts again.
* **Commands.** A damaged state needs one command to cause it, a second to act on it and, for the
  gate, a third to judge the result; each of the modules has that many.
* **Events.** A row needs three earlier events of its zone and one later; nine leave up to five
  rows, hence splits of three, four and five, and room for a second zone. Days as short as four
  minutes let slots divide the day evenly, unevenly and not at all, and let zone-hour groups recur
  on three days. What is beyond the bound is covered by the theorems.
* **Redis.** Three put_many: one that leaves damage, one that meets it or the third, and one that
  runs alone afterwards.
* **`MaxCommands`** 3: a workflow, a command that spoils or replaces part of what it left, and a gate
  that judges the mixture. The single stages of the run are those whose files the gate looks at or
  other stages read; the other stages occur inside the workflow.
* **`MaxStarted`** 4: a build, two trainings that meet, and a reader of what they leave; or two
  builds, a training and a reader. Each writer may be killed at any file access.
* **Log lengths.** 10 and 11 lie around the error thresholds of one in ten and of one half, 19, 20
  and 21 around the percentile's one in twenty. Latencies lie at, above and below both limits.
  `MinPredictions` is 1 in place of the default, so that a short log can satisfy it. The theorems hold
  for every length.
* **Windows.** Two rows are enough for a duplicate, for two zones, and for a later row of one zone.
* **Syncs.** Two, to overlap in every way, and one inspection; two generations of the files, to tell
  an old table from a new one. Both are unbounded in the proofs.
* **MaxRequests** 2 per logger: ids that coincide between processes and ids that do not.
* The run `flow` has a view (`MCView`): of the commands that have ended it keeps their number, on
  which steps depend, and which of them ran a single stage or were killed, which is all that
  `MixedApprovalHasCause` asks of them.
* Symmetry is used where identities are interchangeable (writers, loggers, syncs, trainings) and
  never in a run with a liveness property (`snapshot`, `api`).
* `CHECK_DEADLOCK FALSE` everywhere: each system stops when its bounded supply of commands or
  requests is used up.

### Fairness

* `OnlineSnapshot`: weak fairness of each command's own steps. A started process is scheduled by the
  operating system; its steps wait for nothing. There is none on starting a command or killing one.
* `PredictionApi`: weak fairness of `Endpoint(r)` and `Respond(r)` for each request. The asyncio
  loop runs callbacks in the order in which they became ready, and no endpoint function waits
  for another request. Whether a request arrives, or the process starts or dies, is left open.
* The other modules state no liveness and assume no fairness.

## 4. Proofs

TLAPS proves the following for **every** value of the constants that the named ASSUMEs allow.

| Theorem | Property | Argument |
|---|---|---|
| `OnlineServingProofs!SnapTyping` | `SnapTypeOK` | `SnapInv` = typing plus: a command past its read holds rows of a materialisation |
| `OnlineServingProofs!SnapshotRefinement` | `ImplementsFile` | every step is `Tear`, `Put` or leaves the file; needs from `SnapInv` that a command that writes has truncated before, so that the file exists |
| `OnlineServingProofs!TornIsExplained` | `TornHasCause` | inductive together with `SnapInv` |
| `OnlineServingProofs!ServedIsTheLast` | `LastMaterialisedIsServed` | `ServedInv`: a command that nobody has crossed is alone (`UncrossedIsAlone`), and what a sync has read and is about to write back is what was last materialised |
| `OnlineServingProofs!ManifestIsTheLast` | `ManifestMatchesSnapshot` | `ServedInv` |
| `OnlineServingProofs!ApiTyping` | `ApiTypeOK` | `ApiTyped` = typing plus the file's: the status of a logged outcome exists because a request in phase "logging" has one of the logged outcomes |
| `OnlineServingProofs!IdsAreOrdered` | `IdsIncrease` | `IdInv`: one request at most is inside an endpoint function, its id is the counter, and every row of this life in the log has a smaller one |
| `OnlineServingProofs!KnownZonesAreKnown` | `KnownZoneNeverUnknown` | `ZoneInv`: a request that found no row has met a set of rows without its zone, because a torn file raises; with `RequestInv` (what a request cannot have before the phase it is in) |
| `OnlineServingProofs!ReadinessLasts` | `ReadyNeverLapses` | `RequestInv`: a process whose start-up found the store runs on a root where the file exists, which no writer takes back, and every request in flight is of this life |
| `OnlineServingProofs!AnswersAreLogged` | `AnsweredIsLogged` | `RowInv`: before it is logged a request has no row, afterwards exactly one, which tells its answer; needs `IdInv` for the id |
| `OnlineServingProofs!CountersAddUp` | `MetricsAddUp` | `Counted`: each step changes each of the three sets by one request at most, and its counter alike (cardinalities of finite sets); a start resets both, since the requests of earlier lives are not counted |
| `TelemetrySyncProofs!TelemetryTyping` | `TelTypeOK` | `TelInv`: a torn line is refused by `ReadLog` and so never reaches the rows of a sync; the last row with an id exists because a finite set of places has a greatest member |
| `TelemetrySyncProofs!LossIsNeverSilent` | `LossIsLoud` | a ragged last line is never a kept row, so that only the loss of a torn or partial line can follow from it |
| `TelemetrySyncProofs!ShortfallsAreSharedIds` | `ShortfallIsSharedIds` | under `~Overlap`; `SerialInv`: the log is `Ordered` in time and a run uses an id once (`Apart`) unless a line is torn, and what a sync has copied is in the table; fewer ids than rows means two rows share one (a count over a finite set) |
| `TelemetrySyncProofs!StoredRowsMoveForward` | `StoreMovesForward` | under `~Overlap`, as an action property; `SerialInv`: a stored row is `Followed`, that is a file with rows of its id has one no earlier, and so has the list a sync read; the last of them wins |
| `RedisOnlineStoreProofs!IndexIsBacked` | `IndexedIsStored` | under `~Overlap`; `SerialInv` (one active writer at most) and `PutInv` (what the active writer has deleted, set and still to set) |
| `RedisOnlineStoreProofs!RowsRefinement` | `ImplementsRows` | under `~Overlap`; `DeleteKeys` is `Withdraw`, `AddToIndex` is `Offer`, `SetRow` is invisible because its zone is not in the index |
| `RedisOnlineStoreProofs!OrphansHaveCauses` | `OrphanHasCause` | under `~Overlap`; `SerialInv` and `PutInv`: a new orphan is made by `SetRow` only, and what a put_many deletes first is what the index names |
| `RedisOnlineStoreProofs!LonePutIsWhole` | `LonePutHeals` | any overlap; `LoneInv`: a writer that has met nobody is the only active one, and what it has done so far (`Progress`) is all there is of its zones, whatever was there before |
| `RedisOnlineStoreProofs!QuietReadsAreWhole` | `QuietReadIsWhole` | any overlap; `LoneInv` with `ReadInv`: what an undisturbed reader has collected are the rows still stored |
| `RelationalStoreProofs!RelCommittedIsOneSync` | `CommittedIsOneSync` | `DataInv`: there is one writer at most, and after n statements its transaction has emptied exactly the tables among the first n deletes and filled those among the inserts (`WorkDone`); after eight this makes the work whole (`FinishedIsWhole`) |
| `RelationalStoreProofs!RelStatementsFindTheirTables` | `StatementsFindTheirTables` | `SchemaInv`: while a run creates tables, those it has still to create are the only ones missing |
| `RelationalStoreProofs!RelQuietInspections` | `QuietInspectionIsWhole` | `LookInv`: the database is empty or holds what some sync read (`Sourced`), and an inspection no commit has disturbed has seen exactly what is committed (`Faithful`) |
| `RelationalStoreProofs!RelSummaries` | `SummaryLagsOnlyByCrossing` | `ReportInv`: unless commits have crossed, one sync at most is between commit and summary, and what it read is what the database holds |
| `RelationalStoreProofs!RelTyping` | (`RelTypeOK`) | `SchemaInv`, `DataInv` and `RestInv`: a run that creates tables has one left to create |
| `OfflineFeaturesProofs!GridIsChronological` | `ScheduleIsChronological` | `GridInv`: the CSV holds the events of the options, forwards or backwards; slots fit the day (`SlotsFitTheDay`), and position to minute is monotone by division lemmas (`SlotsInOrder`) |
| `OfflineFeaturesProofs!NoSplitIsEmpty` | the counts behind `SplitsAreUsable` | arithmetic of `Fitted`, for every number of rows from three on, either outcome of the rounding |
| `OfflineFeaturesProofs!RowsAreByTheRules` | `FeaturesFollowTheRules` | `BuiltInv`: the frame is in the order of time and the features are computed from it. Rank within a group and position are in bijection on each group (`RankTaken`, `Positions`), so a shift finds the event that many places before and a window the most recent ones (`ShiftFacts`, `RollingIsRecent`) |
| `OfflineFeaturesProofs!RowsArePointInTime` | `LaterEventsChangeNothing` | ranks below the cut are the same in the frame cut short (`CutGroups`, `CutShift`), hence so is each row (`CutRow`) |
| `OfflineFeaturesProofs!SplitsAreWhole` | `SplitsAreUsable` | `BuiltInv` says which counts the split was made with, `NoSplitIsEmpty` bounds them, `SplitFacts` puts the three stretches together |
| `OfflineFeaturesProofs!TrainingSeesOnlyThePast` | `TrainingKnowsNothingHeldOut` | by `SplitFacts` a held-out row comes later, by `RowFacts` inputs precede their event in the same zone, where minutes are strictly increasing |
| `ModelArtifactsProofs!ArtTyping` | (`ArtTypeOK`) | `BaseInv`: no command is past its last file, a file is the work of a command that has opened it, and an undisturbed command has no active rival |
| `ModelArtifactsProofs!WholeGroups` | `GroupIsWhole` | `GroupInv`: what an undisturbed writer has written so far is its own (`Written`), and once it has ended it is kept until the first file of the group goes (`Kept`) |
| `ModelArtifactsProofs!QuietReads` | `QuietReadIsOfOneRun` | `QuietInv`: the authors of what a quiet reader has seen had ended, the first file stays as seen while it reads, and so `GroupIsWhole` holds of each further file |
| `ModelArtifactsProofs!TheBestIsServed` | `BestIsServed` | `SeenInv`: the splits a training has read are the work of builds. That `SelectModel` returns the first minimum is proved of its closed form (`SelectsFirstBest`), of which the least place where it could differ is refuted; `QuietReads` makes the four files those of one training |
| `MonitoringProofs!SlowTails` | `SlowTailIsWarned` | the percentile exceeds a limit exactly when the requests within it are too few, a count over a finite log, then arithmetic of `Ceil95` |
| `MonitoringProofs!HoldsAreRare` | `HoldsAreOfTheMany` | the same count for the hold limit, which is not below the warning limit (`MonitoringAssumption`); a rounded rate above one half is that of a majority, and a majority of fewer than a million has one (`RoundedMajority`) |
| `MonitoringProofs!SilentWindowsAreServed` | `SilenceMeansServable` | `WindowInv`: warnings and snapshot are computed from the same window. `SilenceSays` lists what each silent check excludes, where a missing rate of nothing means no gap in fewer than a million rows (`RoundedToNothing`); a zone's latest row exists in a finite window (`LatestExists`) and is the only one, for ids and times are then without duplicates |
| `DemoWorkflowProofs!WhatPassedIsItsOwn` | `PassedIsOwn` | `FlowInv`. Each file has a stage after which it is the workflow's own for good (`PlaceOf`); `StageInv` and `WritingInv` say so of every stage and of every file of a stage half-done, `ReportInv` of the results |
| `DemoWorkflowProofs!OwnGatesDecide` | `OwnGateDecides` | `ReportInv`: the gate stage is reached only with results that passed, all files own and a p95 that is not null, which stage 7, the writer of the serving metrics, ensures |
| `DemoWorkflowProofs!MixedApprovalsHaveCauses` | `MixedApprovalHasCause` | `StandingInv`: as long as no single stage and no kill came after the workflow whose results stand, they say "passed" only while every file is its own |

The plain invariants are not inductive by themselves: `IdsIncrease` says nothing of the id that is
taken and not yet logged, `IndexedIsStored` nothing of the zone whose row is set and which is about
to be indexed, `PassedIsOwn` nothing of a workflow half-way and `MixedApprovalHasCause` nothing of
the results a later gate is going to read. The strengthenings add exactly that. `FlowInv`,
the longest of them, holds in all 29.9 million states of the instance of the run `flow`, without its view, too.

The proofs use the ASSUMEs of the modules and, where the table says so, `~Overlap`, which the runs
`redis_serial` and `telemetry_serial` set too. They hold for every value of the bounds `MaxCommands`,
`MaxStarted`, `MaxRequests` and `MaxLives`, for sets of requests, commands and zones of any size, and
for logs and windows of any length (where rounding matters, `HoldsAreOfTheMany` and
`SilenceMeansServable` themselves are restricted to fewer than a million rows); sets whose members are counted, such as zones and
requests, are assumed finite.

Only model-checked: `JobsEnd` and `RequestsAnswered`, since liveness and ENABLED are outside the
prover's reach. Every safety property of a passing run is proved. What a recursive definition
computes for every input would need induction over data, which the prover cannot instantiate: the
one recursive function of the models, `SelectModel`, is a fold to a minimum and so has a closed form
from which the proof starts. `Normalize` and `BuildOffline` state the sorted frame and the list of
rows without gaps by the rank of each element, not by recursion, which leaves them within reach.

## 5. Findings

* `telemetry_copy`: `PredictionTelemetryLogger` numbers from `req_000001` in each process, the log
  goes on across processes, and `SQLitePredictionTelemetryStore` upserts by `request_id`. The sync
  does not copy every row although the report of `storage/sync.py:173` says that it copies the
  telemetry.
* `flow_gate`: `release_gate.py:204` applies `float` to a null `p95_latency_ms`. On an empty log
  the release gate ends with a traceback, whatever else is missing, and writes no decision.

## 6. Not modelled, and why

* Prediction values, the population stability index and the other floating-point statistics, and
  scikit-learn's fitting: their results appear as constants or as free choices.
* The row validation of `schema.py` and the demand formula of `synthetic_events.py`: conditions on
  one row at a time, for which the repository's tests are the better tool.
* Report texts and response bodies, argument parsing, Docker and CI files, the pytest, ruff and
  docker commands of verify-release. `cli.py`, the longest file, is made of these.
* `MemoryOnlineFeatureStore`, a dictionary inside one process, and `storage/config.py`, which chooses
  a backend.
* The text of the storage inspection: it only reads, and its files occur in `DemoWorkflow`.
* PostgreSQL as the relational backend: it locks rows rather than the database, and its DDL is
  transactional.
* Two telemetry syncs on one SQLite file at the same time: the actions allow it (`Overlap`), but the
  properties of the table are stated for one at a time, as the commands and the workflow run them.
  For put_many on one Redis, `IndexedIsStored` and the refinement are stated for one at a time too,
  and `redis_overlap` shows what is left of them when calls meet.
* `stop_on_failure=False` of `run_demo_workflow`, which no caller uses.

## 7. What could follow

* What is left of the telemetry table when two syncs on one SQLite file meet.
* The relational store on PostgreSQL, with snapshot isolation in place of the write lock.
