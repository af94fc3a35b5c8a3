--------------------------- MODULE ModelArtifacts ---------------------------
(***************************************************************************)
(* The files that carry a model from the features to the server: the       *)
(* splits build-offline-features writes (features/offline.py), the model,  *)
(* manifest, metrics and report train-model writes (models/training.py),   *)
(* and who reads them: train-model itself, the start of the API            *)
(* (api/service.py) and monitor-drift (monitoring/drift.py).               *)
(*                                                                         *)
(* Every command first reads and then writes, one file after another; each *)
(* is a process of its own, so its file accesses interleave with those of  *)
(* the others, and it may be killed between any two of them.  A file is    *)
(* described by the command that wrote it.                                 *)
(***************************************************************************)
EXTENDS Naturals, Sequences, FiniteSets

CONSTANTS
  Builds,      \* runs of build-offline-features
  Trainings,   \* runs of train-model
  Loads,       \* starts of the API
  Checks,      \* runs of monitor-drift
  Absent,      \* no such file
  Torn,        \* a file that no reader can parse
  MaxStarted,  \* bound: commands started in one behaviour
  Candidates,  \* the names create_model_candidates lists, in its order
  Mae          \* Mae[i, b, s, c]: what candidate i, trained on the train split
               \* of build b, scores on split s of build c, rounded

Commands == Builds \cup Trainings \cup Loads \cup Checks

ASSUME ArtifactsAssumption ==
  /\ Builds \cap Trainings = {}
  /\ (Builds \cup Trainings) \cap (Loads \cup Checks) = {}
  /\ Loads \cap Checks = {}
  /\ Absent \notin Commands /\ Torn \notin Commands /\ Absent # Torn
  /\ Candidates \in Seq(STRING) /\ Candidates # << >>
  /\ Mae \in [(DOMAIN Candidates) \X Builds \X {"validation", "test"} \X Builds -> Nat]

VARIABLES
  file,   \* who wrote each file
  cmd     \* the state of each command

artVars == <<file, cmd>>

Splits == {"train", "validation", "test"}
Bundle == {"model", "manifest", "metrics", "report"}
Files == {"offline"} \cup Splits \cup Bundle

(* Mutant of Writes: the file that readers take for the mark of its group is
   the last of it. *)
WritesMarkLast(c) ==
  IF c \in Builds THEN <<"offline", "validation", "test", "train">>
  ELSE IF c \in Trainings THEN <<"manifest", "metrics", "report", "model">>
  ELSE << >>

(* build_and_save_offline_features, train_and_evaluate_models. *)
Writes(c) ==
  IF c \in Builds THEN <<"offline", "train", "validation", "test">>
  ELSE IF c \in Trainings THEN <<"model", "manifest", "metrics", "report">>
  ELSE << >>

(* load_feature_splits, load_serving_context, monitor_drift. *)
Reads(c) ==
  IF c \in Trainings THEN <<"train", "validation", "test">>
  ELSE IF c \in Loads THEN <<"model", "manifest">>
  ELSE IF c \in Checks THEN <<"train", "test", "metrics">>
  ELSE << >>

Elements(s) == {s[i] : i \in DOMAIN s}

(* pc is "idle", "read" and "write" before the next access of that kind,
   "open" while the next file is truncated and not yet written; at counts the
   accesses of that kind that are done.  disturbed is history: a command that
   writes what this one uses was under way at the same time.  mixed: another
   write window on the same file met this one. *)
Phases == {"idle", "read", "write", "open", "done", "failed", "killed"}

Contents == Commands \cup {Absent, Torn}

CommandState ==
  [pc : Phases, at : Nat, seen : [Files -> Contents], disturbed : BOOLEAN, mixed : BOOLEAN]

ArtTypeOK ==
  /\ file \in [Files -> Contents]
  /\ cmd \in [Commands -> CommandState]

Nothing == [f \in Files |-> Absent]

(* What a process knows is gone with it. *)
Ended(how) == [pc |-> how, at |-> 0, seen |-> Nothing, disturbed |-> FALSE, mixed |-> FALSE]

ArtInit ==
  /\ file = Nothing
  /\ cmd = [c \in Commands |-> Ended("idle")]

-----------------------------------------------------------------------------
Active(c) == cmd[c].pc \in {"read", "write", "open"}

Disturbs(c, d) == Elements(Writes(c)) \cap (Elements(Reads(d)) \cup Elements(Writes(d))) # {}

(* The command starts; from here on it and those under way disturb each
   other. *)
Start(c) ==
  /\ cmd[c].pc = "idle"
  /\ Cardinality({d \in Commands : cmd[d].pc # "idle"}) < MaxStarted
  /\ cmd' = [d \in Commands |->
               IF d = c
               THEN [cmd[c] EXCEPT !.pc = IF c \in Builds THEN "write" ELSE "read",
                                   !.disturbed = \E e \in Commands : Active(e) /\ Disturbs(e, c)]
               ELSE IF Active(d) /\ Disturbs(c, d) THEN [cmd[d] EXCEPT !.disturbed = TRUE]
               ELSE cmd[d]]
  /\ UNCHANGED file

(* What ends a command when it reads f: a missing or torn split, a torn
   metrics file; without a metrics file monitor_drift has no reference and
   goes on.  The start of the API records what is missing or unreadable. *)
Unusable(c, f) ==
  /\ c \notin Loads
  /\ file[f] = Torn \/ (file[f] = Absent /\ f # "metrics")

After(c, n) ==
  IF n < Len(Reads(c)) THEN "read" ELSE IF Writes(c) # << >> THEN "write" ELSE "done"

Read(c) ==
  /\ cmd[c].pc = "read"
  /\ LET n == cmd[c].at + 1
         f == Reads(c)[n]
     IN  cmd' = [cmd EXCEPT ![c] =
                   IF Unusable(c, f) THEN Ended("failed")
                   ELSE [@ EXCEPT !.seen[f] = file[f], !.pc = After(c, n),
                                  !.at = IF n < Len(Reads(c)) THEN n ELSE 0]]
  /\ UNCHANGED file

NextFile(c) == Writes(c)[cmd[c].at + 1]

Opened(c, f) == cmd[c].pc = "open" /\ NextFile(c) = f

(* to_parquet, joblib.dump and write_text open the file and truncate it. *)
Truncate(c) ==
  /\ cmd[c].pc = "write"
  /\ file' = [file EXCEPT ![NextFile(c)] = Torn]
  /\ LET others == {d \in Commands : Opened(d, NextFile(c))}
     IN  cmd' = [d \in Commands |->
                   IF d = c THEN [cmd[c] EXCEPT !.pc = "open", !.mixed = (others # {})]
                   ELSE IF d \in others THEN [cmd[d] EXCEPT !.mixed = TRUE]
                   ELSE cmd[d]]

(* The contents reach the file; where windows met, the tail of the other's
   may stay behind them. *)
Complete(c) ==
  /\ cmd[c].pc = "open"
  /\ \/ file' = [file EXCEPT ![NextFile(c)] = c]
     \/ cmd[c].mixed /\ file' = [file EXCEPT ![NextFile(c)] = Torn]
  /\ cmd' = [cmd EXCEPT ![c].at = @ + 1, ![c].mixed = FALSE,
                        ![c].pc = IF cmd[c].at + 1 = Len(Writes(c)) THEN "done" ELSE "write"]

(* The process is killed, or a write raises. *)
Kill(c) ==
  /\ Active(c)
  /\ cmd' = [cmd EXCEPT ![c] = Ended("killed")]
  /\ UNCHANGED file

Step(c) == Start(c) \/ Read(c) \/ Truncate(c) \/ Complete(c) \/ Kill(c)

ArtNext == \E c \in Commands : Step(c)

ArtSpec == ArtInit /\ [][ArtNext]_artVars

-----------------------------------------------------------------------------
(* Model selection *)

(* select_model_from_validation_metrics: min over a dictionary in the order of
   the candidates. *)
SelectModel(scores) ==
  LET best[n \in DOMAIN scores] ==
        IF n = 1 THEN 1 ELSE IF scores[n] < scores[best[n - 1]] THEN n ELSE best[n - 1]
  IN  best[Len(scores)]

Scores(t, split) ==
  [i \in DOMAIN Candidates |-> Mae[i, cmd[t].seen["train"], split, cmd[t].seen[split]]]

(* Mutant of Chosen: the candidates compete on the test split. *)
ChosenOnTest(t) == SelectModel(Scores(t, "test"))

(* What training t fits, saves and names in its manifest. *)
Chosen(t) == SelectModel(Scores(t, "validation"))

-----------------------------------------------------------------------------
(* Properties *)

(* A command that ran to its end, with nobody writing what it uses. *)
Trusted(c) == cmd[c].pc = "done" /\ ~cmd[c].disturbed

HasRead(c) == cmd[c].pc \in {"write", "open", "done"}

(* The first file of a group is the mark of all of them, although none is
   written atomically and commands are killed between any two: where the model
   (the train split) is the work of a run that ended and that nobody disturbed,
   the rest of the bundle (of the splits) is the work of that run. *)
GroupIsWhole ==
  /\ \A t \in Trainings :
       Trusted(t) /\ file["model"] = t => \A f \in Bundle : file[f] = t
  /\ \A b \in Builds :
       Trusted(b) /\ file["train"] = b => \A f \in Splits : file[f] = b

(* Who reads undisturbed, and finds the mark of a run that ended undisturbed,
   has read files of that run alone: no model is trained on one build and
   tested on another (whose test window may be its own training data), no
   server names another model than the one it loaded, no drift is measured
   between two builds. *)
QuietReadIsOfOneRun ==
  \A c \in Commands :
    HasRead(c) /\ ~cmd[c].disturbed =>
      /\ \A f \in Elements(Reads(c)) \cap Splits :
           cmd[c].seen["train"] \in Builds /\ Trusted(cmd[c].seen["train"])
             => cmd[c].seen[f] = cmd[c].seen["train"]
      /\ \A f \in Elements(Reads(c)) \cap {"model", "manifest"} :
           cmd[c].seen["model"] \in Trainings /\ Trusted(cmd[c].seen["model"])
             => cmd[c].seen[f] = cmd[c].seen["model"]

(* The model a server that loaded undisturbed predicts with, and names, is the
   first of those with the least error on the validation split its training
   saw, whatever the errors on the test split. *)
BestIsServed ==
  \A c \in Loads :
    LET t == cmd[c].seen["manifest"] IN
    Trusted(c) /\ cmd[c].seen["model"] \in Trainings /\ Trusted(cmd[c].seen["model"]) =>
      /\ t = cmd[c].seen["model"]
      /\ LET errors == Scores(t, "validation")
         IN  \A i \in DOMAIN Candidates :
               /\ errors[Chosen(t)] <= errors[i]
               /\ i < Chosen(t) => errors[Chosen(t)] < errors[i]
=============================================================================
