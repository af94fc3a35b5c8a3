--------------------------- MODULE OnlineSnapshot ---------------------------
(***************************************************************************)
(* The commands that rewrite the JSON online feature snapshot:             *)
(* materialize-online-features (features/online.py) and sync-storage with  *)
(* its default json backend (storage/sync.py, storage/online.py).  Each is *)
(* a process of its own, so its file operations interleave with those of   *)
(* the others.                                                             *)
(***************************************************************************)
EXTENDS SnapshotFile

CONSTANTS
  Materialisers,  \* runs of materialize-online-features
  Syncers         \* runs of sync-storage with the default json backend

ASSUME JobAssumption ==
  /\ Materialisers \cap Syncers = {}
  /\ Absent \notin Materialisers \cup Syncers

Jobs == Materialisers \cup Syncers

VARIABLES
  manifest,  \* row_count of the online feature manifest, or Absent
  job,       \* the state of each command
  toucher,   \* history: the last command that truncated or wrote the file
  putter     \* history: the last materialize that wrote the file

snapVars == <<snapshot, manifest, job, toucher, putter>>

(* pc names the last thing the command did.  "idle" has not started; "read"
   holds rows in memory; "truncated" has opened the file for writing;
   "written" has closed it; "checked" has read it back.  A command killed at
   some point keeps its pc with live = FALSE; one whose call raised is
   "failed".  Two histories: mixed, that another command's write window met
   its own, and crossed, that another command was under way beside it. *)
Steps == {"idle", "read", "truncated", "written", "checked", "done", "failed"}

JobState ==
  [pc : Steps, live : BOOLEAN, rows : Materialisable \cup {Absent},
   mixed : BOOLEAN, crossed : BOOLEAN]

SnapTypeOK ==
  /\ FileTypeOK
  /\ manifest \in Nat \cup {Absent}
  /\ job \in [Jobs -> JobState]
  /\ toucher \in Jobs \cup {Absent}
  /\ putter \in Materialisers \cup {Absent}

SnapInit ==
  /\ FileInit
  /\ manifest = Absent
  /\ job = [j \in Jobs |-> [pc |-> "idle", live |-> TRUE, rows |-> Absent,
                            mixed |-> FALSE, crossed |-> FALSE]]
  /\ toucher = Absent
  /\ putter = Absent

RowCount(rows) == Cardinality({z \in Zones : rows[z] # NoRow})

Active(j) == job[j].live /\ job[j].pc \notin {"idle", "done", "failed"}

Writing(j) == job[j].live /\ job[j].pc = "truncated"

Advance(j, pc) == job' = [job EXCEPT ![j].pc = pc]

MayStart(j) == job[j].pc = "idle" /\ job[j].live

(* j has rows in memory and is under way; it crosses the commands that are. *)
Begin(j, rows) ==
  LET meets == \E k \in Jobs \ {j} : Active(k)
  IN  job' = [k \in Jobs |->
                IF k = j
                THEN [job[j] EXCEPT !.pc = "read", !.rows = rows, !.crossed = meets]
                ELSE IF Active(k) THEN [job[k] EXCEPT !.crossed = TRUE]
                ELSE job[k]]

(* materialize_online_features: read the offline features and select the
   latest row of each zone. *)
StartMaterialise(j) ==
  /\ j \in Materialisers
  /\ MayStart(j)
  /\ \E rows \in Materialisable : Begin(j, rows)
  /\ UNCHANGED <<snapshot, manifest, toucher, putter>>

(* Mutant of StartSync: neither existence nor content of the file is checked. *)
StartSyncUnchecked(j) ==
  /\ j \in Syncers
  /\ MayStart(j)
  /\ Begin(j, snapshot)
  /\ UNCHANGED <<snapshot, manifest, toucher, putter>>

(* Mutant of StartSync: the rows come from somewhere else than the snapshot. *)
StartSyncFromElsewhere(j) ==
  /\ j \in Syncers
  /\ MayStart(j)
  /\ Readable
  /\ \E rows \in Materialisable : Begin(j, rows)
  /\ UNCHANGED <<snapshot, manifest, toucher, putter>>

(* Mutant of StartSync: the file is opened for writing before it is read. *)
StartSyncTruncates(j) ==
  /\ j \in Syncers
  /\ MayStart(j)
  /\ snapshot' = Torn
  /\ Advance(j, "failed")
  /\ toucher' = j
  /\ UNCHANGED <<manifest, putter>>

(* sync_storage: FileNotFoundError without a snapshot, ValueError from
   json.loads on a torn one, otherwise the rows read. *)
StartSync(j) ==
  /\ j \in Syncers
  /\ MayStart(j)
  /\ IF Readable THEN Begin(j, snapshot) ELSE Advance(j, "failed")
  /\ UNCHANGED <<snapshot, manifest, toucher, putter>>

(* Mutant of Truncate: the old file is unlinked before the new one is
   written. *)
TruncateByUnlink(j) ==
  /\ job[j].live
  /\ job[j].pc = "read"
  /\ snapshot' = Absent
  /\ Advance(j, "truncated")
  /\ toucher' = j
  /\ UNCHANGED <<manifest, putter>>

(* JsonBackedOnlineFeatureStore.put_many, first half: write_text opens the
   file and truncates it.  Two windows that meet are both marked. *)
Truncate(j) ==
  /\ job[j].live
  /\ job[j].pc = "read"
  /\ snapshot' = Torn
  /\ LET meets == \E k \in Jobs \ {j} : Writing(k)
     IN  job' = [k \in Jobs |->
                   IF k = j THEN [job[j] EXCEPT !.pc = "truncated", !.mixed = meets]
                   ELSE IF Writing(k) THEN [job[k] EXCEPT !.mixed = TRUE]
                   ELSE job[k]]
  /\ toucher' = j
  /\ UNCHANGED <<manifest, putter>>

(* put_many, second half: the text reaches the file.  Where windows met, the
   text may land on another writer's longer text, whose tail then stays. *)
Write(j) ==
  /\ Writing(j)
  /\ \/ snapshot' = job[j].rows
     \/ job[j].mixed /\ snapshot' = Torn
  /\ Advance(j, "written")
  /\ toucher' = j
  /\ putter' = IF j \in Materialisers THEN j ELSE putter
  /\ UNCHANGED manifest

(* Mutant of ReadBack: wait for the file to be as expected. *)
ReadBackWaits(j) ==
  /\ job[j].live
  /\ job[j].pc = "written"
  /\ IF j \in Materialisers THEN snapshot = job[j].rows ELSE Readable
  /\ Advance(j, "checked")
  /\ UNCHANGED <<snapshot, manifest, toucher, putter>>

(* Both commands read the file back.  materialize compares it with the rows
   it selected (validate_online_offline_parity) and raises when they differ;
   sync only needs it to parse. *)
ReadBack(j) ==
  /\ job[j].live
  /\ job[j].pc = "written"
  /\ LET good == IF j \in Materialisers THEN snapshot = job[j].rows ELSE Readable
     IN  Advance(j, IF good THEN "checked" ELSE "failed")
  /\ UNCHANGED <<snapshot, manifest, toucher, putter>>

(* Mutant of WriteManifest: row_count counts the zones, not the rows. *)
WriteManifestOfZones(j) ==
  /\ j \in Materialisers
  /\ job[j].live
  /\ job[j].pc = "checked"
  /\ manifest' = Cardinality(Zones)
  /\ Advance(j, "done")
  /\ UNCHANGED <<snapshot, toucher, putter>>

(* materialize: the manifest and the report are written after the check. *)
WriteManifest(j) ==
  /\ j \in Materialisers
  /\ job[j].live
  /\ job[j].pc = "checked"
  /\ manifest' = RowCount(job[j].rows)
  /\ Advance(j, "done")
  /\ UNCHANGED <<snapshot, toucher, putter>>

(* sync: the telemetry copy (TelemetrySync) comes next and may raise; then
   zone_ids() reads the file once more for the report. *)
ReadZoneIds(j) ==
  /\ j \in Syncers
  /\ job[j].live
  /\ job[j].pc = "checked"
  /\ \E copied \in BOOLEAN : Advance(j, IF copied /\ Readable THEN "done" ELSE "failed")
  /\ UNCHANGED <<snapshot, manifest, toucher, putter>>

(* A command is killed between two of its file operations. *)
Kill(j) ==
  /\ Active(j)
  /\ job' = [job EXCEPT ![j].live = FALSE]
  /\ UNCHANGED <<snapshot, manifest, toucher, putter>>

JobStep(j) ==
  \/ Truncate(j)
  \/ Write(j)
  \/ ReadBack(j)
  \/ WriteManifest(j)
  \/ ReadZoneIds(j)

SnapNext ==
  \E j \in Jobs : StartMaterialise(j) \/ StartSync(j) \/ JobStep(j) \/ Kill(j)

(* A started command keeps running until it ends or is killed. *)
SnapFairness == \A j \in Jobs : WF_snapVars(JobStep(j))

SnapSpec == SnapInit /\ [][SnapNext]_snapVars /\ SnapFairness

-----------------------------------------------------------------------------
(* Properties *)

(* An unreadable snapshot is the doing of the last command that touched the
   file: it stands, or was killed, between the truncation and the write of
   put_many, or its window met another's.  A put_many that runs alone to its
   end leaves a readable file, and heals one that an earlier command tore. *)
TornHasCause ==
  snapshot = Torn => job[toucher].pc = "truncated" \/ job[toucher].mixed

(* The readable content is what the last materialize to write the file wrote,
   if no other command ran beside that one.  Later commands do not undo it:
   sync-storage rewrites the rows it has just read, and a materialize that
   dies before its write leaves, through any overlap, nothing or a torn file. *)
LastMaterialisedIsServed ==
  Readable =>
    /\ putter # Absent
    /\ ~job[putter].crossed => snapshot = job[putter].rows

(* The manifest's row_count describes the snapshot on disk, once the last
   materialize to write the snapshot has come as far as its manifest and if
   no other command ran beside it. *)
ManifestMatchesSnapshot ==
  Readable /\ job[putter].pc = "done" /\ ~job[putter].crossed =>
    manifest = RowCount(snapshot)

(* A command's steps are the steps its readers reckon with: the property is
   the specification SnapshotFile!FileSpec. *)
ImplementsFile == FileSpec

(* Every started command ends: done, failed or killed. *)
JobsEnd == \A j \in Jobs : Active(j) ~> ~Active(j)
=============================================================================
