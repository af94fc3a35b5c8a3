--------------------------- MODULE RelationalStore ---------------------------
(***************************************************************************)
(* The relational store (storage/relational.py) on its default backend, a  *)
(* local SQLite file: sync-relational-store reads three generated files    *)
(* and replaces all four tables, inspect-relational-store counts what they *)
(* hold; any number of runs of both, next to the commands that rewrite the *)
(* files.  A file or table is modelled by the generation it holds.         *)
(***************************************************************************)
EXTENDS Naturals, Sequences, FiniteSets

CONSTANTS
  Syncs,        \* runs of sync-relational-store
  Inspections,  \* runs of inspect-relational-store
  NoRows,       \* nothing: a table without rows, a report not yet written
  MaxGen        \* bound: how often the files are generated

ASSUME RelationalAssumption ==
  /\ Syncs \cap Inspections = {}
  /\ MaxGen \in Nat

VARIABLES
  disk,     \* the generated files
  making,   \* the file the generating commands write next
  tables,   \* the tables that exist
  db,       \* what is committed
  writer,   \* the connections that hold the write lock
  work,     \* what the transaction under way has made of the tables
  sync,     \* the state of each run of sync-relational-store
  look,     \* the state of each run of inspect-relational-store
  report,   \* reports/relational_storage_sync_summary.md
  crossed   \* history: the last commit may be left without its report

relVars == <<disk, making, tables, db, writer, work, sync, look, report, crossed>>

(* read_csv takes a file cut short for what is there of it. *)
Content == [gen : 1..MaxGen, part : {"all", "some", "none"}]

FileNames == <<"events", "features", "snapshot">>
FileSet == {FileNames[n] : n \in DOMAIN FileNames}
File == [gen : 0..MaxGen, cut : BOOLEAN]
Exists(f) == disk[f].gen > 0

(* in the order of create_all *)
TableNames == <<"events", "features", "snapshots", "runs">>
TableSet == {TableNames[n] : n \in DOMAIN TableNames}

Triple == [FileSet -> Content]

Database == [events : Content \cup {NoRows}, features : Content \cup {NoRows},
             snapshots : Content \cup {NoRows}, runs : Triple \cup {NoRows}]

ASSUME NoRowsAssumption == NoRows \notin Content /\ NoRows \notin Triple

EmptyDatabase == [t \in TableSet |-> NoRows]

(* replace_all: what it deletes, then what it inserts, in this order. *)
Deletes == <<"runs", "snapshots", "features", "events">>
Inserts == <<"events", "features", "snapshots", "runs">>

(* inspect: the table that each of its five statements reads. *)
Selects == <<"events", "features", "snapshots", "events", "events">>

SyncPc == {"start", "schema", "create", "replace", "inside", "committed", "done", "failed"}
LookPc == {"start", "create", "select", "done", "failed"}

SyncState == [pc : SyncPc, got : Seq(Content), missing : SUBSET TableSet, done : 0..8]
LookState == [pc : LookPc, seen : Seq(Content \cup {NoRows}),
              missing : SUBSET TableSet, disturbed : BOOLEAN]

(* Everything is of its kind, and a transaction has a writer. *)
RelTypeOK ==
  /\ disk \in [FileSet -> File]
  /\ making \in 1..3
  /\ tables \subseteq TableSet
  /\ db \in Database /\ work \in Database
  /\ writer \subseteq Syncs
  /\ Cardinality(writer) <= 1
  /\ \A s \in Syncs : sync[s].pc = "inside" <=> s \in writer
  /\ sync \in [Syncs -> SyncState]
  /\ look \in [Inspections -> LookState]
  /\ report \in Triple \cup {NoRows}
  /\ crossed \in BOOLEAN

RelInit ==
  /\ disk = [f \in FileSet |-> [gen |-> 0, cut |-> FALSE]]
  /\ making = 1
  /\ tables = {}
  /\ db = EmptyDatabase /\ work = EmptyDatabase
  /\ writer = {}
  /\ sync = [s \in Syncs |-> [pc |-> "start", got |-> << >>, missing |-> {}, done |-> 0]]
  /\ look = [i \in Inspections |->
               [pc |-> "start", seen |-> << >>, missing |-> {}, disturbed |-> FALSE]]
  /\ report = NoRows
  /\ crossed = FALSE

-----------------------------------------------------------------------------
(* The commands that generate the files, one file after the other. *)

Truncate ==
  LET f == FileNames[making]
  IN  /\ disk[f].gen < MaxGen /\ ~disk[f].cut
      /\ disk' = [disk EXCEPT ![f] = [gen |-> @.gen + 1, cut |-> TRUE]]
      /\ UNCHANGED <<making, tables, db, writer, work, sync, look, report, crossed>>

Complete ==
  LET f == FileNames[making]
  IN  /\ disk[f].cut
      /\ disk' = [disk EXCEPT ![f].cut = FALSE]
      /\ making' = (making % 3) + 1
      /\ UNCHANGED <<tables, db, writer, work, sync, look, report, crossed>>

-----------------------------------------------------------------------------
(* sync_relational_store *)

SyncFails(s) == sync' = [sync EXCEPT ![s].pc = "failed"]

(* _read_event_rows, _read_offline_feature_rows and _read_online_rows.  A
   parquet or JSON file cut short does not parse; a CSV may. *)
ReadFile(s) ==
  /\ sync[s].pc = "start"
  /\ LET f == FileNames[Len(sync[s].got) + 1]
         Take(part) ==
           sync' = [sync EXCEPT ![s].got = Append(@, [gen |-> disk[f].gen, part |-> part]),
                                ![s].pc = IF Len(sync[s].got) = 2 THEN "schema" ELSE @]
     IN  \/ (~Exists(f) \/ disk[f].cut) /\ SyncFails(s)
         \/ Exists(f) /\ ~disk[f].cut /\ Take("all")
         \/ /\ Exists(f) /\ disk[f].cut /\ f = "events"
            /\ \E part \in {"some", "none"} : Take(part)
  /\ UNCHANGED <<disk, making, tables, db, writer, work, look, report, crossed>>

Missing == TableSet \ tables

FirstOf(some) ==
  TableNames[CHOOSE n \in 1..4 : /\ TableNames[n] \in some
                                 /\ \A k \in 1..(n - 1) : TableNames[k] \notin some]

(* Mutant: all four are there if the first one is. *)
CheckSchemaOfEvents(s) ==
  /\ sync[s].pc = "schema"
  /\ sync' = IF "events" \in tables
             THEN [sync EXCEPT ![s].pc = "replace"]
             ELSE [sync EXCEPT ![s].missing = TableSet, ![s].pc = "create"]
  /\ UNCHANGED <<disk, making, tables, db, writer, work, look, report, crossed>>

(* create_schema: create_all looks for all the tables first ... *)
CheckSchema(s) ==
  /\ sync[s].pc = "schema"
  /\ sync' = [sync EXCEPT ![s].missing = Missing,
                          ![s].pc = IF Missing = {} THEN "replace" ELSE "create"]
  /\ UNCHANGED <<disk, making, tables, db, writer, work, look, report, crossed>>

(* ... and then creates those it did not find, which another run may have
   created by now. *)
CreateTable(s) ==
  /\ sync[s].pc = "create"
  /\ LET next == FirstOf(sync[s].missing)
         rest == sync[s].missing \ {next}
     IN  \/ next \in tables /\ SyncFails(s) /\ UNCHANGED tables
         \/ /\ next \notin tables
            /\ tables' = tables \cup {next}
            /\ sync' = [sync EXCEPT ![s].missing = rest,
                                    ![s].pc = IF rest = {} THEN "replace" ELSE @]
  /\ UNCHANGED <<disk, making, db, writer, work, look, report, crossed>>

(* Mutant: the exception is swallowed and the summary written all the same. *)
BeginSwallows(s) ==
  /\ sync[s].pc = "replace"
  /\ \/ /\ writer = {}
        /\ writer' = {s} /\ work' = [db EXCEPT ![Deletes[1]] = NoRows]
        /\ sync' = [sync EXCEPT ![s].pc = "inside", ![s].done = 1]
     \/ /\ writer # {}
        /\ sync' = [sync EXCEPT ![s].pc = "committed"]
        /\ UNCHANGED <<writer, work>>
  /\ UNCHANGED <<disk, making, tables, db, look, report, crossed>>

(* The first DELETE opens the transaction and takes the write lock; a
   connection that waits for it too long gets "database is locked". *)
Begin(s) ==
  /\ sync[s].pc = "replace"
  /\ \/ /\ writer = {}
        /\ writer' = {s} /\ work' = [db EXCEPT ![Deletes[1]] = NoRows]
        /\ sync' = [sync EXCEPT ![s].pc = "inside", ![s].done = 1]
     \/ writer # {} /\ SyncFails(s) /\ UNCHANGED <<writer, work>>
  /\ UNCHANGED <<disk, making, tables, db, look, report, crossed>>

Got(s) == [f \in FileSet |-> sync[s].got[CHOOSE n \in 1..3 : FileNames[n] = f]]

RowsFor(s, table) ==
  CASE table = "events"    -> sync[s].got[1]
    [] table = "features"  -> sync[s].got[2]
    [] table = "snapshots" -> sync[s].got[3]
    [] table = "runs"      -> Got(s)

(* An empty list of events is not inserted (if event_rows). *)
Inserted(s, table) ==
  IF table = "events" /\ sync[s].got[1].part = "none"
  THEN work
  ELSE [work EXCEPT ![table] = RowsFor(s, table)]

(* Mutant: no transaction, every statement commits (engine.connect with
   autocommit in place of engine.begin). *)
ExecuteAutocommit(s) ==
  /\ sync[s].pc = "inside" /\ sync[s].done < 8
  /\ LET n == sync[s].done + 1
     IN  work' = IF n <= 4 THEN [work EXCEPT ![Deletes[n]] = NoRows]
                           ELSE Inserted(s, Inserts[n - 4])
  /\ db' = work'
  /\ sync' = [sync EXCEPT ![s].done = @ + 1]
  /\ UNCHANGED <<disk, making, tables, writer, look, report, crossed>>

(* The next of the eight statements. *)
Execute(s) ==
  /\ sync[s].pc = "inside" /\ sync[s].done < 8
  /\ LET n == sync[s].done + 1
     IN  work' = IF n <= 4 THEN [work EXCEPT ![Deletes[n]] = NoRows]
                           ELSE Inserted(s, Inserts[n - 4])
  /\ sync' = [sync EXCEPT ![s].done = @ + 1]
  /\ UNCHANGED <<disk, making, tables, db, writer, look, report, crossed>>

Reporting == {s \in Syncs : sync[s].pc = "committed"}

Commit(s) ==
  /\ sync[s].pc = "inside" /\ sync[s].done = 8
  /\ db' = work /\ work' = EmptyDatabase /\ writer' = {}
  /\ sync' = [sync EXCEPT ![s].pc = "committed"]
  /\ look' = [i \in Inspections |->
                [look[i] EXCEPT !.disturbed =
                   @ \/ (look[i].pc = "select" /\ look[i].seen # << >>)]]
  /\ crossed' = (Reporting # {})
  /\ UNCHANGED <<disk, making, tables, report>>

(* Mutant: what was executed before the failure is committed. *)
AbandonCommits(s) ==
  /\ sync[s].pc \notin {"done", "failed"}
  /\ SyncFails(s)
  /\ db' = IF s \in writer THEN work ELSE db
  /\ writer' = writer \ {s}
  /\ work' = IF s \in writer THEN EmptyDatabase ELSE work
  /\ crossed' = (crossed \/ s \in Reporting)
  /\ UNCHANGED <<disk, making, tables, look, report>>

(* An insert that violates a key raises, and a killed process drops its
   connection: either way the transaction is rolled back. *)
Abandon(s) ==
  /\ sync[s].pc \notin {"done", "failed"}
  /\ SyncFails(s)
  /\ writer' = writer \ {s}
  /\ work' = IF s \in writer THEN EmptyDatabase ELSE work
  /\ crossed' = (crossed \/ s \in Reporting)
  /\ UNCHANGED <<disk, making, tables, db, look, report>>

WriteReport(s) ==
  /\ sync[s].pc = "committed"
  /\ report' = Got(s)
  /\ sync' = [sync EXCEPT ![s].pc = "done"]
  /\ UNCHANGED <<disk, making, tables, db, writer, work, look, crossed>>

SyncStep(s) ==
  \/ ReadFile(s) \/ CheckSchema(s) \/ CreateTable(s)
  \/ Begin(s) \/ Execute(s) \/ Commit(s) \/ Abandon(s) \/ WriteReport(s)

-----------------------------------------------------------------------------
(* inspect_relational_store *)

LookUnchanged == UNCHANGED <<disk, making, db, writer, work, sync, report, crossed>>

LookSchema(i) ==
  /\ look[i].pc = "start"
  /\ look' = [look EXCEPT ![i].missing = Missing,
                          ![i].pc = IF Missing = {} THEN "select" ELSE "create"]
  /\ UNCHANGED tables /\ LookUnchanged

LookCreate(i) ==
  /\ look[i].pc = "create"
  /\ LET next == FirstOf(look[i].missing)
         rest == look[i].missing \ {next}
     IN  \/ /\ next \in tables /\ UNCHANGED tables
            /\ look' = [look EXCEPT ![i].pc = "failed"]
         \/ /\ next \notin tables
            /\ tables' = tables \cup {next}
            /\ look' = [look EXCEPT ![i].missing = rest,
                                    ![i].pc = IF rest = {} THEN "select" ELSE @]
  /\ LookUnchanged

(* A SELECT opens no transaction in this driver: each one sees what is
   committed when it runs. *)
Select(i) ==
  /\ look[i].pc = "select"
  /\ LET n == Len(look[i].seen) + 1
     IN  look' = [look EXCEPT ![i].seen = Append(@, db[Selects[n]]),
                              ![i].pc = IF n = Len(Selects) THEN "done" ELSE @]
  /\ UNCHANGED tables /\ LookUnchanged

LookStep(i) == LookSchema(i) \/ LookCreate(i) \/ Select(i)

RelNext ==
  \/ Truncate \/ Complete
  \/ \E s \in Syncs : SyncStep(s)
  \/ \E i \in Inspections : LookStep(i)

RelSpec == RelInit /\ [][RelNext]_relVars

-----------------------------------------------------------------------------
(* Properties *)

StoredEvents(triple) == IF triple["events"].part = "none" THEN NoRows ELSE triple["events"]

(* The tables hold what the run recorded in storage_run_metadata read, all of
   it and nothing else. *)
WholeSync(d) ==
  \/ d = EmptyDatabase
  \/ /\ d.runs # NoRows
     /\ d.events = StoredEvents(d.runs)
     /\ d.features = d.runs["features"]
     /\ d.snapshots = d.runs["snapshot"]

(* Whatever is committed is the work of one sync, whole, whoever failed or was
   killed on the way and however many run at a time. *)
CommittedIsOneSync == WholeSync(db)

(* create_schema leaves nobody without a table it goes on to use, even when
   other runs create the tables at the same time. *)
StatementsFindTheirTables ==
  /\ \A s \in Syncs : sync[s].pc \in {"replace", "inside", "committed"} => TableSet \subseteq tables
  /\ \A i \in Inspections : look[i].pc \in {"select", "done"} => TableSet \subseteq tables

(* An inspection that no sync committed under tells of one sync, or of empty
   tables; its three looks at the events table agree. *)
QuietInspectionIsWhole ==
  \A i \in Inspections :
    look[i].pc = "done" /\ ~look[i].disturbed =>
      LET seen == look[i].seen
      IN  /\ seen[4] = seen[1] /\ seen[5] = seen[1]
          /\ \/ \A n \in 1..3 : seen[n] = NoRows
             \/ \E s \in Syncs : /\ Len(sync[s].got) = 3
                                /\ seen[1] = StoredEvents(Got(s))
                                /\ seen[2] = Got(s)["features"]
                                /\ seen[3] = Got(s)["snapshot"]

(* The summary on disk describes what the database holds, unless a sync is
   about to write its own, was stopped between its commit and its summary, or
   committed while another was still to write one. *)
SummaryLagsOnlyByCrossing ==
  Reporting = {} /\ ~crossed => report = db.runs
=============================================================================
