---------------------------- MODULE TelemetrySync ----------------------------
(***************************************************************************)
(* Prediction telemetry from the processes that log it to the SQLite table *)
(* (monitoring/telemetry.py, storage/telemetry.py, storage/sync.py).       *)
(*                                                                         *)
(* Every run of serve-api, simulate-traffic or the API smoke test has a    *)
(* logger of its own, which numbers its requests from 1; all of them       *)
(* append to one JSONL file, which some of them remove first.  sync-storage *)
(* reads the whole file and upserts its rows by request_id.                *)
(***************************************************************************)
EXTENDS Naturals, Sequences, FiniteSets

CONSTANTS
  Loggers,      \* runs of a process that logs predictions
  Syncers,      \* runs of sync-storage with the sqlite telemetry backend
  Torn,         \* a line of the log that json.loads refuses
  NoRow,        \* the table has no row for an id
  MaxRequests,  \* bound: requests per logger
  Overlap       \* FALSE: a sync starts only when no other is under way

ASSUME TelemetryAssumption ==
  /\ MaxRequests \in Nat
  /\ Overlap \in BOOLEAN

VARIABLES
  log,     \* prediction_logs.jsonl, line by line
  ragged,  \* the last line has no line feed
  logger,  \* PredictionTelemetryLogger of each run
  table,   \* the table prediction_telemetry
  sync,    \* the state of each run of sync-storage
  kept,    \* history: rows whose append returned since the file was last removed
  clock    \* history: how many rows were logged

telVars == <<log, ragged, logger, table, sync, kept, clock>>

Ids == 1..MaxRequests

(* at is not in the file: it is the place of the row among all rows logged. *)
Row == [id : Ids, by : Loggers, at : Nat]

ASSUME NoRowAssumption == NoRow \notin Row

LoggerState == [pc : {"idle", "serving", "ended"}, counter : 0..MaxRequests]

SyncState ==
  [pc : {"idle", "cleared", "read", "copied", "done", "failed"},
   rows : Seq(Row), stored : Nat]

TelTypeOK ==
  /\ log \in Seq(Row \cup {Torn})
  /\ ragged \in BOOLEAN
  /\ logger \in [Loggers -> LoggerState]
  /\ table \in [Ids -> Row \cup {NoRow}]
  /\ sync \in [Syncers -> SyncState]
  /\ kept \subseteq Row
  /\ clock \in Nat

EmptyTable == [n \in Ids |-> NoRow]

TelInit ==
  /\ log = << >>
  /\ ragged = FALSE
  /\ logger = [w \in Loggers |-> [pc |-> "idle", counter |-> 0]]
  /\ table = EmptyTable
  /\ sync = [s \in Syncers |-> [pc |-> "idle", rows |-> << >>, stored |-> 0]]
  /\ kept = {}
  /\ clock = 0

-----------------------------------------------------------------------------
(* The loggers *)

(* The process starts with a logger of its own; simulate-traffic, unless told
   to append, and the workflow remove the log first (reset_prediction_log). *)
StartLogger(w) ==
  /\ logger[w].pc = "idle"
  /\ logger' = [logger EXCEPT ![w].pc = "serving"]
  /\ \/ log' = << >> /\ ragged' = FALSE /\ kept' = {}
     \/ UNCHANGED <<log, ragged, kept>>
  /\ UNCHANGED <<table, sync, clock>>

(* next_request_id, and the row the request ends in. *)
TakesId(w) ==
  /\ logger[w].pc = "serving"
  /\ logger[w].counter < MaxRequests

NextRow(w) == [id |-> logger[w].counter + 1, by |-> w, at |-> clock + 1]

(* Mutant of WithLine: the log is opened for writing. *)
WithLineOverwriting(line) == <<line>>

(* The log after more text: the text of an incomplete line and of the next
   row make one line, which is not JSON. *)
WithLine(line) ==
  IF ragged THEN [log EXCEPT ![Len(log)] = Torn] ELSE Append(log, line)

(* Mutant of WriteRow: the logger does not advance past the id it used. *)
WriteRowKeepsId(w) ==
  /\ TakesId(w)
  /\ log' = WithLine(NextRow(w))
  /\ ragged' = FALSE
  /\ kept' = kept \cup {NextRow(w)}
  /\ \E more \in BOOLEAN :
       logger' = [logger EXCEPT ![w].counter = IF more THEN @ + 1 ELSE @]
  /\ clock' = clock + 1
  /\ UNCHANGED <<table, sync>>

(* A request is served and its row appended. *)
WriteRow(w) ==
  /\ TakesId(w)
  /\ log' = WithLine(NextRow(w))
  /\ ragged' = FALSE
  /\ kept' = kept \cup {NextRow(w)}
  /\ logger' = [logger EXCEPT ![w].counter = @ + 1]
  /\ clock' = clock + 1
  /\ UNCHANGED <<table, sync>>

(* The append stops short of the line feed, because the disk is full
   or the process dies: part of the row, or all of it, is in the file. *)
WriteRowPartly(w) ==
  /\ TakesId(w)
  /\ \E line \in {Torn, NextRow(w)} : log' = WithLine(line)
  /\ ragged' = TRUE
  /\ \E pc \in {"serving", "ended"} :
       logger' = [logger EXCEPT ![w].counter = @ + 1, ![w].pc = pc]
  /\ clock' = clock + 1
  /\ UNCHANGED <<table, sync, kept>>

(* A request whose row is not written at all: its id stays taken. *)
SkipRow(w) ==
  /\ TakesId(w)
  /\ logger' = [logger EXCEPT ![w].counter = @ + 1]
  /\ UNCHANGED <<log, ragged, table, sync, kept, clock>>

EndLogger(w) ==
  /\ logger[w].pc = "serving"
  /\ logger' = [logger EXCEPT ![w].pc = "ended"]
  /\ UNCHANGED <<log, ragged, table, sync, kept, clock>>

-----------------------------------------------------------------------------
(* sync-storage *)

Active(s) == sync[s].pc \in {"cleared", "read", "copied"}

MayStart(s) == Overlap \/ \A t \in Syncers \ {s} : ~Active(t)

(* The workflow's sync_storage stage removes the database first. *)
ClearStore(s) ==
  /\ sync[s].pc = "idle"
  /\ MayStart(s)
  /\ table' = EmptyTable
  /\ sync' = [sync EXCEPT ![s].pc = "cleared"]
  /\ UNCHANGED <<log, ragged, logger, kept, clock>>

HasTornLine == \E i \in 1..Len(log) : log[i] = Torn

(* Mutant of ReadLog: the rows are not validated. *)
ReadLogUnchecked(s) ==
  /\ sync[s].pc \in {"idle", "cleared"}
  /\ MayStart(s)
  /\ sync' = [sync EXCEPT ![s].pc = "read", ![s].rows = log]
  /\ UNCHANGED <<log, ragged, logger, table, kept, clock>>

(* JsonlPredictionTelemetryStore.all_rows: one line that does not parse makes
   the whole command fail. *)
ReadLog(s) ==
  /\ sync[s].pc \in {"idle", "cleared"}
  /\ MayStart(s)
  /\ sync' = IF HasTornLine
             THEN [sync EXCEPT ![s].pc = "failed"]
             ELSE [sync EXCEPT ![s].pc = "read", ![s].rows = log]
  /\ UNCHANGED <<log, ragged, logger, table, kept, clock>>

(* The rows of a sequence that carry an id, and the last of them. *)
Places(rows, n) == {i \in 1..Len(rows) : rows[i].id = n}
LastPlace(places) == CHOOSE i \in places : \A j \in places : j <= i

(* INSERT ... ON CONFLICT (request_id) DO UPDATE of every column, row by row:
   the last row with an id stays. *)
Upserted(rows) ==
  [n \in Ids |-> IF Places(rows, n) = {} THEN table[n]
                 ELSE rows[LastPlace(Places(rows, n))]]

(* Mutant of CopyRows: each row is committed by itself. *)
CopyRowsOneByOne(s) ==
  /\ sync[s].pc = "read"
  /\ \E n \in 0..Len(sync[s].rows) :
       /\ table' = Upserted(SubSeq(sync[s].rows, 1, n))
       /\ sync' = [sync EXCEPT ![s].pc = IF n = Len(sync[s].rows) THEN "copied" ELSE "failed"]
  /\ UNCHANGED <<log, ragged, logger, kept, clock>>

(* append_many is one transaction: all rows or, when SQLite raises, none. *)
CopyRows(s) ==
  /\ sync[s].pc = "read"
  /\ \/ /\ table' = Upserted(sync[s].rows)
        /\ sync' = [sync EXCEPT ![s].pc = "copied"]
     \/ /\ sync' = [sync EXCEPT ![s].pc = "failed"]
        /\ UNCHANGED table
  /\ UNCHANGED <<log, ragged, logger, kept, clock>>

RowCount == Cardinality({n \in Ids : table[n] # NoRow})

(* count(), reported next to the number of source rows. *)
CountRows(s) ==
  /\ sync[s].pc = "copied"
  /\ sync' = [sync EXCEPT ![s].pc = "done", ![s].stored = RowCount]
  /\ UNCHANGED <<log, ragged, logger, table, kept, clock>>

(* The command is killed or fails between two steps. *)
KillSync(s) ==
  /\ Active(s)
  /\ sync' = [sync EXCEPT ![s].pc = "failed"]
  /\ UNCHANGED <<log, ragged, logger, table, kept, clock>>

TelNext ==
  \/ \E w \in Loggers :
       StartLogger(w) \/ WriteRow(w) \/ WriteRowPartly(w) \/ SkipRow(w) \/ EndLogger(w)
  \/ \E s \in Syncers :
       ClearStore(s) \/ ReadLog(s) \/ CopyRows(s) \/ CountRows(s) \/ KillSync(s)

TelSpec == TelInit /\ [][TelNext]_telVars

-----------------------------------------------------------------------------
(* Properties *)

(* A row whose append returned is in the file until the file is removed, or
   the file has a line that no reader accepts: an append that stopped short
   can swallow the next row, but never silently. *)
LossIsLoud ==
  HasTornLine \/ \A row \in kept : \E i \in 1..Len(log) : log[i] = row

(* The report of a sync shows fewer rows stored than read only when two runs
   had numbered their requests alike. *)
ShortfallIsSharedIds ==
  \A s \in Syncers :
    LET rows == sync[s].rows
    IN  sync[s].pc = "done" /\ sync[s].stored < Len(rows)
          => \E i, j \in 1..Len(rows) : rows[i].id = rows[j].id /\ rows[i].by # rows[j].by

(* While syncs do not overlap, the row stored for an id is only ever replaced
   by one that was logged later. *)
StoreMovesForward ==
  [][\A n \in Ids :
       table[n] # NoRow /\ table'[n] # NoRow => table'[n].at >= table[n].at]_telVars

(* sync.py:173 "copies JSONL telemetry to SQLite": when a sync is done the
   store holds as many rows as the log it read. *)
SyncCopiesEveryRow ==
  \A s \in Syncers : sync[s].pc = "done" => sync[s].stored >= Len(sync[s].rows)
=============================================================================
