-------------------------- MODULE RedisOnlineStore --------------------------
(***************************************************************************)
(* RedisOnlineFeatureStore (storage/online.py): one key per zone and a set *)
(* that indexes the zones.  put_many and all_rows are sequences of Redis   *)
(* commands, each atomic in the server; commands of other clients come     *)
(* between any two of them.  Writers are runs of sync-storage with the     *)
(* redis backend, readers are all_rows calls of the API and the commands.  *)
(***************************************************************************)
EXTENDS Naturals, FiniteSets

CONSTANTS
  Zones,     \* entity keys
  Ages,      \* what a row's as_of_timestamp tells apart
  NoRow,     \* no row
  Batches,   \* the row sets put_many is called with
  Writers,   \* put_many calls
  Readers,   \* all_rows calls
  Nothing,   \* "no zone" and "no batch" in a process state
  Overlap    \* FALSE: a put_many starts only when no other is under way

RowSets == [Zones -> Ages \cup {NoRow}]

ZonesOf(batch) == {z \in Zones : batch[z] # NoRow}

ASSUME RedisAssumption ==
  /\ NoRow \notin Ages
  /\ Nothing \notin Zones
  /\ Batches \subseteq RowSets
  /\ \A batch \in Batches : ZonesOf(batch) # {}
  /\ Nothing \notin RowSets
  /\ Overlap \in BOOLEAN

VARIABLES
  row,     \* value of feature_store_ops:online_features:zone:<zone>
  index,   \* the set feature_store_ops:online_features:zones
  writer,  \* the state of each put_many
  reader,  \* the state of each all_rows
  whole    \* history: the batch of the last put_many that ran beside no other,
           \* from its end until the next one clears the rows; Nothing else

redisVars == <<row, index, writer, reader, whole>>

(* pc names the Redis command that comes next; zone is the one whose row was
   set and is not yet indexed; left are the zones still to be set.  History:
   crossed, that another put_many was under way beside this one. *)
WriterState ==
  [pc : {"idle", "smembers", "delete", "set", "sadd", "done"}, live : BOOLEAN,
   batch : Batches \cup {Nothing}, keys : SUBSET Zones, left : SUBSET Zones,
   zone : Zones \cup {Nothing}, crossed : BOOLEAN]

(* quiet: no put_many has taken a step since the read began. *)
ReaderState ==
  [pc : {"idle", "get", "done"}, left : SUBSET Zones, result : RowSets, quiet : BOOLEAN]

RedisTypeOK ==
  /\ row \in RowSets
  /\ index \subseteq Zones
  /\ writer \in [Writers -> WriterState]
  /\ reader \in [Readers -> ReaderState]
  /\ whole \in Batches \cup {Nothing}

EmptyRows == [z \in Zones |-> NoRow]

RedisInit ==
  /\ row = EmptyRows
  /\ index = {}
  /\ writer = [w \in Writers |-> [pc |-> "idle", live |-> TRUE, batch |-> Nothing,
                                  keys |-> {}, left |-> {}, zone |-> Nothing,
                                  crossed |-> FALSE]]
  /\ reader = [r \in Readers |-> [pc |-> "idle", left |-> {}, result |-> EmptyRows, quiet |-> TRUE]]
  /\ whole = Nothing

-----------------------------------------------------------------------------
(* put_many *)

Active(w) == writer[w].live /\ writer[w].pc \notin {"idle", "done"}

At(w, pc) == writer[w].live /\ writer[w].pc = pc

(* Every step of a writer disturbs the reads under way. *)
Disturb == reader' = [r \in Readers |-> [reader[r] EXCEPT !.quiet = FALSE]]

(* _validate_online_rows has accepted the rows. *)
StartPut(w) ==
  /\ At(w, "idle")
  /\ Overlap \/ \A v \in Writers : ~Active(v)
  /\ \E batch \in Batches :
       LET meets == \E v \in Writers \ {w} : Active(v)
       IN  writer' = [v \in Writers |->
                        IF v = w
                        THEN [writer[w] EXCEPT !.pc = "smembers", !.batch = batch,
                                               !.left = ZonesOf(batch), !.crossed = meets]
                        ELSE IF Active(v) THEN [writer[v] EXCEPT !.crossed = TRUE]
                        ELSE writer[v]]
  /\ UNCHANGED <<row, index, reader, whole>>

(* Mutant of ListKeys: the zones of the new rows are cleared, not those of the
   old ones. *)
ListKeysOfBatch(w) ==
  /\ At(w, "smembers")
  /\ writer' = [writer EXCEPT ![w].pc = "delete", ![w].keys = writer[w].left]
  /\ UNCHANGED <<row, index, reader, whole>>

(* _clear_existing_rows: SMEMBERS of the index. *)
ListKeys(w) ==
  /\ At(w, "smembers")
  /\ writer' = [writer EXCEPT ![w].pc = "delete", ![w].keys = index]
  /\ UNCHANGED <<row, index, reader, whole>>

(* Mutant of DeleteKeys: the client offers no delete, and hasattr says so. *)
DeleteKeysSkipped(w) ==
  /\ At(w, "delete")
  /\ writer' = [writer EXCEPT ![w].pc = "set"]
  /\ whole' = Nothing
  /\ Disturb
  /\ UNCHANGED <<row, index>>

(* Mutant of DeleteKeys: the index is not among the keys. *)
DeleteKeysKeepsIndex(w) ==
  /\ At(w, "delete")
  /\ row' = [z \in Zones |-> IF z \in writer[w].keys THEN NoRow ELSE row[z]]
  /\ writer' = [writer EXCEPT ![w].pc = "set"]
  /\ whole' = Nothing
  /\ Disturb
  /\ UNCHANGED index

(* _clear_existing_rows: one DEL of the rows listed and of the index. *)
DeleteKeys(w) ==
  /\ At(w, "delete")
  /\ row' = [z \in Zones |-> IF z \in writer[w].keys THEN NoRow ELSE row[z]]
  /\ index' = {}
  /\ writer' = [writer EXCEPT ![w].pc = "set"]
  /\ whole' = Nothing
  /\ Disturb

(* SET of the next row. *)
SetRow(w) ==
  /\ At(w, "set")
  /\ \E z \in writer[w].left :
       /\ row' = [row EXCEPT ![z] = writer[w].batch[z]]
       /\ writer' = [writer EXCEPT ![w].pc = "sadd", ![w].zone = z, ![w].left = @ \ {z}]
  /\ Disturb
  /\ UNCHANGED <<index, whole>>

(* SADD of its zone to the index. *)
AddToIndex(w) ==
  /\ At(w, "sadd")
  /\ index' = index \cup {writer[w].zone}
  /\ writer' = [writer EXCEPT ![w].pc = IF writer[w].left = {} THEN "done" ELSE "set",
                              ![w].zone = Nothing]
  /\ whole' = IF writer[w].left = {} /\ ~writer[w].crossed THEN writer[w].batch ELSE whole
  /\ Disturb
  /\ UNCHANGED row

(* The process dies or loses its connection between two commands. *)
KillPut(w) ==
  /\ Active(w)
  /\ writer' = [writer EXCEPT ![w].live = FALSE]
  /\ UNCHANGED <<row, index, reader, whole>>

-----------------------------------------------------------------------------
(* all_rows *)

(* zone_ids: SMEMBERS of the index. *)
ReadIndex(r) ==
  /\ reader[r].pc = "idle"
  /\ reader' = [reader EXCEPT ![r].pc = IF index = {} THEN "done" ELSE "get", ![r].left = index,
                              ![r].quiet = TRUE]
  /\ UNCHANGED <<row, index, writer, whole>>

(* GET of the next row; one that is gone is left out. *)
ReadRow(r) ==
  /\ reader[r].pc = "get"
  /\ \E z \in reader[r].left :
       reader' = [reader EXCEPT ![r].left = @ \ {z}, ![r].result[z] = row[z],
                                ![r].pc = IF reader[r].left = {z} THEN "done" ELSE "get"]
  /\ UNCHANGED <<row, index, writer, whole>>

PutStep(w) ==
  \/ StartPut(w)
  \/ ListKeys(w)
  \/ DeleteKeys(w)
  \/ SetRow(w)
  \/ AddToIndex(w)
  \/ KillPut(w)

RedisNext ==
  \/ \E w \in Writers : PutStep(w)
  \/ \E r \in Readers : ReadIndex(r) \/ ReadRow(r)

RedisSpec == RedisInit /\ [][RedisNext]_redisVars

-----------------------------------------------------------------------------
(* Properties *)

(* The rows all_rows would return if it were one command. *)
Visible == [z \in Zones |-> IF z \in index THEN row[z] ELSE NoRow]

Rows == INSTANCE OnlineRows WITH visible <- Visible

(* While put_many calls do not overlap, the rows on offer are changed only as
   OnlineRows allows, wherever a call is killed. *)
ImplementsRows == Rows!RowsSpec

(* While put_many calls do not overlap, zone_ids never names a zone that
   all_rows and get do not find: sync-storage reports the two side by side. *)
IndexedIsStored == \A z \in index : row[z] # NoRow

(* While put_many calls do not overlap, a row that get finds and zone_ids does
   not name is the trace of one put_many: it has set the row and
   stands, or was killed, before indexing it.  No later put_many removes such
   a row unless it sets the zone itself. *)
OrphanHasCause ==
  \A z \in Zones :
    row[z] # NoRow /\ z \notin index =>
      \E w \in Writers : writer[w].pc = "sadd" /\ writer[w].zone = z

(* A put_many that runs to its end beside no other leaves its rows, the whole
   of them and nothing else, in the index and behind it, whatever put_many
   calls that overlapped or were killed had left there: until the next
   put_many clears them. *)
LonePutHeals ==
  whole # Nothing => Visible = whole /\ IndexedIsStored

(* A read during which no put_many takes a step returns the rows of that lone
   put_many exactly. *)
QuietReadIsWhole ==
  \A r \in Readers :
    reader[r].pc = "done" /\ reader[r].quiet /\ whole # Nothing => reader[r].result = whole
=============================================================================
