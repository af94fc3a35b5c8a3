---------------------------- MODULE SnapshotFile ----------------------------
(***************************************************************************)
(* The online feature snapshot as its readers see it: one JSON file that   *)
(* commands of other processes rewrite in place (storage/online.py).       *)
(*                                                                         *)
(* write_text opens the file with "w", which truncates it, and writes the  *)
(* text afterwards; json.loads of anything in between raises ValueError.   *)
(* The content is therefore Absent, Torn (truncated, partial or mixed), or *)
(* the rows of one put_many.  OnlineSnapshot gives the commands behind     *)
(* these steps and implements this specification.                          *)
(***************************************************************************)
EXTENDS Naturals, FiniteSets

CONSTANTS
  Zones,          \* entity keys
  Ages,           \* what a row's as_of_timestamp tells apart
  NoRow,          \* the zone has no row in a snapshot
  Absent, Torn,   \* file contents that are not rows
  Materialisable  \* the row sets the offline features can yield over time

(* A row set is a function from zones to rows; select_latest_online_features
   refuses an empty one. *)
RowSets == {f \in [Zones -> Ages \cup {NoRow}] : \E z \in Zones : f[z] # NoRow}

ASSUME SnapshotAssumption ==
  /\ NoRow \notin Ages
  /\ Absent # Torn
  /\ {Absent, Torn} \cap RowSets = {}
  /\ Materialisable \subseteq RowSets
  /\ IsFiniteSet(Zones)

VARIABLE snapshot  \* content of online_features.json

Readable == snapshot \in Materialisable

FileTypeOK == snapshot \in Materialisable \cup {Absent, Torn}

FileInit == snapshot = Absent

(* put_many begins: the file exists from here on, truncated. *)
Tear == snapshot' = Torn

(* put_many ends: the file holds the rows of one materialisation.  Without a
   truncation just before it, this is the write of a command whose window met
   another's. *)
Put ==
  /\ snapshot # Absent
  /\ snapshot' \in Materialisable

FileNext == Tear \/ Put

FileSpec == FileInit /\ [][FileNext]_snapshot
=============================================================================
