----------------------------- MODULE OnlineRows -----------------------------
(***************************************************************************)
(* What a reader of a key-value online feature store may count on while    *)
(* put_many replaces its rows one at a time: the rows on offer appear one  *)
(* by one and disappear all at once.  A row on offer is never changed in   *)
(* place and never withdrawn alone, so the rows on offer at one moment are *)
(* rows of one put_many.                                                   *)
(***************************************************************************)
CONSTANTS
  Zones,  \* entity keys
  Ages,   \* what a row's as_of_timestamp tells apart
  NoRow   \* the zone has no row

VARIABLE visible  \* the row on offer for each zone

NothingVisible == [z \in Zones |-> NoRow]

RowsInit == visible = NothingVisible

(* put_many begins. *)
Withdraw == visible' = NothingVisible

(* put_many goes on by one row. *)
Offer ==
  \E z \in Zones, age \in Ages :
    /\ visible[z] = NoRow
    /\ visible' = [visible EXCEPT ![z] = age]

RowsNext == Withdraw \/ Offer

RowsSpec == RowsInit /\ [][RowsNext]_visible
=============================================================================
