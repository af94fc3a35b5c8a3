-------------------------- MODULE MCOfflineFeatures --------------------------
(* OfflineFeatures on days of two hours of two minutes. *)
EXTENDS OfflineFeatures

Options(rows, interval, zones, days, perDay, start) ==
  [rows |-> rows, interval |-> interval, zones |-> zones, days |-> days,
   perDay |-> perDay, start |-> start]

(* A row needs three earlier events in its zone and one later: nine events
   leave up to five rows, and room for two zones. *)
MCDrawn == {Options(n, interval, zones, None, None, 1) :
              n \in {0, 1, 9}, interval \in {0, 1, 2}, zones \in 0..2}

(* Two slots do not divide the day evenly when there are three of them; five
   are one more than a day holds. *)
MCGrid == {Options(9, 2, zones, days, perDay, start) :
             zones \in {1, 2}, days \in {None, 0, 3},
             perDay \in {None, 0, 1, 2, 3, 4, 5}, start \in {0, 3}}

MCConfigs == MCDrawn \cup MCGrid

MCFractions == {[train |-> t, validation |-> v] :
                  t \in {0, 10, 50, 70, 95}, v \in {2, 15, 30}}
=============================================================================
