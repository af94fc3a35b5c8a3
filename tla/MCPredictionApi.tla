--------------------------- MODULE MCPredictionApi ---------------------------
(* PredictionApi on two zones: one that every snapshot holds, one that only
   some do. *)
EXTENDS PredictionApi, TLC

CONSTANTS z1, z2, fresh, stale

MCZones == {z1, z2}
MCAges == {fresh, stale}
MCFreshAges == {fresh}
MCMaterialisable ==
  { (z1 :> fresh @@ z2 :> NoRow), (z1 :> stale @@ z2 :> fresh) }
=============================================================================
