-------------------------- MODULE MCOnlineSnapshot --------------------------
(* OnlineSnapshot on two zones: one that every snapshot holds, one that only
   some do. *)
EXTENDS OnlineSnapshot, TLC

CONSTANTS z1, z2, fresh, stale

MCZones == {z1, z2}
MCAges == {fresh, stale}
MCMaterialisable ==
  { (z1 :> fresh @@ z2 :> NoRow), (z1 :> fresh @@ z2 :> fresh), (z1 :> stale @@ z2 :> stale) }
=============================================================================
