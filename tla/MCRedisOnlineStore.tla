------------------------- MODULE MCRedisOnlineStore -------------------------
(* RedisOnlineStore on two zones and three batches: both zones, each zone
   alone. *)
EXTENDS RedisOnlineStore, TLC

CONSTANTS z1, z2, old, new

MCZones == {z1, z2}
MCAges == {old, new}
MCBatches ==
  { (z1 :> old @@ z2 :> old), (z1 :> new @@ z2 :> NoRow), (z1 :> NoRow @@ z2 :> new) }
MCSymmetry == Permutations(Writers)
=============================================================================
