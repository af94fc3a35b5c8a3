-------------------------- MODULE MCModelArtifacts --------------------------
(* ModelArtifacts with two runs of each writer and one of each reader. *)
EXTENDS ModelArtifacts, TLC

CONSTANTS b1, b2

MCBuilds == {b1, b2}

MCCandidates == <<"naive_lag_1", "zone_hour_mean", "ridge_regression">>

(* The best on the test split is never the best on the validation split; on
   that of b1 two are best. *)
MCMae ==
  [k \in (DOMAIN MCCandidates) \X MCBuilds \X {"validation", "test"} \X MCBuilds |->
     IF k[3] = "test" THEN k[1]
     ELSE IF k[4] = b1 THEN IF k[1] = 1 THEN 5 ELSE 2
     ELSE 4 - k[1]]

MCSymmetry == Permutations(Trainings)
=============================================================================
