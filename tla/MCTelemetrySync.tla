--------------------------- MODULE MCTelemetrySync ---------------------------
(* TelemetrySync on a few runs; loggers are interchangeable, and so are
   syncs. *)
EXTENDS TelemetrySync, TLC

MCSymmetry == Permutations(Loggers) \cup Permutations(Syncers)
=============================================================================
