--------------------------- MODULE MCCommandLine ---------------------------
(* Every command on the small instances of its own. *)
EXTENDS MCAnalysis, MCWorkload, MCObserve
=============================================================================
