-------------------------------- MODULE MCRuns --------------------------------
(* A small instance of MagusRuns for TLC. *)
EXTENDS MagusRuns

CONSTANTS a

FetchBuild == <<"build", "fetch">>
=============================================================================
