------------------------------ MODULE MCBuildSync -----------------------------
(* BuildSync for TLC: constants are given in the configuration.            *)
EXTENDS BuildSync
=============================================================================
