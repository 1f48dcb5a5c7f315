----------------------------- MODULE MCWriteFlow -----------------------------
(* Small instances of the credit flow control for TLC. *)
EXTENDS WriteFlow
=============================================================================
