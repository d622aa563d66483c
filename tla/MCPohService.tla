----------------------------- MODULE MCPohService -----------------------------
(* Small instances of PohService for TLC. *)
EXTENDS PohService
=============================================================================
