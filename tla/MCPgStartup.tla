----------------------------- MODULE MCPgStartup -----------------------------
(* Instantiation of PgStartup for TLC.                                     *)
EXTENDS PgStartup
=============================================================================
