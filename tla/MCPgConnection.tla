--------------------------- MODULE MCPgConnection ---------------------------
(***************************************************************************)
(* Instances of PgConnection for TLC: two lessees, up to three calls of up *)
(* to two statements each.                                                 *)
(***************************************************************************)
EXTENDS PgConnection

CONSTANTS t1, t2
=============================================================================
