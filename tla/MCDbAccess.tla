----------------------------- MODULE MCDbAccess -----------------------------
(* An instance of DbAccess for TLC: one job, two report handlers and a      *)
(* counter modulo a small number in place of 2^32.                          *)
EXTENDS DbAccess
=============================================================================
