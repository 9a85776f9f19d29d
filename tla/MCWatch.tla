------------------------------ MODULE MCWatch -------------------------------
(***************************************************************************)
(* A dialog and two command line clients watch a job of two items, through *)
(* channels that are soon full.                                            *)
(***************************************************************************)
EXTENDS WatchModal
=============================================================================
