-------------------------- MODULE MCSchedulerComm ---------------------------
(***************************************************************************)
(* A request for a backup, one for a restore and a schedule entry, which   *)
(* shares the channels of the backups; the channel to the cron manager is  *)
(* soon full.                                                              *)
(***************************************************************************)
EXTENDS SchedulerComm
=============================================================================
