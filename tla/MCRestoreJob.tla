---------------------------- MODULE MCRestoreJob ----------------------------
(***************************************************************************)
(* One restore of a file, a directory and a delete marker, with two        *)
(* crashes and two resumes.                                                *)
(***************************************************************************)
EXTENDS RestoreJob
=============================================================================
