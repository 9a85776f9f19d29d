------------------------------- MODULE WebUi --------------------------------
(***************************************************************************)
(* The web interface: the page with its card, and the dialogs in front of  *)
(* it, one at a time.  A dialog gets from the page the connection, which   *)
(* cannot be changed meanwhile, and the flag restoreInProgress, and it     *)
(* calls the page back.  Polls go on behind a dialog, but matter to it     *)
(* only through that flag: the page stands still once one was opened.      *)
(***************************************************************************)
EXTENDS WebRestoreStart

vars == <<appVars, reportVars, startVars>>

Init == InitApp /\ InitReports /\ InitStart

Others == \E c \in Conns : RunEnds(c) \/ \E type \in Keys : OtherStart(c, type)

Next ==
  \/ OnPage /\ NextApp /\ UNCHANGED <<reportVars, startVars>>
  \/ ~OnPage /\ Others /\ UNCHANGED <<reportVars, startVars>>
  \/ NextReports /\ UNCHANGED startVars
  \/ NextStart

Spec == Init /\ [][Next]_vars /\ FairApp
=============================================================================
