------------------------------ MODULE JobSlots ------------------------------
(***************************************************************************)
(* What the table of running jobs promises to those who start and stop     *)
(* jobs: each backup name is a slot.  A backup and a restore compete for   *)
(* it; a slot is claimed when it is free, under an id that holds no other  *)
(* slot, its job may be told to stop, once, and gives the slot back.       *)
(***************************************************************************)
CONSTANTS Names, Ids, Empty

VARIABLE slot

FreeSlot == [id |-> Empty, state |-> "free"]

Init == slot = [n \in Names |-> FreeSlot]

Claim(n, i) ==
  /\ slot[n] = FreeSlot
  /\ \A m \in Names : slot[m].id # i
  /\ slot' = [slot EXCEPT ![n] = [id |-> i, state |-> "running"]]

Stopping(n) ==
  /\ slot[n].state = "running"
  /\ slot' = [slot EXCEPT ![n] = [id |-> slot[n].id, state |-> "stopping"]]

Release(n) ==
  /\ slot[n] # FreeSlot
  /\ slot' = [slot EXCEPT ![n] = FreeSlot]

\* The process ends.
Clear == slot' = [n \in Names |-> FreeSlot]

Next ==
  \/ \E n \in Names : Stopping(n) \/ Release(n) \/ \E i \in Ids : Claim(n, i)
  \/ Clear

Spec == Init /\ [][Next]_slot

FairSpec == Spec /\ \A n \in Names : WF_slot(Release(n))
=============================================================================
