---------------------------- MODULE MCScheduler -----------------------------
(* Instances of Scheduler for TLC.  Job ids bound the number of jobs that  *)
(* are started in a behaviour (a restore may be resumed any number of      *)
(* times) and Modulus stands for 2^32.                                     *)
EXTENDS Scheduler, TLC

\* Names, ids and report handlers are interchangeable (safety runs only).
Symmetry == Permutations(Names) \cup Permutations(Ids) \cup Permutations(Readers)
=============================================================================
