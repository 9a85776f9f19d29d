---- MODULE MCWebUi ----
(***************************************************************************)
(* A server with runs of every kind, or with one that is active, and a     *)
(* second server without runs to change to.  Every backup has a directory  *)
(* with a file and a directory in it, and a file beside it, which the      *)
(* later ones lack.                                                        *)
(***************************************************************************)
EXTENDS WebUi

B(state) == [type |-> "backup", state |-> state]
R(state) == [type |-> "restore", state |-> state]

MCHome ==
  {<<R("cancelled"), B("finished"), B("failed"), R("failed"), B("finished"), R("finished")>>,
   <<B("failed"), R("crashed"), B("started")>>}

MCHistories == {[c \in Conns |-> IF c = Home THEN h ELSE <<>>] : h \in MCHome}

MCDirs == {<<1, 1>>, <<1, 1, 2>>}

MCTree(run) == MCDirs \cup {<<1, 1, 1>>, <<1, 1, 2, 1>>} \cup (IF run < 4 THEN {<<1, 2>>} ELSE {})

MCFiles ==
  UNION {{[run |-> i, path |-> p, type |-> IF p \in MCDirs THEN "dir" ELSE "file"]
           : p \in MCTree(i)} : i \in 1..MaxRuns}
=============================================================================
