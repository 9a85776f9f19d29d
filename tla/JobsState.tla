----------------------------- MODULE JobsState ------------------------------
(***************************************************************************)
(* The table of running jobs, BackupJobsState.Running                      *)
(* (shared/structs_scheduler.go).  Every method holds the struct's lock    *)
(* from beginning to end, so each is one atomic step: an operator on the   *)
(* set of entries.  Backups and restores share the table; an entry is      *)
(* found by name and id, or by name alone when the id is empty.            *)
(***************************************************************************)
EXTENDS Integers

CONSTANT Empty  \* the empty string: the job id a request leaves out

JobTypes == {"backup", "restore"}

Matches(e, name, id) == e.name = name /\ (id = Empty \/ e.id = id)

IsRunning(running, name, id) == \E e \in running : Matches(e, name, id)

IsStopping(running, name, id) ==
  \E e \in running : Matches(e, name, id) /\ e.state = "stopping"

\* GetCancelFunctionForJob(): the job whose context would be cancelled.
CancelTarget(running, name, id) ==
  (CHOOSE e \in running : Matches(e, name, id)).id

\* Mutated form: an entry that is stopping no longer counts.
CanMarkRunning_Stopping(running, name) ==
  ~\E e \in running : e.name = name /\ e.state = "running"

\* MarkRunning() and MarkRestoreRunning() refuse a name that has an entry ...
CanMarkRunning(running, name) == ~IsRunning(running, name, Empty)

\* ... and otherwise append one.
MarkRunning(running, type, name, id) ==
  running \cup {[type |-> type, name |-> name, id |-> id, state |-> "running"]}

\* Mutated form: an entry that is stopping is not put back.
MarkStopped_Drops(running, name, id, stopped) ==
  IF ~IsRunning(running, name, id) THEN running ELSE {e \in running : e.name # name}

\* MarkStopped(): on a match every entry of that name is dropped and, unless
\* the job has stopped, the matching one is put back as "stopping".
MarkStopped(running, name, id, stopped) ==
  IF ~IsRunning(running, name, id) THEN running
  ELSE {e \in running : e.name # name} \cup
       (IF stopped THEN {}
        ELSE {[e EXCEPT !.state = "stopping"] :
                e \in {x \in running : Matches(x, name, id)}})
=============================================================================
