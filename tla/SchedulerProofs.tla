--------------------------- MODULE SchedulerProofs --------------------------
(***************************************************************************)
(* Theorems about Scheduler for any number of names, jobs and reports: the *)
(* table of running jobs; then the rows of the jobs tables, which outlive  *)
(* the process, and the counters and gates of the databases.               *)
(*                                                                         *)
(* Of the latter, some hold only of a daemon in which no statement fails   *)
(* once its database is open (~DbFails), FindAndMarkDeleted() is never the *)
(* one that notices a cancellation (~Notices: the job would clean up       *)
(* twice) or the configuration is never changed (~Reloads): the code does  *)
(* not keep them otherwise.  Each theorem assumes no more of these than it *)
(* needs.                                                                  *)
(***************************************************************************)
EXTENDS Scheduler, FiniteSetTheorems, TLAPS

\* The operations on a database's entry keep its type: the counter is a
\* number modulo Modulus whatever is added or subtracted.
LEMMA EntryTypes ==
  /\ IdleEntry \in Entry
  /\ \A e \in Entry : /\ GetLock(e) \in Entry /\ ReleaseLock(e) \in Entry
                      /\ AddClient(e) \in Entry /\ DropClient(e) \in Entry
<1>1. IdleEntry \in Entry
  BY ModulusAssumption, SMT DEF IdleEntry, Entry
<1>2. ASSUME NEW e \in Entry
      PROVE  GetLock(e) \in Entry /\ ReleaseLock(e) \in Entry
  BY DEF GetLock, ReleaseLock, Entry
<1>3. ASSUME NEW e \in Entry PROVE AddClient(e) \in Entry
  <2>1. (e.clients + 1) % Modulus \in 0 .. Modulus - 1
    BY ModulusAssumption, SMT DEF Entry
  <2> QED BY <2>1 DEF AddClient, Entry
<1>4. ASSUME NEW e \in Entry PROVE DropClient(e) \in Entry
  <2>1. (e.clients + Modulus - 1) % Modulus \in 0 .. Modulus - 1
    BY ModulusAssumption, SMT DEF Entry
  <2> QED BY <2>1 DEF DropClient, Entry
<1> QED BY <1>1, <1>2, <1>3, <1>4

-----------------------------------------------------------------------------
(* Type correctness.                                                       *)

TableEntry == [type : JobTypes, name : Names, id : Ids, state : {"running", "stopping"}]

\* The first start of the daemon (scheduler.go, Start) is well-typed.
LEMMA InitTypeOK == Init => TypeOK
  BY EntryTypes, SchedulerAssumption
     DEF Init, TypeOK, JobOK, SchedOK, Unused, Idle, Job, Sched, JobTypes, Outcomes, RowStates,
         Conns, Passes

\* What the operations on the table return.
LEMMA TableTypes ==
  ASSUME TypeOK, NEW n \in Names, NEW i \in Ids \cup {Empty}
  PROVE  /\ \A b \in BOOLEAN : MarkStopped(running, n, i, b) \subseteq TableEntry
         /\ \A t \in JobTypes : i # Empty => MarkRunning(running, t, n, i) \subseteq TableEntry
         /\ IsRunning(running, n, i) => CancelTarget(running, n, i) \in Ids
<1> USE DEF TableEntry
<1>1. ASSUME NEW b \in BOOLEAN PROVE MarkStopped(running, n, i, b) \subseteq TableEntry
  BY DEF TypeOK, MarkStopped
<1>2. ASSUME NEW t \in JobTypes, i # Empty PROVE MarkRunning(running, t, n, i) \subseteq TableEntry
  BY <1>2 DEF TypeOK, MarkRunning
<1>3. IsRunning(running, n, i) => CancelTarget(running, n, i) \in Ids
  BY DEF TypeOK, IsRunning, CancelTarget
<1> QED BY <1>1, <1>2, <1>3

\* A goroutine that goes on stays well-formed, whichever of its fields move.
LEMMA Moves ==
  ASSUME NEW g \in Job, g.name # Empty, g.outcome # "unrecorded", NEW p \in PCs,
         NEW c \in Conns, NEW o \in Outcomes, NEW s \in Passes
  PROVE  /\ [g EXCEPT !.pc = p] \in Job /\ JobOK([g EXCEPT !.pc = p])
         /\ [g EXCEPT !.pc = p, !.conn = c] \in Job /\ JobOK([g EXCEPT !.pc = p, !.conn = c])
         /\ [g EXCEPT !.pc = p, !.outcome = o] \in Job /\ JobOK([g EXCEPT !.pc = p, !.outcome = o])
         /\ [g EXCEPT !.pc = p, !.conn = c, !.outcome = o] \in Job
         /\ JobOK([g EXCEPT !.pc = p, !.conn = c, !.outcome = o])
         /\ [g EXCEPT !.pc = p, !.outcome = o, !.pass = s] \in Job
         /\ JobOK([g EXCEPT !.pc = p, !.outcome = o, !.pass = s])
         /\ [g EXCEPT !.pc = p, !.outcome = o, !.pass = s, !.conn = c] \in Job
         /\ JobOK([g EXCEPT !.pc = p, !.outcome = o, !.pass = s, !.conn = c])
<1>1. o # "unrecorded" BY DEF Outcomes
<1> USE DEF Job
<1>3. [g EXCEPT !.pc = p] \in Job OBVIOUS
<1>4. [g EXCEPT !.pc = p, !.conn = c] \in Job OBVIOUS
<1>5. [g EXCEPT !.pc = p, !.outcome = o] \in Job OBVIOUS
<1>6. [g EXCEPT !.pc = p, !.conn = c, !.outcome = o] \in Job OBVIOUS
<1>7. [g EXCEPT !.pc = p, !.outcome = o, !.pass = s] \in Job OBVIOUS
<1>8. [g EXCEPT !.pc = p, !.outcome = o, !.pass = s, !.conn = c] \in Job OBVIOUS
<1>9. JobOK([g EXCEPT !.pc = p]) /\ JobOK([g EXCEPT !.pc = p, !.conn = c])
  BY DEF JobOK
<1>10. /\ JobOK([g EXCEPT !.pc = p, !.outcome = o])
       /\ JobOK([g EXCEPT !.pc = p, !.conn = c, !.outcome = o])
  BY <1>1 DEF JobOK
<1>11. /\ JobOK([g EXCEPT !.pc = p, !.outcome = o, !.pass = s])
       /\ JobOK([g EXCEPT !.pc = p, !.outcome = o, !.pass = s, !.conn = c])
  BY <1>1 DEF JobOK
<1> QED BY <1>3, <1>4, <1>5, <1>6, <1>7, <1>8, <1>9, <1>10, <1>11

\* What is left of a goroutine that returned is well-formed.
LEMMA GoneOK ==
  ASSUME NEW g \in Job, g.name # Empty PROVE Gone(g) \in Job /\ JobOK(Gone(g))
  BY DEF Gone, Unused, Job, JobOK, Outcomes, PCs, Conns, Passes

\* A step of one goroutine to a well-formed state leaves all well-formed.
LEMMA BecomesOK ==
  ASSUME TypeOK, NEW j \in Ids, NEW g \in Job, JobOK(g), Becomes(j, g)
  PROVE  job' \in [Ids -> Job] /\ \A i \in Ids : JobOK(job'[i])
  BY DEF TypeOK, Becomes

Handle == [who : Clients, name : Names]

\* A client that disconnects leaves a handle of its own.
LEMMA LeavesOK ==
  ASSUME TypeOK, NEW c \in Clients, NEW n \in Names, Leaves(c, n)
  PROVE  leaving' \subseteq Handle
  BY DEF TypeOK, Leaves, Handle

\* Signals, crashes, start-up and reloads (daemon_unix.go, database.go) keep
\* the types.
LEMMA ProcessTypeOK == ASSUME TypeOK, Process PROVE TypeOK'
<1>1. ASSUME NEW how \in {"sigint", "sigterm", "crash"}, ProcessEnds(how) PROVE TypeOK'
  <2>1. \A j \in Ids : job'[j] \in Job /\ JobOK(job'[j])
    <3> SUFFICES ASSUME NEW j \in Ids PROVE job'[j] \in Job /\ JobOK(job'[j])
      OBVIOUS
    <3>1. CASE job[j].pc = "unused"
      BY <1>1, <3>1 DEF ProcessEnds, TypeOK, Unused, Job, JobOK, JobTypes, Outcomes, Conns, Passes
    <3>2. CASE job[j].pc # "unused"
      BY <1>1, <3>2, GoneOK DEF ProcessEnds, TypeOK, JobOK
    <3> QED BY <3>1, <3>2
  <2>2. job' \in [Ids -> Job]
    BY <1>1, <2>1 DEF ProcessEnds
  <2> QED
    BY <1>1, <2>1, <2>2, EntryTypes DEF ProcessEnds, TypeOK, SchedOK, Idle, Sched, JobTypes
<1>2. CASE Crash BY <1>1, <1>2 DEF Crash
<1>3. CASE Sigterm BY <1>1, <1>3 DEF Sigterm
<1>4. CASE AllStopped BY <1>1, <1>4 DEF AllStopped
<1>5. CASE StopAll
  BY <1>5 DEF StopAll, TypeOK, Sched, SchedOK
<1>6. CASE Boot BY <1>6 DEF Boot, TypeOK, SchedOK, RowStates
<1>7. CASE PutConfig BY <1>7 DEF PutConfig, TypeOK, SchedOK
<1> QED BY <1>2, <1>3, <1>4, <1>5, <1>6, <1>7 DEF Process

\* The commands eventProcessor() serves, in all their steps, keep the types.
LEMMA CommandTypeOK == ASSUME TypeOK, Command \/ Serve PROVE TypeOK'
<1> USE SchedulerAssumption DEF TypeOK, SchedOK
<1>1. ASSUME NEW t \in JobTypes, NEW n \in Names, StartCmd(t, n) PROVE TypeOK'
  BY <1>1 DEF StartCmd, Sched
<1>2. ASSUME NEW j \in Ids, ResumeCmd(j) PROVE TypeOK'
  <2>1. job[j] \in Job /\ job[j].name \in Names /\ job[j].outcome # "unrecorded"
    BY <1>2 DEF ResumeCmd, Job, JobOK
  <2>2. running' \subseteq TableEntry
    BY <1>2, <2>1, TableTypes DEF ResumeCmd, JobTypes
  <2>3. job' \in [Ids -> Job] /\ \A i \in Ids : JobOK(job'[i])
    <3> DEFINE g == [job[j] EXCEPT !.pc = "rLaunched"]
    <3>1. g \in Job /\ JobOK(g)
      BY <2>1, Moves DEF PCs, RestorePCs, Conns, Outcomes, Passes
    <3> QED BY <1>2, <3>1, BecomesOK DEF ResumeCmd
  <2> QED BY <1>2, <2>2, <2>3 DEF ResumeCmd, TableEntry
<1>3. ASSUME NEW n \in Names, NEW i \in Ids \cup {Empty}, StopCmd(n, i) PROVE TypeOK'
  <2>1. CancelTarget(running, n, i) \in Ids BY <1>3, TableTypes DEF StopCmd
  <2> QED BY <1>3, <2>1 DEF StopCmd, Sched
<1>4. CASE ProbeOpen BY <1>4, EntryTypes DEF ProbeOpen, Sched
<1>9. CASE ProbeLeave
  <2>1. sched.name \in Names /\ Empty \in Clients BY <1>9 DEF ProbeLeave, Sched, Clients
  <2>2. leaving' \subseteq Handle BY <1>9, <2>1, LeavesOK DEF ProbeLeave
  <2> QED BY <1>9, <2>1, <2>2, EntryTypes DEF ProbeLeave, Sched, Handle
<1>5. CASE ProbeRefused BY <1>5 DEF ProbeRefused, Sched, Idle, JobTypes
<1>6. CASE StartJob
  <2>0. sched.name \in Names /\ sched.type \in JobTypes BY <1>6 DEF StartJob, Sched
  <2>1. db' \in [Names -> Entry] BY <1>6 DEF StartJob
  <2>2. sched' \in Sched /\ sched'.pc = "idle" BY <1>6 DEF StartJob, Sched, Idle, JobTypes
  <2>3. CASE CanMarkRunning(running, sched.name)
    <3> DEFINE g == [Unused EXCEPT !.pc = IF sched.type = "backup" THEN "launched" ELSE "rLaunched",
                                   !.type = sched.type, !.name = sched.name]
    <3>1. PICK j \in Fresh : /\ running' = MarkRunning(running, sched.type, sched.name, j)
                             /\ Becomes(j, g)
      BY <1>6, <2>3 DEF StartJob
    <3>2. running' \subseteq TableEntry
      BY <3>1, <2>0, TableTypes DEF Fresh
    <3>3. g \in Job /\ JobOK(g)
      BY <2>0 DEF Job, JobOK, Unused, PCs, BackupPCs, RestorePCs, Outcomes, Conns, Passes
    <3>4. job' \in [Ids -> Job] /\ \A i \in Ids : JobOK(job'[i])
      BY <3>1, <3>3, BecomesOK DEF Fresh
    <3> QED BY <1>6, <2>1, <2>2, <3>2, <3>4 DEF StartJob, TableEntry
  <2>4. CASE ~CanMarkRunning(running, sched.name)
    BY <1>6, <2>1, <2>2, <2>4 DEF StartJob
  <2> QED BY <2>3, <2>4
<1>7. CASE StopMark
  <2>1. running' \subseteq TableEntry
    BY <1>7, TableTypes DEF StopMark, Sched
  <2> QED BY <1>7, <2>1 DEF StopMark, Sched, Idle, JobTypes, TableEntry
<1>8. CASE StopCancel BY <1>8 DEF StopCancel, Sched, Idle, JobTypes
<1> QED BY <1>1, <1>2, <1>3, <1>4, <1>5, <1>6, <1>7, <1>8, <1>9 DEF Command, Serve

\* Every step of runBackup() and cleanupAfterBackup() keeps the types, on the
\* error paths and in a second cleanup too.
LEMMA BackupTypeOK == ASSUME TypeOK, NEW j \in Ids, BackupJob(j) PROVE TypeOK'
<1>0. /\ job[j] \in Job /\ job[j].name \in Names
      /\ job[j].outcome \in Outcomes /\ job[j].conn \in Conns /\ job[j].pass \in Passes
  <2>1. job[j].pc \in BackupPCs
    BY DEF BackupJob, BackupPCs, BackupStart, BackupRefused, BackupPrepareDb, BackupWork,
           BackupMarkDeleted, CleanupCheck, CleanupStopping, CleanupRecord, CleanupDetach,
           CleanupShut, CleanupDrained, CleanupUnlock, CleanupReopen, CleanupReopenRefused,
           CleanupFinish, CleanupRemove, CleanupLeave
  <2>2. job[j].pc \notin {"unused", "rRecord", "rRemove"} BY <2>1 DEF BackupPCs
  <2> QED BY <2>2 DEF TypeOK, JobOK, Job
<1>1. job[j].name # Empty /\ job[j].outcome # "unrecorded"
  BY <1>0, SchedulerAssumption DEF Outcomes
<1>2. /\ BackupPCs \subseteq PCs
      /\ {"none", "open", "stale"} \subseteq Conns
      /\ {"finished", "cancelled", "failed"} \subseteq Outcomes
      /\ {"once", "first", "second"} \subseteq Passes
  BY DEF PCs, Conns, Outcomes, Passes
<1>3. ASSUME NEW p \in BackupPCs PROVE
        /\ [job[j] EXCEPT !.pc = p] \in Job /\ JobOK([job[j] EXCEPT !.pc = p])
        /\ \A c \in Conns : /\ [job[j] EXCEPT !.pc = p, !.conn = c] \in Job
                             /\ JobOK([job[j] EXCEPT !.pc = p, !.conn = c])
        /\ \A o \in Outcomes : /\ [job[j] EXCEPT !.pc = p, !.outcome = o] \in Job
                                /\ JobOK([job[j] EXCEPT !.pc = p, !.outcome = o])
  BY <1>0, <1>1, <1>2, Moves
<1>4. ASSUME NEW g \in Job, JobOK(g), Becomes(j, g)
      PROVE  job' \in [Ids -> Job] /\ \A i \in Ids : JobOK(job'[i])
  BY <1>4, BecomesOK
<1>5. row' \in [Ids -> RowStates] \/ ~Recorded(j)
  BY <1>0 DEF TypeOK, Recorded, RowAfter, RowStates
<1>6. Disconnect(j) => db' \in [Names -> Entry] /\ leaving' \subseteq Handle
  <2>1. Disconnected(j) \in [Names -> Entry] BY <1>0, EntryTypes DEF TypeOK, Disconnected
  <2>2. Leaves(j, job[j].name) => leaving' \subseteq Handle
    BY <1>0, LeavesOK DEF Clients
  <2>3. leaving \subseteq Handle BY DEF TypeOK, Handle
  <2> QED BY <2>1, <2>2, <2>3 DEF Disconnect
<1>7. CASE BackupStart(j)
  <2>1. job' \in [Ids -> Job] /\ \A i \in Ids : JobOK(job'[i])
    BY <1>7, <1>0, <1>1, <1>2, <1>3, <1>4, GoneOK
       DEF BackupStart, BackupPCs
  <2> QED BY <1>7, <2>1 DEF TypeOK, SchedOK, BackupStart
<1>8. CASE BackupRefused(j)
  <2>1. job' \in [Ids -> Job] /\ \A i \in Ids : JobOK(job'[i])
    BY <1>8, <1>0, <1>1, <1>2, <1>3, <1>4
       DEF BackupRefused, BackupPCs
  <2> QED BY <1>8, <2>1 DEF TypeOK, SchedOK, BackupRefused
<1>9. CASE BackupPrepareDb(j)
  <2>1. job' \in [Ids -> Job] /\ \A i \in Ids : JobOK(job'[i])
    BY <1>9, <1>0, <1>1, <1>2, <1>3, <1>4, Moves
       DEF BackupPrepareDb, BackupPCs
  <2> QED BY <1>9, <2>1, <1>0, EntryTypes DEF TypeOK, SchedOK, BackupPrepareDb, RowStates
<1>10. CASE BackupWork(j)
  <2>1. job' \in [Ids -> Job] /\ \A i \in Ids : JobOK(job'[i])
    BY <1>10, <1>0, <1>1, <1>2, <1>3, <1>4
       DEF BackupWork, BackupPCs
  <2> QED BY <1>10, <2>1 DEF TypeOK, SchedOK, BackupWork
<1>11. CASE BackupMarkDeleted(j)
  <2>1. job' \in [Ids -> Job] /\ \A i \in Ids : JobOK(job'[i])
    BY <1>11, <1>0, <1>1, <1>2, <1>3, <1>4, Moves
       DEF BackupMarkDeleted, BackupPCs
  <2> QED BY <1>11, <2>1 DEF TypeOK, SchedOK, BackupMarkDeleted
<1>12. CASE CleanupCheck(j)
  <2>1. job' \in [Ids -> Job] /\ \A i \in Ids : JobOK(job'[i])
    BY <1>12, <1>0, <1>1, <1>2, <1>3, <1>4
       DEF CleanupCheck, BackupPCs
  <2> QED BY <1>12, <2>1 DEF TypeOK, SchedOK, CleanupCheck
<1>13. CASE CleanupStopping(j)
  <2>1. job' \in [Ids -> Job] /\ \A i \in Ids : JobOK(job'[i])
    BY <1>13, <1>0, <1>1, <1>2, <1>3, <1>4
       DEF CleanupStopping, BackupPCs
  <2> QED BY <1>13, <2>1, <1>0, TableTypes DEF TypeOK, SchedOK, TableEntry, CleanupStopping
<1>14. CASE CleanupRecord(j)
  <2>1. job' \in [Ids -> Job] /\ \A i \in Ids : JobOK(job'[i])
    BY <1>14, <1>0, <1>1, <1>2, <1>3, <1>4
       DEF CleanupRecord, BackupPCs
  <2> QED BY <1>14, <2>1, <1>5 DEF TypeOK, SchedOK, CleanupRecord
<1>15. CASE CleanupDetach(j)
  <2>1. job' \in [Ids -> Job] /\ \A i \in Ids : JobOK(job'[i])
    BY <1>15, <1>0, <1>1, <1>2, <1>3, <1>4
       DEF CleanupDetach, BackupPCs
  <2> QED BY <1>15, <2>1, <1>6 DEF TypeOK, SchedOK, CleanupDetach, Handle
<1>16. CASE CleanupShut(j)
  <2>1. job' \in [Ids -> Job] /\ \A i \in Ids : JobOK(job'[i])
    BY <1>16, <1>0, <1>1, <1>2, <1>3, <1>4
       DEF CleanupShut, BackupPCs
  <2> QED BY <1>16, <2>1, <1>0, EntryTypes DEF TypeOK, SchedOK, CleanupShut
<1>17. CASE CleanupDrained(j)
  <2>1. job' \in [Ids -> Job] /\ \A i \in Ids : JobOK(job'[i])
    BY <1>17, <1>0, <1>1, <1>2, <1>3, <1>4
       DEF CleanupDrained, BackupPCs
  <2> QED BY <1>17, <2>1 DEF TypeOK, SchedOK, CleanupDrained
<1>18. CASE CleanupUnlock(j)
  <2>1. job' \in [Ids -> Job] /\ \A i \in Ids : JobOK(job'[i])
    BY <1>18, <1>0, <1>1, <1>2, <1>3, <1>4
       DEF CleanupUnlock, BackupPCs
  <2> QED BY <1>18, <2>1, <1>0, EntryTypes DEF TypeOK, SchedOK, CleanupUnlock
<1>19. CASE CleanupReopen(j)
  <2>1. job' \in [Ids -> Job] /\ \A i \in Ids : JobOK(job'[i])
    BY <1>19, <1>0, <1>1, <1>2, <1>3, <1>4
       DEF CleanupReopen, BackupPCs
  <2>2. leaving' \subseteq Handle
    <3>1. leaving \subseteq Handle /\ j \in Clients BY DEF TypeOK, Handle, Clients
    <3> QED BY <1>19, <1>0, <3>1, LeavesOK DEF CleanupReopen
  <2> QED BY <1>19, <2>1, <2>2, <1>0, EntryTypes DEF TypeOK, SchedOK, CleanupReopen, Handle
<1>20. CASE CleanupReopenRefused(j)
  <2>1. job' \in [Ids -> Job] /\ \A i \in Ids : JobOK(job'[i])
    BY <1>20, <1>0, <1>1, <1>2, <1>3, <1>4
       DEF CleanupReopenRefused, BackupPCs
  <2> QED BY <1>20, <2>1 DEF TypeOK, SchedOK, CleanupReopenRefused
<1>21. CASE CleanupFinish(j)
  <2>1. job' \in [Ids -> Job] /\ \A i \in Ids : JobOK(job'[i])
    BY <1>21, <1>0, <1>1, <1>2, <1>3, <1>4
       DEF CleanupFinish, BackupPCs
  <2> QED BY <1>21, <2>1 DEF TypeOK, SchedOK, CleanupFinish
<1>22. CASE CleanupRemove(j)
  <2>1. job' \in [Ids -> Job] /\ \A i \in Ids : JobOK(job'[i])
    BY <1>22, <1>0, <1>1, <1>2, <1>3, <1>4
       DEF CleanupRemove, BackupPCs
  <2> QED BY <1>22, <2>1, <1>0, TableTypes DEF TypeOK, SchedOK, TableEntry, CleanupRemove
<1>23. CASE CleanupLeave(j)
  <2>1. job' \in [Ids -> Job] /\ \A i \in Ids : JobOK(job'[i])
    <3>1. CASE job[j].pass = "first"
      <4> DEFINE c == IF job[j].conn = "none" THEN job[j].conn ELSE "stale"
                 g == [job[j] EXCEPT !.pc = "check", !.outcome = "finished", !.pass = "second",
                                     !.conn = IF @ = "none" THEN @ ELSE "stale"]
      <4>1. c \in Conns /\ "check" \in PCs BY <1>0, <1>2 DEF BackupPCs
      <4>2. g = [job[j] EXCEPT !.pc = "check", !.outcome = "finished", !.pass = "second", !.conn = c]
        BY <1>0 DEF Job
      <4>3. g \in Job /\ JobOK(g)
        BY <1>0, <1>1, <1>2, <4>1, <4>2, Moves
      <4> QED BY <1>23, <3>1, <4>3, <1>4 DEF CleanupLeave
    <3>2. CASE job[j].pass # "first"
      BY <1>23, <3>2, <1>0, <1>1, <1>4, GoneOK DEF CleanupLeave
    <3> QED BY <3>1, <3>2
  <2> QED BY <1>23, <2>1, <1>5, <1>6 DEF TypeOK, SchedOK, CleanupLeave, Handle
<1> QED BY <1>7, <1>8, <1>9, <1>10, <1>11, <1>12, <1>13, <1>14, <1>15,
            <1>16, <1>17, <1>18, <1>19, <1>20, <1>21, <1>22, <1>23 DEF BackupJob

\* Every step of runRestore(), runResume() and cleanupAfterRestore() keeps
\* the types.
LEMMA RestoreTypeOK == ASSUME TypeOK, NEW j \in Ids, RestoreJob(j) PROVE TypeOK'
<1>0. /\ job[j] \in Job /\ job[j].name \in Names
      /\ job[j].pc \notin {"rRecord", "rRemove"} => job[j].outcome # "unrecorded"
  <2>1. job[j].pc \in RestorePCs
    BY DEF RestoreJob, RestorePCs, RestoreRefused, RestoreFailed, RestoreOpenDb, RestoreInit,
           RestoreEnd, RestoreRecord, RestoreRemove
  <2>2. job[j].pc # "unused" BY <2>1 DEF RestorePCs
  <2> QED BY <2>2 DEF TypeOK, JobOK, Job
<1>1. job[j].name # Empty
  BY <1>0, SchedulerAssumption
<1>2. RestorePCs \subseteq PCs /\ "none" \in Conns /\ "open" \in Conns
      /\ Outcomes \subseteq RowStates /\ "started" \in RowStates
  BY DEF PCs, Conns, RowStates
<1>3. ASSUME NEW g \in Job, JobOK(g), Becomes(j, g)
      PROVE  job' \in [Ids -> Job] /\ \A i \in Ids : JobOK(job'[i])
  BY <1>3, BecomesOK
<1>4. ASSUME NEW p \in RestorePCs, job[j].pc \notin {"rRecord", "rRemove"} PROVE
        /\ [job[j] EXCEPT !.pc = p] \in Job /\ JobOK([job[j] EXCEPT !.pc = p])
        /\ \A c \in Conns : /\ [job[j] EXCEPT !.pc = p, !.conn = c] \in Job
                             /\ JobOK([job[j] EXCEPT !.pc = p, !.conn = c])
        /\ \A o \in Outcomes : /\ [job[j] EXCEPT !.pc = p, !.outcome = o] \in Job
                                /\ JobOK([job[j] EXCEPT !.pc = p, !.outcome = o])
        /\ \A c \in Conns, o \in Outcomes :
             /\ [job[j] EXCEPT !.pc = p, !.conn = c, !.outcome = o] \in Job
             /\ JobOK([job[j] EXCEPT !.pc = p, !.conn = c, !.outcome = o])
  <2>1. "once" \in Passes BY DEF Passes
  <2>2. "none" \in Conns /\ "failed" \in Outcomes BY DEF Conns, Outcomes
  <2> QED BY <1>0, <1>1, <1>2, <1>4, <2>1, <2>2, Moves
<1>5. CASE RestoreRefused(j)
  <2> DEFINE g == [job[j] EXCEPT !.pc = "rRecord", !.outcome = "unrecorded"]
  <2>1. g \in Job /\ JobOK(g) BY <1>0, <1>1 DEF Job, JobOK, PCs, RestorePCs
  <2> QED BY <1>5, <1>3, <2>1 DEF TypeOK, SchedOK, RestoreRefused
<1>6. CASE RestoreFailed(j)
  <2>1. job' \in [Ids -> Job] /\ \A i \in Ids : JobOK(job'[i])
    BY <1>6, <1>3, <1>4 DEF RestoreFailed, RestorePCs, Outcomes
  <2> QED BY <1>6, <2>1 DEF TypeOK, SchedOK, RestoreFailed
<1>7. CASE RestoreOpenDb(j)
  <2>1. job' \in [Ids -> Job] /\ \A i \in Ids : JobOK(job'[i])
    BY <1>7, <1>2, <1>3, <1>4 DEF RestoreOpenDb, RestorePCs
  <2> QED BY <1>7, <1>0, <2>1, EntryTypes DEF TypeOK, SchedOK, RestoreOpenDb
<1>8. CASE RestoreInit(j)
  <2>1. job' \in [Ids -> Job] /\ \A i \in Ids : JobOK(job'[i])
    BY <1>8, <1>3, <1>4 DEF RestoreInit, RestorePCs
  <2> QED BY <1>8, <1>2, <2>1 DEF TypeOK, SchedOK, RestoreInit
<1>9. CASE RestoreEnd(j)
  <2>1. job' \in [Ids -> Job] /\ \A i \in Ids : JobOK(job'[i])
    <3>1. PICK o \in Outcomes :
            Becomes(j, [job[j] EXCEPT !.pc = "rRecord", !.conn = "none", !.outcome = o])
      BY <1>9 DEF RestoreEnd, Outcomes
    <3>2. job[j].pc \notin {"rRecord", "rRemove"} /\ "rRecord" \in RestorePCs
      BY <1>9 DEF RestoreEnd, RestorePCs
    <3> QED BY <3>1, <3>2, <1>2, <1>3, <1>4
  <2>2. leaving' \subseteq Handle
    <3>1. j \in Clients BY DEF Clients
    <3> QED BY <1>9, <1>0, <3>1, LeavesOK DEF RestoreEnd
  <2> QED BY <1>9, <1>0, <2>1, <2>2, EntryTypes DEF TypeOK, SchedOK, RestoreEnd, Handle
<1>10. CASE RestoreRecord(j)
  <2> DEFINE g == [job[j] EXCEPT !.pc = "rRemove"]
  <2>1. g \in Job /\ JobOK(g) BY <1>0, <1>1 DEF Job, JobOK, PCs, RestorePCs
  <2>2. job' \in [Ids -> Job] /\ \A i \in Ids : JobOK(job'[i])
    BY <1>10, <1>3, <2>1 DEF RestoreRecord
  <2>3. row' \in [Ids -> RowStates]
    <3>1. job[j].outcome # "unrecorded" => job[j].outcome \in RowStates BY <1>0, <1>2 DEF Job
    <3> QED BY <1>10, <3>1 DEF TypeOK, RestoreRecord
  <2> QED BY <1>10, <2>2, <2>3 DEF TypeOK, SchedOK, RestoreRecord
<1>11. CASE RestoreRemove(j)
  <2>1. job' \in [Ids -> Job] /\ \A i \in Ids : JobOK(job'[i])
    BY <1>11, <1>0, <1>1, <1>3, GoneOK DEF RestoreRemove
  <2> QED BY <1>11, <1>0, <2>1, TableTypes DEF TypeOK, SchedOK, TableEntry, RestoreRemove
<1> QED BY <1>5, <1>6, <1>7, <1>8, <1>9, <1>10, <1>11 DEF RestoreJob

\* The report handlers' opening and closing of a database keeps the types.
LEMMA ReaderTypeOK ==
  ASSUME TypeOK, NEW r \in Readers, ReaderClose(r) \/ \E n \in Names : ReaderOpen(r, n)
  PROVE  TypeOK'
<1>1. CASE ReaderClose(r)
  <2>1. reader[r] \in Names /\ r \in Clients BY <1>1 DEF TypeOK, ReaderClose, Clients
  <2>2. leaving' \subseteq Handle BY <1>1, <2>1, LeavesOK DEF ReaderClose
  <2> QED
    BY <1>1, <2>1, <2>2, EntryTypes, SchedulerAssumption DEF TypeOK, SchedOK, ReaderClose, Handle
<1>2. ASSUME NEW n \in Names, ReaderOpen(r, n) PROVE TypeOK'
  BY <1>2, EntryTypes DEF TypeOK, SchedOK, ReaderOpen
<1> QED BY <1>1, <1>2

\* Type correctness is inductive by itself.
LEMMA NextTypeOK == TypeOK /\ [Next]_vars => TypeOK'
<1> SUFFICES ASSUME TypeOK, [Next]_vars PROVE TypeOK'
  OBVIOUS
<1>1. CASE Next
  <2>1. CASE \E c \in Clients : CloseHandle(c) BY <2>1 DEF CloseHandle, TypeOK, SchedOK
  <2> QED
    BY <1>1, <2>1, ProcessTypeOK, CommandTypeOK, BackupTypeOK, RestoreTypeOK, ReaderTypeOK DEF Next
<1>2. CASE UNCHANGED vars
  BY <1>2 DEF vars, TypeOK, SchedOK
<1> QED BY <1>1, <1>2

\* The scheduler, the table, the jobs and the counters keep their types for
\* any number of names, jobs and reports, whichever statements fail and
\* however often the process ends: no step of cleanupAfterBackup() that
\* follows an error or a second cleanup leaves the set of known states.
THEOREM TypeCorrect == Spec => []TypeOK
<1>1. Init => TypeOK BY InitTypeOK
<1>2. TypeOK /\ [Next]_vars => TypeOK' BY NextTypeOK
<1> QED BY <1>1, <1>2, PTL DEF Spec

-----------------------------------------------------------------------------
(* One job per name, and every entry with its goroutine.                   *)

CleanupPCs == BackupPCs \ {"launched", "prepare", "work", "markdel"}

\* Only cleanups are repeated: a job in its second pass is past its work.
RepeatsCleanup ==
  \A j \in Ids : job[j].pass # "once" => job[j].pc \in CleanupPCs

SlotInv == OneJobPerName /\ SlotsOwned /\ RepeatsCleanup

\* The entries of a table, apart from their states.
SameSlots(r, s) ==
  /\ \A e \in r : \E f \in s : e.name = f.name /\ e.id = f.id
  /\ \A f \in s : \E e \in r : e.name = f.name /\ e.id = f.id

\* Marking a job as stopping removes and adds no entry.
LEMMA StoppingKeepsSlots ==
  ASSUME TypeOK, OneJobPerName, NEW n \in Names, NEW i \in Ids \cup {Empty}
  PROVE  LET s == MarkStopped(running, n, i, FALSE) IN
         SameSlots(running, s) /\ \A e, f \in s : e.name = f.name => e = f
<1> DEFINE s == MarkStopped(running, n, i, FALSE)
<1>1. CASE ~IsRunning(running, n, i)
  BY <1>1 DEF MarkStopped, SameSlots, OneJobPerName
<1>2. CASE IsRunning(running, n, i)
  <2>1. PICK x \in running : Matches(x, n, i) /\ x.name = n
    BY <1>2 DEF IsRunning, Matches
  <2>2. \A e \in running : e.name = n => e = x
    BY <2>1 DEF OneJobPerName
  <2> DEFINE y == [x EXCEPT !.state = "stopping"]
  <2>3. s = {e \in running : e.name # n} \cup {y}
    <3>1. {z \in running : Matches(z, n, i)} = {x}
      BY <2>1, <2>2 DEF Matches
    <3> QED BY <1>2, <3>1 DEF MarkStopped
  <2>4. y.name = n /\ y.id = x.id
    BY <2>1 DEF TypeOK
  <2> HIDE DEF y, s
  <2>5. SameSlots(running, s)
    BY <2>1, <2>2, <2>3, <2>4 DEF SameSlots
  <2>6. \A e, f \in s : e.name = f.name => e = f
    BY <2>3, <2>4 DEF OneJobPerName
  <2> QED BY <2>5, <2>6 DEF s
<1> QED BY <1>1, <1>2

\* Removing the entry of a job removes this entry only.
LEMMA RemovalFreesSlot ==
  ASSUME OneJobPerName, NEW n, NEW i, i # Empty, IsRunning(running, n, i)
  PROVE  MarkStopped(running, n, i, TRUE) = {e \in running : e.name # n}
  BY DEF MarkStopped

\* A step that keeps the table's entries, and leaves one goroutine with its
\* name and with its claim to an entry.
LEMMA StepKeepsSlots ==
  ASSUME TypeOK, SlotInv, NEW j \in Ids, NEW g, Becomes(j, g),
         SameSlots(running, running'), \A e, f \in running' : e.name = f.name => e = f,
         g.name = job[j].name, Holds(g) <=> Holds(job[j]),
         g.pass # "once" => g.pc \in CleanupPCs
  PROVE  SlotInv'
<1>1. \A i \in Ids : /\ job'[i].name = job[i].name
                     /\ HoldsSlot(i)' <=> HoldsSlot(i)
                     /\ job'[i].pass # "once" => job'[i].pc \in CleanupPCs
  BY DEF Becomes, HoldsSlot, Holds, TypeOK, SlotInv, RepeatsCleanup
<1>2. RepeatsCleanup' /\ OneJobPerName'
  BY <1>1 DEF RepeatsCleanup, OneJobPerName
<1>3. \A e \in running' : HoldsSlot(e.id)' /\ job'[e.id].name = e.name
  <2> SUFFICES ASSUME NEW e \in running' PROVE HoldsSlot(e.id)' /\ job'[e.id].name = e.name
    OBVIOUS
  <2>1. PICK f \in running : f.name = e.name /\ f.id = e.id BY DEF SameSlots
  <2>2. f.id \in Ids BY DEF TypeOK
  <2> QED BY <1>1, <2>1, <2>2 DEF SlotInv, SlotsOwned
<1>4. \A i \in Ids : HoldsSlot(i)' => IsRunning(running', job'[i].name, i)
  <2> SUFFICES ASSUME NEW i \in Ids, HoldsSlot(i)' PROVE IsRunning(running', job'[i].name, i)
    OBVIOUS
  <2>1. PICK e \in running : e.name = job[i].name /\ e.id = i
    BY <1>1, SchedulerAssumption DEF SlotInv, SlotsOwned, IsRunning, Matches
  <2>2. PICK f \in running' : f.name = e.name /\ f.id = e.id BY DEF SameSlots
  <2> QED BY <1>1, <2>1, <2>2 DEF IsRunning, Matches
<1> QED BY <1>2, <1>3, <1>4 DEF SlotInv, SlotsOwned

\* An entry is added together with the goroutine that holds it.
LEMMA StartTakesSlot ==
  ASSUME TypeOK, SlotInv, NEW j \in Ids, NEW n \in Names, NEW t, NEW g,
         ~Holds(job[j]), Becomes(j, g), Holds(g), g.name = n, g.pass = "once",
         CanMarkRunning(running, n), running' = MarkRunning(running, t, n, j)
  PROVE  SlotInv'
<1>1. \A e \in running : e.name # n /\ e.id # j
  BY DEF CanMarkRunning, IsRunning, Matches, SlotInv, SlotsOwned, HoldsSlot
<1>2. \A i \in Ids : i # j => job'[i] = job[i]
  BY DEF Becomes, TypeOK
<1>3. job'[j] = g
  BY DEF Becomes, TypeOK
<1> DEFINE x == [type |-> t, name |-> n, id |-> j, state |-> "running"]
<1>4. running' = running \cup {x} /\ x.name = n /\ x.id = j
  BY DEF MarkRunning
<1> HIDE DEF x
<1>5. OneJobPerName'
  BY <1>1, <1>4 DEF SlotInv, OneJobPerName
<1>6. RepeatsCleanup'
  BY <1>2, <1>3 DEF SlotInv, RepeatsCleanup
<1>7. \A e \in running' : HoldsSlot(e.id)' /\ job'[e.id].name = e.name
  <2>1. HoldsSlot(j)' /\ job'[j].name = n BY <1>3 DEF HoldsSlot, Holds
  <2>2. ASSUME NEW e \in running PROVE HoldsSlot(e.id)' /\ job'[e.id].name = e.name
    <3>1. e.id \in Ids /\ e.id # j BY <1>1 DEF TypeOK
    <3> QED BY <1>2, <3>1 DEF SlotInv, SlotsOwned, HoldsSlot, Holds
  <2> QED BY <1>4, <2>1, <2>2
<1>8. \A i \in Ids : HoldsSlot(i)' => IsRunning(running', job'[i].name, i)
  BY <1>2, <1>3, <1>4 DEF SlotInv, SlotsOwned, HoldsSlot, Holds, IsRunning, Matches
<1> QED BY <1>5, <1>6, <1>7, <1>8 DEF SlotInv, SlotsOwned

\* An entry is removed by the goroutine that holds it; a goroutine that does
\* not hold one finds nothing to remove.
LEMMA EndFreesSlot ==
  ASSUME TypeOK, SlotInv, NEW j \in Ids, NEW g, Becomes(j, g), ~Holds(g),
         job[j].pc \in SlotPCs, g.name = job[j].name,
         g.pass # "once" => g.pc \in CleanupPCs,
         running' = MarkStopped(running, job[j].name, j, TRUE)
  PROVE  SlotInv'
<1>1. \A i \in Ids : i # j => job'[i] = job[i]
  BY DEF Becomes, TypeOK
<1>2. job'[j] = g
  BY DEF Becomes, TypeOK
<1>3. RepeatsCleanup'
  BY <1>1, <1>2 DEF SlotInv, RepeatsCleanup
<1>4. running' \subseteq running /\ \A e \in running' : e.id # j
  <2>1. CASE IsRunning(running, job[j].name, j)
    <3>1. running' = {e \in running : e.name # job[j].name}
      BY <2>1, RemovalFreesSlot, SchedulerAssumption DEF SlotInv
    <3> QED BY <3>1 DEF SlotInv, SlotsOwned
  <2>2. CASE ~IsRunning(running, job[j].name, j)
    BY <2>2 DEF MarkStopped, SlotInv, SlotsOwned, IsRunning, Matches
  <2> QED BY <2>1, <2>2
<1>5. \A e \in running : e.id # j => e \in running'
  <2>1. CASE IsRunning(running, job[j].name, j)
    <3>1. running' = {e \in running : e.name # job[j].name}
      BY <2>1, RemovalFreesSlot, SchedulerAssumption DEF SlotInv
    <3>2. PICK x \in running : x.name = job[j].name /\ x.id = j
      BY <2>1, SchedulerAssumption DEF IsRunning, Matches
    <3> QED BY <3>1, <3>2 DEF SlotInv, OneJobPerName
  <2>2. CASE ~IsRunning(running, job[j].name, j)
    BY <2>2 DEF MarkStopped
  <2> QED BY <2>1, <2>2
<1>6. OneJobPerName'
  BY <1>4 DEF SlotInv, OneJobPerName
<1>7. \A e \in running' : HoldsSlot(e.id)' /\ job'[e.id].name = e.name
  <2> SUFFICES ASSUME NEW e \in running' PROVE HoldsSlot(e.id)' /\ job'[e.id].name = e.name
    OBVIOUS
  <2>1. e \in running /\ e.id # j /\ e.id \in Ids BY <1>4 DEF TypeOK
  <2> QED BY <1>1, <2>1 DEF SlotInv, SlotsOwned, HoldsSlot, Holds
<1>8. \A i \in Ids : HoldsSlot(i)' => IsRunning(running', job'[i].name, i)
  <2> SUFFICES ASSUME NEW i \in Ids, HoldsSlot(i)' PROVE IsRunning(running', job'[i].name, i)
    OBVIOUS
  <2>1. i # j BY <1>2 DEF HoldsSlot
  <2>2. PICK e \in running : e.name = job[i].name /\ e.id = i
    BY <1>1, <2>1, SchedulerAssumption DEF SlotInv, SlotsOwned, HoldsSlot, IsRunning, Matches
  <2> QED BY <1>1, <1>5, <2>1, <2>2 DEF IsRunning, Matches
<1> QED BY <1>3, <1>6, <1>7, <1>8 DEF SlotInv, SlotsOwned

\* No job and no entry at the first start.
LEMMA InitSlots == Init => SlotInv
  BY DEF Init, SlotInv, OneJobPerName, SlotsOwned, RepeatsCleanup, HoldsSlot, Holds, Unused,
         SlotPCs, BackupPCs, RestorePCs

\* A step that touches neither the table nor the goroutines.
LEMMA IdleSlots == ASSUME SlotInv, running' = running, job' = job PROVE SlotInv'
  BY DEF SlotInv, OneJobPerName, SlotsOwned, RepeatsCleanup, HoldsSlot, Holds

\* A process that ends takes table and goroutines with it; start-up, signals
\* and reloads touch neither.
LEMMA ProcessSlots == ASSUME TypeOK, SlotInv, Process PROVE SlotInv'
<1>1. ASSUME NEW how, ProcessEnds(how) PROVE SlotInv'
  <2>1. \A j \in Ids : job'[j].pc \in {"unused", "gone"} /\ job'[j].pass = "once"
    BY <1>1 DEF ProcessEnds, Unused, Gone
  <2> QED BY <1>1, <2>1 DEF ProcessEnds, SlotInv, OneJobPerName, SlotsOwned, RepeatsCleanup,
                            HoldsSlot, Holds, SlotPCs, BackupPCs, RestorePCs
<1>2. CASE Crash BY <1>1, <1>2 DEF Crash
<1>3. CASE Sigterm BY <1>1, <1>3 DEF Sigterm
<1>4. CASE AllStopped BY <1>1, <1>4 DEF AllStopped
<1>5. CASE StopAll BY <1>5, IdleSlots DEF StopAll
<1>6. CASE Boot BY <1>6, IdleSlots DEF Boot
<1>7. CASE PutConfig BY <1>7, IdleSlots DEF PutConfig
<1> QED BY <1>2, <1>3, <1>4, <1>5, <1>6, <1>7 DEF Process

\* Commands keep table and goroutines together: an entry is made by StartJob
\* and ResumeCmd together with its goroutine, a stop only marks it.
LEMMA CommandSlots == ASSUME TypeOK, SlotInv, Command \/ Serve PROVE SlotInv'
<1>1. ASSUME NEW t \in JobTypes, NEW n \in Names, StartCmd(t, n) PROVE SlotInv'
  BY <1>1, IdleSlots DEF StartCmd
<1>2. ASSUME NEW n \in Names, NEW i \in Ids \cup {Empty}, StopCmd(n, i) PROVE SlotInv'
  BY <1>2, IdleSlots DEF StopCmd
<1>3. ASSUME NEW j \in Ids, ResumeCmd(j) PROVE SlotInv'
  <2> DEFINE g == [job[j] EXCEPT !.pc = "rLaunched"]
  <2>1. job[j] \in Job /\ job[j].name \in Names /\ job[j].pass = "once" /\ ~Holds(job[j])
    BY <1>3 DEF ResumeCmd, TypeOK, Job, JobOK, SlotInv, RepeatsCleanup, CleanupPCs, BackupPCs,
                Holds, SlotPCs, RestorePCs
  <2>2. g.name = job[j].name /\ g.pass = "once" /\ g.pc = "rLaunched"
    BY <2>1 DEF Job
  <2>3. Holds(g) BY <2>2 DEF Holds, SlotPCs, RestorePCs
  <2> HIDE DEF g
  <2> QED BY <1>3, <2>1, <2>2, <2>3, StartTakesSlot DEF ResumeCmd, g
<1>4. CASE ProbeOpen \/ ProbeLeave BY <1>4, IdleSlots DEF ProbeOpen, ProbeLeave
<1>5. CASE ProbeRefused BY <1>5, IdleSlots DEF ProbeRefused
<1>6. CASE StartJob
  <2>0. sched.name \in Names /\ sched.type \in JobTypes BY <1>6 DEF StartJob, TypeOK, SchedOK, Sched
  <2>1. CASE CanMarkRunning(running, sched.name)
    <3> DEFINE g == [Unused EXCEPT !.pc = IF sched.type = "backup" THEN "launched" ELSE "rLaunched",
                                   !.type = sched.type, !.name = sched.name]
    <3>1. PICK j \in Fresh : /\ running' = MarkRunning(running, sched.type, sched.name, j)
                             /\ Becomes(j, g)
      BY <1>6, <2>1 DEF StartJob
    <3>2. g.name = sched.name /\ g.pass = "once" /\ g.pc \in {"launched", "rLaunched"}
      BY DEF Unused
    <3>3. Holds(g) BY <3>2 DEF Holds, SlotPCs, BackupPCs, RestorePCs
    <3>4. ~Holds(job[j]) /\ j \in Ids BY DEF Fresh, Holds, SlotPCs, BackupPCs, RestorePCs
    <3> HIDE DEF g
    <3> QED BY <2>0, <2>1, <3>1, <3>2, <3>3, <3>4, StartTakesSlot
  <2>2. CASE ~CanMarkRunning(running, sched.name) BY <1>6, <2>2, IdleSlots DEF StartJob
  <2> QED BY <2>1, <2>2
<1>7. CASE StopMark
  <2>0. sched.name \in Names /\ sched.id \in Ids \cup {Empty}
    BY <1>7 DEF StopMark, TypeOK, SchedOK, Sched
  <2>1. SameSlots(running, running') /\ \A e, f \in running' : e.name = f.name => e = f
    BY <1>7, <2>0, StoppingKeepsSlots DEF StopMark, SlotInv
  <2>2. CASE Ids = {}
    <3>1. running = {} BY <2>2 DEF TypeOK
    <3>2. running' = running BY <1>7, <3>1 DEF StopMark, MarkStopped, IsRunning
    <3> QED BY <1>7, <3>2, IdleSlots DEF StopMark
  <2>3. CASE Ids # {}
    <3>1. PICK j \in Ids : TRUE BY <2>3
    <3>2. Becomes(j, job[j]) BY <1>7 DEF StopMark, Becomes, TypeOK
    <3> QED BY <2>1, <3>1, <3>2, StepKeepsSlots DEF SlotInv, RepeatsCleanup
  <2> QED BY <2>2, <2>3
<1>8. CASE StopCancel BY <1>8, IdleSlots DEF StopCancel
<1> QED BY <1>1, <1>2, <1>3, <1>4, <1>5, <1>6, <1>7, <1>8 DEF Command, Serve

\* A job that goes on within its claim, the table being as it was.
LEMMA MoveKeepsSlots ==
  ASSUME TypeOK, SlotInv, NEW j \in Ids, NEW g, Becomes(j, g), running' = running,
         job[j].pc \in SlotPCs, g.pc \in SlotPCs, g.name = job[j].name,
         \/ g.pass = job[j].pass /\ (job[j].pc \in CleanupPCs => g.pc \in CleanupPCs)
         \/ job[j].pass # "second" /\ g.pass = "first" /\ g.pc \in CleanupPCs
  PROVE  SlotInv'
<1>1. SameSlots(running, running') /\ \A e, f \in running' : e.name = f.name => e = f
  BY DEF SameSlots, SlotInv, OneJobPerName
<1>2. Holds(g) <=> Holds(job[j]) BY DEF Holds
<1>3. g.pass # "once" => g.pc \in CleanupPCs BY DEF SlotInv, RepeatsCleanup
<1> QED BY <1>1, <1>2, <1>3, StepKeepsSlots

\* The same, for the ways in which the fields of a goroutine change.
LEMMA MoveTo ==
  ASSUME TypeOK, SlotInv, NEW j \in Ids, running' = running,
         job[j].pc \in SlotPCs, NEW p \in SlotPCs, NEW c, NEW o,
         job[j].pc \in CleanupPCs => p \in CleanupPCs,
         \/ Becomes(j, [job[j] EXCEPT !.pc = p])
         \/ Becomes(j, [job[j] EXCEPT !.pc = p, !.conn = c])
         \/ Becomes(j, [job[j] EXCEPT !.pc = p, !.outcome = o])
         \/ Becomes(j, [job[j] EXCEPT !.pc = p, !.conn = c, !.outcome = o])
  PROVE  SlotInv'
<1>0. job[j] \in Job BY DEF TypeOK
<1>1. ASSUME NEW g, Becomes(j, g), g.pc = p, g.name = job[j].name, g.pass = job[j].pass
      PROVE  SlotInv'
  BY <1>1, MoveKeepsSlots
<1> DEFINE a == [job[j] EXCEPT !.pc = p]
           b == [job[j] EXCEPT !.pc = p, !.conn = c]
           d == [job[j] EXCEPT !.pc = p, !.outcome = o]
           f == [job[j] EXCEPT !.pc = p, !.conn = c, !.outcome = o]
<1>2. /\ a.pc = p /\ a.name = job[j].name /\ a.pass = job[j].pass
      /\ b.pc = p /\ b.name = job[j].name /\ b.pass = job[j].pass
      /\ d.pc = p /\ d.name = job[j].name /\ d.pass = job[j].pass
      /\ f.pc = p /\ f.name = job[j].name /\ f.pass = job[j].pass
  BY <1>0 DEF Job
<1>3. Becomes(j, a) \/ Becomes(j, b) \/ Becomes(j, d) \/ Becomes(j, f)
  OBVIOUS
<1> HIDE DEF a, b, d, f
<1> QED BY <1>1, <1>2, <1>3

\* A backup job keeps its entry until CleanupRemove takes it away; a second
\* cleanup finds nothing to mark or to remove.
LEMMA BackupSlots == ASSUME TypeOK, SlotInv, NEW j \in Ids, BackupJob(j) PROVE SlotInv'
<1> USE DEF SlotPCs, CleanupPCs, BackupPCs
<1>0. job[j] \in Job BY DEF TypeOK
<1>1. CASE BackupStart(j)
  <2>1. job[j].pass = "once" BY <1>1 DEF BackupStart, SlotInv, RepeatsCleanup
  <2>2. IsRunning(running, job[j].name, j)
    BY <1>1, <2>1 DEF BackupStart, SlotInv, SlotsOwned, HoldsSlot, Holds
  <2> QED BY <1>1, <2>2, MoveTo DEF BackupStart
<1>2. CASE BackupRefused(j) BY <1>2, MoveTo DEF BackupRefused
<1>3. CASE BackupPrepareDb(j) BY <1>3, MoveTo DEF BackupPrepareDb
<1>4. CASE BackupWork(j) BY <1>4, MoveTo DEF BackupWork
<1>5. CASE BackupMarkDeleted(j)
  <2>1. CASE Becomes(j, [job[j] EXCEPT !.pc = "check"])
    BY <1>5, <2>1, MoveTo DEF BackupMarkDeleted
  <2>2. ASSUME Becomes(j, [job[j] EXCEPT !.pc = "check", !.outcome = "cancelled", !.pass = "first"])
        PROVE  SlotInv'
    <3> DEFINE g == [job[j] EXCEPT !.pc = "check", !.outcome = "cancelled", !.pass = "first"]
    <3>1. g.pc = "check" /\ g.name = job[j].name /\ g.pass = "first" BY <1>0 DEF Job
    <3>2. job[j].pass = "once" /\ job[j].pc = "markdel" /\ running' = running
      BY <1>5 DEF BackupMarkDeleted, SlotInv, RepeatsCleanup
    <3> HIDE DEF g
    <3> QED BY <2>2, <3>1, <3>2, MoveKeepsSlots DEF g
  <2> QED BY <1>5, <2>1, <2>2 DEF BackupMarkDeleted
<1>6. CASE CleanupCheck(j) BY <1>6, MoveTo DEF CleanupCheck
<1>7. CASE CleanupStopping(j)
  <2> DEFINE g == [job[j] EXCEPT !.pc = "record"]
  <2>1. g.pc = "record" /\ g.name = job[j].name /\ g.pass = job[j].pass BY <1>0 DEF Job
  <2>2. Becomes(j, g) /\ job[j].pc = "post" BY <1>7 DEF CleanupStopping
  <2>3. job[j].name \in Names BY <1>0, <2>2 DEF TypeOK, JobOK, Job
  <2>4. SameSlots(running, running') /\ \A e, f \in running' : e.name = f.name => e = f
    BY <1>7, <2>3, StoppingKeepsSlots DEF CleanupStopping, SlotInv
  <2> HIDE DEF g
  <2> QED BY <2>1, <2>2, <2>4, StepKeepsSlots DEF Holds
<1>8. CASE CleanupRecord(j) BY <1>8, MoveTo DEF CleanupRecord
<1>9. CASE CleanupDetach(j) BY <1>9, MoveTo DEF CleanupDetach
<1>10. CASE CleanupShut(j) BY <1>10, MoveTo DEF CleanupShut
<1>11. CASE CleanupDrained(j) BY <1>11, MoveTo DEF CleanupDrained
<1>12. CASE CleanupUnlock(j) BY <1>12, MoveTo DEF CleanupUnlock
<1>13. CASE CleanupReopen(j) BY <1>13, MoveTo DEF CleanupReopen
<1>14. CASE CleanupReopenRefused(j) BY <1>14, MoveTo DEF CleanupReopenRefused
<1>15. CASE CleanupFinish(j) BY <1>15, MoveTo DEF CleanupFinish
<1>16. CASE CleanupRemove(j)
  <2> DEFINE g == [job[j] EXCEPT !.pc = "leave"]
  <2>1. g.pc = "leave" /\ g.name = job[j].name BY <1>0 DEF Job
  <2>2. ~Holds(g) BY <2>1 DEF Holds, RestorePCs
  <2>3. Becomes(j, g) /\ job[j].pc = "remove" BY <1>16 DEF CleanupRemove
  <2> HIDE DEF g
  <2> QED BY <1>16, <2>1, <2>2, <2>3, EndFreesSlot DEF CleanupRemove
<1>17. CASE CleanupLeave(j)
  <2>1. PICK g : /\ Becomes(j, g) /\ g.name = job[j].name
                 /\ \/ g.pc = "check" /\ g.pass = "second"
                    \/ g.pc = "gone" /\ g.pass = "once"
    <3> DEFINE g == [job[j] EXCEPT !.pc = "check", !.outcome = "finished", !.pass = "second",
                                   !.conn = IF @ = "none" THEN @ ELSE "stale"]
    <3>1. g.pc = "check" /\ g.pass = "second" /\ g.name = job[j].name BY <1>0 DEF Job
    <3>2. Gone(job[j]).pc = "gone" /\ Gone(job[j]).pass = "once" /\ Gone(job[j]).name = job[j].name
      BY DEF Gone, Unused
    <3>3. Becomes(j, g) \/ Becomes(j, Gone(job[j])) BY <1>17 DEF CleanupLeave
    <3> HIDE DEF g
    <3> QED BY <3>1, <3>2, <3>3
  <2>2. ~Holds(g) /\ ~Holds(job[j]) BY <1>17, <2>1 DEF CleanupLeave, Holds, RestorePCs
  <2>3. SameSlots(running, running') /\ \A e, f \in running' : e.name = f.name => e = f
    BY <1>17 DEF CleanupLeave, SameSlots, SlotInv, OneJobPerName
  <2> QED BY <2>1, <2>2, <2>3, StepKeepsSlots
<1> QED
  BY <1>1, <1>2, <1>3, <1>4, <1>5, <1>6, <1>7, <1>8, <1>9,
     <1>10, <1>11, <1>12, <1>13, <1>14, <1>15, <1>16, <1>17
     DEF BackupJob

\* A restore job keeps its entry until RestoreRemove takes it away.
LEMMA RestoreSlots == ASSUME TypeOK, SlotInv, NEW j \in Ids, RestoreJob(j) PROVE SlotInv'
<1> USE DEF SlotPCs, CleanupPCs, BackupPCs, RestorePCs
<1>1. CASE RestoreRefused(j) BY <1>1, MoveTo DEF RestoreRefused
<1>2. CASE RestoreFailed(j) BY <1>2, MoveTo DEF RestoreFailed
<1>3. CASE RestoreOpenDb(j) BY <1>3, MoveTo DEF RestoreOpenDb
<1>4. CASE RestoreInit(j) BY <1>4, MoveTo DEF RestoreInit
<1>5. CASE RestoreEnd(j)
  <2>1. PICK o : Becomes(j, [job[j] EXCEPT !.pc = "rRecord", !.conn = "none", !.outcome = o])
    BY <1>5 DEF RestoreEnd
  <2> QED BY <1>5, <2>1, MoveTo DEF RestoreEnd
<1>6. CASE RestoreRecord(j) BY <1>6, MoveTo DEF RestoreRecord
<1>7. CASE RestoreRemove(j)
  <2>1. Gone(job[j]).pc = "gone" /\ Gone(job[j]).name = job[j].name /\ Gone(job[j]).pass = "once"
    BY DEF Gone, Unused
  <2>2. ~Holds(Gone(job[j])) BY <2>1 DEF Holds
  <2> QED BY <1>7, <2>1, <2>2, EndFreesSlot DEF RestoreRemove
<1> QED BY <1>1, <1>2, <1>3, <1>4, <1>5, <1>6, <1>7 DEF RestoreJob

\* SlotInv is inductive relative to TypeOK.
LEMMA NextSlots == TypeOK /\ SlotInv /\ [Next]_vars => SlotInv'
<1> SUFFICES ASSUME TypeOK, SlotInv, [Next]_vars PROVE SlotInv'
  OBVIOUS
<1>1. CASE Process \/ Command \/ Serve BY <1>1, ProcessSlots, CommandSlots
<1>2. CASE \E j \in Ids : BackupJob(j) \/ RestoreJob(j) BY <1>2, BackupSlots, RestoreSlots
<1>3. CASE \E r \in Readers : ReaderClose(r) \/ \E n \in Names : ReaderOpen(r, n)
  BY <1>3, IdleSlots DEF ReaderClose, ReaderOpen
<1>4. CASE UNCHANGED vars BY <1>4, IdleSlots DEF vars
<1>5. CASE \E c \in Clients : CloseHandle(c) BY <1>5, IdleSlots DEF CloseHandle
<1> QED BY <1>1, <1>2, <1>3, <1>4, <1>5 DEF Next

\* Whatever is started, stopped, resumed, cancelled or cleaned up twice, a
\* name never has two entries in the table of running jobs.
THEOREM JobsExclusive == Spec => []OneJobPerName
<1>1. Init => SlotInv BY InitSlots
<1>2. TypeOK /\ SlotInv /\ [Next]_vars => SlotInv' BY NextSlots
<1>3. SlotInv => OneJobPerName BY DEF SlotInv
<1> QED BY <1>1, <1>2, <1>3, TypeCorrect, PTL DEF Spec

\* Every entry of the table is held by a goroutine under way and every such
\* goroutine finds its entry: runBackup() never takes the early return of a
\* job that lost its entry, and no name stays blocked by a job that is gone.
THEOREM EntriesOwned == Spec => []SlotsOwned
<1>1. Init => SlotInv BY InitSlots
<1>2. TypeOK /\ SlotInv /\ [Next]_vars => SlotInv' BY NextSlots
<1>3. SlotInv => SlotsOwned BY DEF SlotInv
<1> QED BY <1>1, <1>2, <1>3, TypeCorrect, PTL DEF Spec

-----------------------------------------------------------------------------
(* The table implements the slots of JobSlots.                             *)

SlotMap == [n \in Names |-> SlotOf(n)]

\* The slot of a name is its entry, which is the only one.
LEMMA SlotIsEntry ==
  ASSUME OneJobPerName, NEW n
  PROVE  /\ \A e \in running : e.name = n => SlotOf(n) = [id |-> e.id, state |-> e.state]
         /\ (\A e \in running : e.name # n) => SlotOf(n) = [id |-> Empty, state |-> "free"]
<1>1. ASSUME NEW e \in running, e.name = n
      PROVE  SlotOf(n) = [id |-> e.id, state |-> e.state]
  <2>1. EntryOf(n) = e BY <1>1 DEF EntryOf, OneJobPerName
  <2>2. IsRunning(running, n, Empty) BY <1>1 DEF IsRunning, Matches
  <2> QED BY <2>1, <2>2 DEF SlotOf
<1>2. ASSUME \A e \in running : e.name # n
      PROVE  SlotOf(n) = [id |-> Empty, state |-> "free"]
  BY <1>2 DEF SlotOf, IsRunning, Matches
<1> QED BY <1>1, <1>2

\* The same of the next state.
LEMMA SlotIsEntryNext ==
  ASSUME OneJobPerName', NEW n
  PROVE  /\ \A e \in running' : e.name = n => SlotOf(n)' = [id |-> e.id, state |-> e.state]
         /\ (\A e \in running' : e.name # n) => SlotOf(n)' = [id |-> Empty, state |-> "free"]
<1>1. ASSUME NEW e \in running', e.name = n
      PROVE  SlotOf(n)' = [id |-> e.id, state |-> e.state]
  <2>1. EntryOf(n)' = e BY <1>1 DEF EntryOf, OneJobPerName
  <2>2. IsRunning(running', n, Empty) BY <1>1 DEF IsRunning, Matches
  <2> QED BY <2>1, <2>2 DEF SlotOf
<1>2. ASSUME \A e \in running' : e.name # n
      PROVE  SlotOf(n)' = [id |-> Empty, state |-> "free"]
  BY <1>2 DEF SlotOf, IsRunning, Matches
<1> QED BY <1>1, <1>2

\* A name whose entries are the same has the same slot.
LEMMA OtherSlots ==
  ASSUME OneJobPerName, OneJobPerName', NEW n,
         \A e : e.name = n => (e \in running <=> e \in running')
  PROVE  SlotOf(n)' = SlotOf(n)
<1>1. CASE \E e \in running : e.name = n
  <2>1. PICK e \in running : e.name = n BY <1>1
  <2> QED BY <2>1, SlotIsEntry, SlotIsEntryNext
<1>2. CASE \A e \in running : e.name # n
  BY <1>2, SlotIsEntry, SlotIsEntryNext
<1> QED BY <1>1, <1>2

\* MarkRunning() for a name without an entry claims the slot of that name.
LEMMA ClaimStep ==
  ASSUME TypeOK, SlotInv, OneJobPerName', NEW j \in Ids, NEW n \in Names, NEW t, ~Holds(job[j]),
         CanMarkRunning(running, n), running' = MarkRunning(running, t, n, j)
  PROVE  Slots!Next
<1>1. \A e \in running : e.name # n /\ e.id # j
  BY DEF CanMarkRunning, IsRunning, Matches, SlotInv, SlotsOwned, HoldsSlot
<1> DEFINE x == [type |-> t, name |-> n, id |-> j, state |-> "running"]
<1>2. running' = running \cup {x} /\ x.name = n /\ x.id = j /\ x.state = "running"
  BY DEF MarkRunning
<1> HIDE DEF x
<1>3. SlotOf(n) = [id |-> Empty, state |-> "free"]
  BY <1>1, SlotIsEntry DEF SlotInv
<1>4. SlotOf(n)' = [id |-> j, state |-> "running"]
  BY <1>2, SlotIsEntryNext
<1>5. \A m \in Names : m # n => SlotOf(m)' = SlotOf(m)
  BY <1>2, OtherSlots DEF SlotInv
<1>6. \A m \in Names : SlotOf(m).id # j
  <2> SUFFICES ASSUME NEW m \in Names PROVE SlotOf(m).id # j
    OBVIOUS
  <2>1. CASE \E e \in running : e.name = m
    <3>1. PICK e \in running : e.name = m BY <2>1
    <3> QED BY <1>1, <3>1, SlotIsEntry DEF SlotInv
  <2>2. CASE \A e \in running : e.name # m
    BY <2>2, SlotIsEntry, SchedulerAssumption DEF SlotInv
  <2> QED BY <2>1, <2>2
<1>7. SlotMap' = [SlotMap EXCEPT ![n] = [id |-> j, state |-> "running"]]
  BY <1>4, <1>5 DEF SlotMap
<1>8. Slots!Claim(n, j)
  BY <1>3, <1>6, <1>7 DEF Slots!Claim, Slots!FreeSlot, SlotMap
<1> QED BY <1>8 DEF Slots!Next

\* MarkStopped(.., false) is a Stopping step of that slot, or a stutter.
LEMMA StoppingStep ==
  ASSUME TypeOK, SlotInv, OneJobPerName', NEW n \in Names, NEW i \in Ids \cup {Empty},
         running' = MarkStopped(running, n, i, FALSE)
  PROVE  Slots!Next \/ SlotMap' = SlotMap
<1>1. CASE ~IsRunning(running, n, i)
  <2>1. running' = running BY <1>1 DEF MarkStopped
  <2> QED BY <2>1, OtherSlots DEF SlotMap, SlotInv
<1>2. CASE IsRunning(running, n, i)
  <2>1. PICK x \in running : Matches(x, n, i) /\ x.name = n
    BY <1>2 DEF IsRunning, Matches
  <2>2. \A e \in running : e.name = n => e = x
    BY <2>1 DEF SlotInv, OneJobPerName
  <2> DEFINE y == [x EXCEPT !.state = "stopping"]
  <2>3. running' = {e \in running : e.name # n} \cup {y}
    <3>1. {z \in running : Matches(z, n, i)} = {x}
      BY <2>1, <2>2 DEF Matches
    <3> QED BY <1>2, <3>1 DEF MarkStopped
  <2>4. y.name = n /\ y.id = x.id /\ y.state = "stopping" /\ x.state \in {"running", "stopping"}
    BY <2>1 DEF TypeOK
  <2> HIDE DEF y
  <2>5. SlotOf(n) = [id |-> x.id, state |-> x.state]
    BY <2>1, SlotIsEntry DEF SlotInv
  <2>6. SlotOf(n)' = [id |-> x.id, state |-> "stopping"]
    BY <2>3, <2>4, SlotIsEntryNext
  <2>7. \A m \in Names : m # n => SlotOf(m)' = SlotOf(m)
    BY <2>2, <2>1, <2>3, <2>4, OtherSlots DEF SlotInv
  <2>8. CASE x.state = "stopping"
    BY <2>5, <2>6, <2>7, <2>8 DEF SlotMap
  <2>9. CASE x.state = "running"
    <3>1. SlotMap[n] = [id |-> x.id, state |-> "running"] BY <2>5, <2>9 DEF SlotMap
    <3>2. SlotMap' = [SlotMap EXCEPT ![n] = [id |-> x.id, state |-> "stopping"]]
      BY <2>6, <2>7 DEF SlotMap
    <3>3. SlotMap[n].state = "running" /\ SlotMap[n].id = x.id BY <3>1
    <3>4. SlotMap' = [SlotMap EXCEPT ![n] = [id |-> SlotMap[n].id, state |-> "stopping"]]
      BY <3>2, <3>3
    <3>5. SlotMap = [m \in Names |-> SlotOf(m)] /\ SlotMap' = [m \in Names |-> SlotOf(m)']
      BY DEF SlotMap
    <3>6. Slots!Stopping(n) BY <3>3, <3>4, <3>5, Zenon DEF Slots!Stopping
    <3> QED BY <3>6 DEF Slots!Next
  <2> QED BY <2>4, <2>8, <2>9
<1> QED BY <1>1, <1>2

\* MarkStopped(.., true) is a Release step of that slot, or a stutter.
LEMMA ReleaseStep ==
  ASSUME TypeOK, SlotInv, OneJobPerName', NEW n \in Names, NEW i \in Ids,
         running' = MarkStopped(running, n, i, TRUE)
  PROVE  Slots!Next \/ SlotMap' = SlotMap
<1>1. CASE ~IsRunning(running, n, i)
  <2>1. running' = running BY <1>1 DEF MarkStopped
  <2> QED BY <2>1, OtherSlots DEF SlotMap, SlotInv
<1>2. CASE IsRunning(running, n, i)
  <2>1. PICK x \in running : x.name = n /\ x.id = i
    BY <1>2, SchedulerAssumption DEF IsRunning, Matches
  <2>2. running' = {e \in running : e.name # n}
    BY <1>2, RemovalFreesSlot, SchedulerAssumption DEF SlotInv
  <2>3. SlotOf(n) = [id |-> i, state |-> x.state]
    BY <2>1, SlotIsEntry DEF SlotInv
  <2>4. SlotOf(n)' = [id |-> Empty, state |-> "free"]
    BY <2>2, SlotIsEntryNext
  <2>5. \A m \in Names : m # n => SlotOf(m)' = SlotOf(m)
    BY <2>2, OtherSlots DEF SlotInv
  <2>6. SlotMap' = [SlotMap EXCEPT ![n] = [id |-> Empty, state |-> "free"]]
    BY <2>4, <2>5 DEF SlotMap
  <2>7. SlotMap[n].id # Empty BY <2>3, SchedulerAssumption DEF SlotMap
  <2>8. Slots!Release(n)
    BY <2>6, <2>7 DEF Slots!Release, Slots!FreeSlot, SlotMap
  <2> QED BY <2>8 DEF Slots!Next
<1> QED BY <1>1, <1>2

\* Every step of the scheduler is a step of the slots or a stutter.
LEMMA NextRefines ==
  ASSUME TypeOK, SlotInv, SlotInv', [Next]_vars
  PROVE  Slots!Next \/ SlotMap' = SlotMap
<1>0. OneJobPerName' BY DEF SlotInv
<1>1. ASSUME running' = running PROVE SlotMap' = SlotMap
  BY <1>0, <1>1, OtherSlots DEF SlotMap, SlotInv
<1>2. ASSUME NEW how, ProcessEnds(how) PROVE Slots!Next
  <2>1. \A n \in Names : SlotOf(n)' = [id |-> Empty, state |-> "free"]
    BY <1>0, <1>2, SlotIsEntryNext DEF ProcessEnds
  <2>2. Slots!Clear BY <2>1 DEF Slots!Clear, Slots!FreeSlot
  <2> QED BY <2>2 DEF Slots!Next
<1>3. CASE Process
  <2>1. CASE Crash \/ Sigterm \/ AllStopped BY <1>2, <2>1 DEF Crash, Sigterm, AllStopped
  <2>2. CASE StopAll \/ Boot \/ PutConfig BY <1>1, <2>2 DEF StopAll, Boot, PutConfig
  <2> QED BY <1>3, <2>1, <2>2 DEF Process
<1>4. CASE Command
  <2>1. ASSUME NEW j \in Ids, ResumeCmd(j) PROVE Slots!Next
    <3>1. job[j].name \in Names /\ ~Holds(job[j])
      BY <2>1 DEF ResumeCmd, TypeOK, Job, JobOK, Holds, SlotPCs, BackupPCs, RestorePCs
    <3> QED BY <1>0, <2>1, <3>1, ClaimStep DEF ResumeCmd
  <2>2. CASE \E t \in JobTypes, n \in Names : StartCmd(t, n) BY <1>1, <2>2 DEF StartCmd
  <2>3. CASE \E n \in Names, i \in Ids \cup {Empty} : StopCmd(n, i) BY <1>1, <2>3 DEF StopCmd
  <2> QED BY <1>4, <2>1, <2>2, <2>3 DEF Command
<1>5. CASE Serve
  <2>1. CASE ProbeOpen \/ ProbeLeave \/ ProbeRefused \/ StopCancel
    BY <1>1, <2>1 DEF ProbeOpen, ProbeLeave, ProbeRefused, StopCancel
  <2>2. CASE StartJob
    <3>1. sched.name \in Names BY <2>2 DEF StartJob, TypeOK, SchedOK, Sched
    <3>2. CASE CanMarkRunning(running, sched.name)
      <4>1. PICK j \in Fresh : running' = MarkRunning(running, sched.type, sched.name, j)
        BY <2>2, <3>2 DEF StartJob
      <4>2. j \in Ids /\ ~Holds(job[j]) BY DEF Fresh, Holds, SlotPCs, BackupPCs, RestorePCs
      <4> QED BY <1>0, <3>1, <3>2, <4>1, <4>2, ClaimStep
    <3>3. CASE ~CanMarkRunning(running, sched.name) BY <1>1, <2>2, <3>3 DEF StartJob
    <3> QED BY <3>2, <3>3
  <2>3. CASE StopMark
    <3>1. sched.name \in Names /\ sched.id \in Ids \cup {Empty}
      BY <2>3 DEF StopMark, TypeOK, SchedOK, Sched
    <3> QED BY <1>0, <2>3, <3>1, StoppingStep DEF StopMark
  <2> QED BY <1>5, <2>1, <2>2, <2>3 DEF Serve
<1>6. ASSUME NEW j \in Ids, BackupJob(j) \/ RestoreJob(j) PROVE Slots!Next \/ SlotMap' = SlotMap
  <2>0. job[j].pc # "unused" => job[j].name \in Names BY DEF TypeOK, JobOK, Job
  <2>1. CASE CleanupStopping(j)
    BY <1>0, <2>0, <2>1, StoppingStep DEF CleanupStopping
  <2>2. CASE CleanupRemove(j) \/ RestoreRemove(j)
    BY <1>0, <2>0, <2>2, ReleaseStep DEF CleanupRemove, RestoreRemove
  <2>3. CASE /\ ~CleanupStopping(j) /\ ~CleanupRemove(j) /\ ~RestoreRemove(j)
    <3>1. running' = running
      BY <1>6, <2>3
         DEF BackupJob, BackupStart, BackupRefused, BackupPrepareDb, BackupWork,
             BackupMarkDeleted, CleanupCheck, CleanupRecord, CleanupDetach,
             CleanupShut, CleanupDrained, CleanupUnlock, CleanupReopen, CleanupReopenRefused,
             CleanupFinish, CleanupLeave, RestoreJob, RestoreRefused, RestoreFailed,
             RestoreOpenDb, RestoreInit, RestoreEnd, RestoreRecord
    <3> QED BY <1>1, <3>1
  <2> QED BY <2>1, <2>2, <2>3
<1>7. CASE \E r \in Readers : ReaderClose(r) \/ \E n \in Names : ReaderOpen(r, n)
  BY <1>1, <1>7 DEF ReaderClose, ReaderOpen
<1>8. CASE UNCHANGED vars BY <1>1, <1>8 DEF vars
<1>9. CASE \E c \in Clients : CloseHandle(c) BY <1>1, <1>9 DEF CloseHandle
<1> QED BY <1>3, <1>4, <1>5, <1>6, <1>7, <1>8, <1>9 DEF Next

\* The table of running jobs, with its commands, goroutines, signals and
\* crashes, implements one slot per name: claimed only when free and under an
\* id that holds no other slot, told to stop at most once, and released.
THEOREM SlotsImplemented == Spec => ImplementsSlots
<1>1. Init => Slots!Init
  <2> SUFFICES ASSUME Init PROVE Slots!Init
    OBVIOUS
  <2>1. \A n \in Names : SlotOf(n) = [id |-> Empty, state |-> "free"]
    BY DEF Init, SlotOf, IsRunning
  <2> QED BY <2>1 DEF Slots!Init, Slots!FreeSlot
<1>2. Init => SlotInv BY InitSlots
<1>3. TypeOK /\ SlotInv /\ [Next]_vars => SlotInv' BY NextSlots
<1>4. TypeOK /\ SlotInv /\ SlotInv' /\ [Next]_vars => [Slots!Next]_SlotMap
  BY NextRefines
<1> QED BY <1>1, <1>2, <1>3, <1>4, TypeCorrect, PTL DEF Spec, ImplementsSlots, Slots!Spec, SlotMap

-----------------------------------------------------------------------------
(* Places of a job with respect to its row and its database. *)

BeforePCs == {"unused", "launched", "prepare"}

WorkingPCs == {"work", "markdel", "check", "post", "record"}

RecordedPCs == {"detach", "shut", "drain", "copy", "reopen", "finish", "remove", "leave"}

\* Not connected to the database of the name.
ApartPCs == {"unused", "gone", "launched", "prepare", "shut", "drain", "copy", "reopen",
             "rLaunched", "rRecord", "rRemove"}

-----------------------------------------------------------------------------
(* The invariants, in parts: what the goroutine g of a job and its row r   *)
(* say of each other.                                                      *)

\* A backup has no row before PrepareDb(), one that says "started" at most
\* before UpdateJobDetails(), and after it one with the outcome at most.
RowOK(g, r) ==
  /\ g.pass = "once"
  /\ g.pc \in BackupPCs => g.type = "backup"
  /\ g.pc \in RestorePCs => g.type = "restore"
  /\ g.pc \in BeforePCs => r = "none"
  /\ g.pc \in WorkingPCs => r \in {"none", "started"}
  /\ g.pc \in RecordedPCs => r \in {"none", "started", g.outcome}

\* A goroutine is connected where it believes to be.
ConnOK(g) ==
  /\ g.conn # "stale"
  /\ g.pc \in ApartPCs => g.conn = "none"
  /\ g.pc \in {"rInit", "rWork"} => g.conn = "open"

\* The row is written when it has to be, and a restore runs for a row it may
\* run for.
RecordOK(g, r) ==
  /\ g.pc \in WorkingPCs /\ r = "started" => g.conn = "open"
  /\ g.pc \in RecordedPCs => r # "started"
  /\ g.pc = "rInit" => r \in {"none"} \cup Resumable
  /\ g.pc = "rWork" => r = "started"
  /\ g.pc = "rRecord" /\ g.outcome # "unrecorded" => r \in {"none", "started"} \cup Resumable

Rows == \A j \in Ids : RowOK(job[j], row[j])

Records == \A j \in Ids : RecordOK(job[j], row[j])

Connections == \A j \in Ids : ConnOK(job[j])

-----------------------------------------------------------------------------
(* What the steps do, field by field. *)

\* The goroutine of j is at p, with connection c and outcome o, and nobody
\* else has moved.
Goes(j, p, c, o) ==
  /\ job'[j].pc = p /\ job'[j].conn = c /\ job'[j].outcome = o
  /\ job'[j].type = job[j].type /\ job'[j].name = job[j].name /\ job'[j].pass = job[j].pass
  /\ \A i \in Ids : i # j => job'[i] = job[i]

\* Becomes() with some of the fields replaced.
LEMMA GoesTo ==
  ASSUME TypeOK, NEW j \in Ids, NEW p, NEW c, NEW o
  PROVE  /\ Becomes(j, [job[j] EXCEPT !.pc = p]) => Goes(j, p, job[j].conn, job[j].outcome)
         /\ Becomes(j, [job[j] EXCEPT !.pc = p, !.conn = c]) => Goes(j, p, c, job[j].outcome)
         /\ Becomes(j, [job[j] EXCEPT !.pc = p, !.outcome = o]) => Goes(j, p, job[j].conn, o)
         /\ Becomes(j, [job[j] EXCEPT !.pc = p, !.conn = c, !.outcome = o]) => Goes(j, p, c, o)
<1>0. job[j] \in Job /\ job \in [Ids -> Job] BY DEF TypeOK
<1>1. ASSUME NEW g, Becomes(j, g) PROVE job'[j] = g /\ \A i \in Ids : i # j => job'[i] = job[i]
  BY <1>0, <1>1 DEF Becomes
<1>2. ASSUME Becomes(j, [job[j] EXCEPT !.pc = p]) PROVE Goes(j, p, job[j].conn, job[j].outcome)
  <2>1. job'[j] = [job[j] EXCEPT !.pc = p] BY <1>1, <1>2
  <2> QED BY <1>0, <1>1, <1>2, <2>1 DEF Goes, Job
<1>3. ASSUME Becomes(j, [job[j] EXCEPT !.pc = p, !.conn = c]) PROVE Goes(j, p, c, job[j].outcome)
  <2>1. job'[j] = [job[j] EXCEPT !.pc = p, !.conn = c] BY <1>1, <1>3
  <2> QED BY <1>0, <1>1, <1>3, <2>1 DEF Goes, Job
<1>4. ASSUME Becomes(j, [job[j] EXCEPT !.pc = p, !.outcome = o]) PROVE Goes(j, p, job[j].conn, o)
  <2>1. job'[j] = [job[j] EXCEPT !.pc = p, !.outcome = o] BY <1>1, <1>4
  <2> QED BY <1>0, <1>1, <1>4, <2>1 DEF Goes, Job
<1>5. ASSUME Becomes(j, [job[j] EXCEPT !.pc = p, !.conn = c, !.outcome = o]) PROVE Goes(j, p, c, o)
  <2>1. job'[j] = [job[j] EXCEPT !.pc = p, !.conn = c, !.outcome = o] BY <1>1, <1>5
  <2> QED BY <1>0, <1>1, <1>5, <2>1 DEF Goes, Job
<1> QED BY <1>2, <1>3, <1>4, <1>5

\* A goroutine that returns.
LEMMA GoesAway ==
  ASSUME TypeOK, NEW j \in Ids, job[j].pass = "once", Becomes(j, Gone(job[j]))
  PROVE  Goes(j, "gone", "none", "finished")
<1>0. job \in [Ids -> Job] BY DEF TypeOK
<1>1. job'[j] = Gone(job[j]) /\ \A i \in Ids : i # j => job'[i] = job[i]
  BY <1>0 DEF Becomes
<1>2. /\ Gone(job[j]).pc = "gone" /\ Gone(job[j]).conn = "none" /\ Gone(job[j]).outcome = "finished"
      /\ Gone(job[j]).type = job[j].type /\ Gone(job[j]).name = job[j].name
      /\ Gone(job[j]).pass = "once"
  BY DEF Gone, Unused
<1> QED BY <1>1, <1>2 DEF Goes

\* The databases, with another entry for the name of j.
AtDb(j, e) == db' = [db EXCEPT ![job[j].name] = e]

EntryFor(j) == db[job[j].name]

\* The steps of runBackup() and cleanupAfterBackup() that touch neither row
\* nor database.
BackupMoves(j) ==
  LET g == job[j] IN
  \/ g.pc = "launched" /\ Goes(j, "prepare", g.conn, g.outcome)
  \/ g.pc \in {"launched", "prepare", "work"} /\ Goes(j, "check", g.conn, "failed")
  \/ g.pc = "work" /\ Goes(j, "markdel", g.conn, g.outcome)
  \/ g.pc = "work" /\ Goes(j, "check", g.conn, "cancelled")
  \/ g.pc = "markdel" /\ Goes(j, "check", g.conn, g.outcome)
  \/ g.pc = "check" /\ j \notin ctx /\ Goes(j, "post", g.conn, g.outcome)
  \/ g.pc = "check" /\ j \in ctx
     /\ Goes(j, "post", g.conn, IF g.outcome = "finished" THEN "cancelled" ELSE g.outcome)
  \/ g.pc = "post" /\ Goes(j, "record", g.conn, g.outcome)
  \/ g.pc = "drain" /\ EntryFor(j).clients = 0 /\ Goes(j, "copy", g.conn, g.outcome)
  \/ g.pc = "reopen" /\ Goes(j, "finish", g.conn, g.outcome)
  \/ DbFails /\ g.pc = "reopen" /\ Goes(j, "finish", "stale", g.outcome)
  \/ g.pc = "finish" /\ Goes(j, "remove", g.conn, g.outcome)
  \/ g.pc = "remove" /\ Goes(j, "leave", g.conn, g.outcome)

\* The steps that open or leave the database, or take or free its gate.
BackupDbSteps(j) ==
  LET g == job[j] IN
  \/ g.pc = "prepare" /\ EntryFor(j).free /\ AtDb(j, AddClient(EntryFor(j)))
     /\ Goes(j, "check", "open", "failed")
  \/ g.pc = "detach" /\ db' = Disconnected(j) /\ Goes(j, "shut", "none", g.outcome)
  \/ g.pc = "shut" /\ Returned(j) /\ EntryFor(j).free /\ AtDb(j, GetLock(EntryFor(j)))
     /\ Goes(j, "drain", g.conn, g.outcome)
  \/ g.pc = "copy" /\ AtDb(j, ReleaseLock(EntryFor(j))) /\ Goes(j, "reopen", g.conn, g.outcome)
  \/ g.pc = "reopen" /\ EntryFor(j).free /\ AtDb(j, AddClient(EntryFor(j)))
     /\ Goes(j, "finish", "open", g.outcome)

\* The steps that write the row.
BackupRowSteps(j) ==
  LET g == job[j] IN
  \/ g.pc = "prepare" /\ EntryFor(j).free /\ AtDb(j, AddClient(EntryFor(j)))
     /\ row' = [row EXCEPT ![j] = "started"] /\ Goes(j, "work", "open", g.outcome)
  \/ g.pc = "record" /\ db' = db /\ Recorded(j)
     /\ Goes(j, IF g.outcome = "finished" THEN "detach" ELSE "finish", g.conn, g.outcome)
  \/ g.pc = "leave" /\ Recorded(j) /\ db' = Disconnected(j) /\ Goes(j, "gone", "none", "finished")

\* Every step of a backup job that cleans up once is one of these; it finds
\* its entry in the table whenever it looks (runBackup, cleanupAfterBackup).
LEMMA BackupEffect ==
  ASSUME TypeOK, SlotInv, ~Notices, NEW j \in Ids, job[j].pass = "once", BackupJob(j)
  PROVE  \/ BackupMoves(j) /\ row' = row /\ db' = db
         \/ BackupDbSteps(j) /\ row' = row
         \/ BackupRowSteps(j)
<1>0. job[j].pc \in SlotPCs => IsRunning(running, job[j].name, j)
  BY DEF SlotInv, SlotsOwned, HoldsSlot, Holds
<1>1. CASE BackupStart(j)
  <2>1. IsRunning(running, job[j].name, j) BY <1>0, <1>1 DEF BackupStart, SlotPCs, BackupPCs
  <2>2. Goes(j, "prepare", job[j].conn, job[j].outcome) \/ Goes(j, "check", job[j].conn, "failed")
    BY <1>1, <2>1, GoesTo DEF BackupStart
  <2> QED BY <1>1, <2>2 DEF BackupStart, BackupMoves
<1>2. CASE BackupRefused(j)
  <2>1. Goes(j, "check", job[j].conn, "failed") BY <1>2, GoesTo DEF BackupRefused
  <2> QED BY <1>2, <2>1 DEF BackupRefused, BackupMoves
<1>3. CASE BackupPrepareDb(j)
  <2>1. \/ Goes(j, "work", "open", job[j].outcome) /\ row' = [row EXCEPT ![j] = "started"]
        \/ Goes(j, "check", "open", "failed") /\ row' = row
    BY <1>3, GoesTo DEF BackupPrepareDb
  <2>2. job[j].pc = "prepare" /\ EntryFor(j).free /\ AtDb(j, AddClient(EntryFor(j)))
    BY <1>3 DEF BackupPrepareDb, EntryFor, AtDb
  <2> QED BY <2>1, <2>2 DEF BackupDbSteps, BackupRowSteps
<1>4. CASE BackupWork(j)
  <2>1. \/ Goes(j, "markdel", job[j].conn, job[j].outcome)
        \/ Goes(j, "check", job[j].conn, "failed") \/ Goes(j, "check", job[j].conn, "cancelled")
    BY <1>4, GoesTo DEF BackupWork
  <2> QED BY <1>4, <2>1 DEF BackupWork, BackupMoves
<1>5. CASE BackupMarkDeleted(j)
  <2>1. Goes(j, "check", job[j].conn, job[j].outcome) BY <1>5, GoesTo DEF BackupMarkDeleted
  <2> QED BY <1>5, <2>1 DEF BackupMarkDeleted, BackupMoves
<1>6. CASE CleanupCheck(j)
  <2> DEFINE o == IF job[j].outcome = "finished" /\ j \in ctx THEN "cancelled" ELSE job[j].outcome
  <2>1. IsRunning(running, job[j].name, j) BY <1>0, <1>6 DEF CleanupCheck, SlotPCs, BackupPCs
  <2>2. Becomes(j, [job[j] EXCEPT !.pc = "post", !.outcome = o])
    BY <1>6, <2>1 DEF CleanupCheck, TypeOK, Job
  <2>3. Goes(j, "post", job[j].conn, o) BY <2>2, GoesTo
  <2> QED BY <1>6, <2>3 DEF CleanupCheck, BackupMoves
<1>7. CASE CleanupStopping(j)
  <2>1. Goes(j, "record", job[j].conn, job[j].outcome) BY <1>7, GoesTo DEF CleanupStopping
  <2> QED BY <1>7, <2>1 DEF CleanupStopping, BackupMoves
<1>8. CASE CleanupRecord(j)
  <2> DEFINE p == IF job[j].outcome = "finished" THEN "detach" ELSE "finish"
  <2>1. Becomes(j, [job[j] EXCEPT !.pc = p]) BY <1>8 DEF CleanupRecord
  <2>2. Goes(j, p, job[j].conn, job[j].outcome) BY <2>1, GoesTo
  <2> QED BY <1>8, <2>2 DEF CleanupRecord, BackupRowSteps
<1>9. CASE CleanupDetach(j)
  <2>1. Goes(j, "shut", "none", job[j].outcome) BY <1>9, GoesTo DEF CleanupDetach
  <2> QED BY <1>9, <2>1 DEF CleanupDetach, Disconnect, BackupDbSteps
<1>10. CASE CleanupShut(j)
  <2>1. Goes(j, "drain", job[j].conn, job[j].outcome) BY <1>10, GoesTo DEF CleanupShut
  <2> QED BY <1>10, <2>1 DEF CleanupShut, BackupDbSteps, AtDb, EntryFor
<1>11. CASE CleanupDrained(j)
  <2>1. Goes(j, "copy", job[j].conn, job[j].outcome) BY <1>11, GoesTo DEF CleanupDrained
  <2> QED BY <1>11, <2>1 DEF CleanupDrained, BackupMoves, EntryFor
<1>12. CASE CleanupUnlock(j)
  <2>1. Goes(j, "reopen", job[j].conn, job[j].outcome) BY <1>12, GoesTo DEF CleanupUnlock
  <2> QED BY <1>12, <2>1 DEF CleanupUnlock, BackupDbSteps, AtDb, EntryFor
<1>13. CASE CleanupReopen(j)
  <2>1. \/ /\ Goes(j, "finish", "open", job[j].outcome) /\ EntryFor(j).free
           /\ AtDb(j, AddClient(EntryFor(j)))
        \/ DbFails /\ Goes(j, "finish", "stale", job[j].outcome) /\ db' = db
    BY <1>13, GoesTo DEF CleanupReopen, AtDb, EntryFor
  <2> QED BY <1>13, <2>1 DEF CleanupReopen, BackupDbSteps, BackupMoves
<1>14. CASE CleanupReopenRefused(j)
  <2>1. Goes(j, "finish", job[j].conn, job[j].outcome) BY <1>14, GoesTo DEF CleanupReopenRefused
  <2> QED BY <1>14, <2>1 DEF CleanupReopenRefused, BackupMoves
<1>15. CASE CleanupFinish(j)
  <2>1. Goes(j, "remove", job[j].conn, job[j].outcome) BY <1>15, GoesTo DEF CleanupFinish
  <2> QED BY <1>15, <2>1 DEF CleanupFinish, BackupMoves
<1>16. CASE CleanupRemove(j)
  <2>1. Goes(j, "leave", job[j].conn, job[j].outcome) BY <1>16, GoesTo DEF CleanupRemove
  <2> QED BY <1>16, <2>1 DEF CleanupRemove, BackupMoves
<1>17. CASE CleanupLeave(j)
  <2>1. Goes(j, "gone", "none", "finished") BY <1>17, GoesAway DEF CleanupLeave
  <2> QED BY <1>17, <2>1 DEF CleanupLeave, Disconnect, BackupRowSteps
<1> QED
  BY <1>1, <1>2, <1>3, <1>4, <1>5, <1>6, <1>7, <1>8, <1>9,
     <1>10, <1>11, <1>12, <1>13, <1>14, <1>15, <1>16, <1>17
     DEF BackupJob

\* The steps of runRestore(), runResume() and cleanupAfterRestore().
RestoreMoves(j) ==
  LET g == job[j] IN
  \/ g.pc = "rLaunched" /\ Goes(j, "rRecord", g.conn, "unrecorded")
  \/ g.pc = "rLaunched" /\ (CanRestore(j) \/ DbFails) /\ Goes(j, "rRecord", g.conn, "failed")
  \/ g.pc = "rRemove" /\ Goes(j, "gone", "none", "finished")

RestoreDbSteps(j) ==
  LET g == job[j] IN
  \/ g.pc = "rLaunched" /\ CanRestore(j) /\ EntryFor(j).free /\ AtDb(j, AddClient(EntryFor(j)))
     /\ Goes(j, "rInit", "open", g.outcome)
  \/ g.pc \in {"rInit", "rWork"} /\ AtDb(j, DropClient(EntryFor(j)))
     /\ \E o \in Outcomes : Goes(j, "rRecord", "none", o)

RestoreRowSteps(j) ==
  LET g == job[j] IN
  \/ g.pc = "rInit" /\ row' = [row EXCEPT ![j] = "started"] /\ Goes(j, "rWork", g.conn, g.outcome)
  \/ g.pc = "rRecord" /\ Goes(j, "rRemove", g.conn, g.outcome)
     /\ \/ row' = IF g.outcome = "unrecorded" \/ row[j] = "none" THEN row
                  ELSE [row EXCEPT ![j] = g.outcome]
        \/ DbFails /\ row' = row

\* Every step of a restore job is one of these (runRestore, runResume).
LEMMA RestoreEffect ==
  ASSUME TypeOK, NEW j \in Ids, job[j].pass = "once", RestoreJob(j)
  PROVE  \/ RestoreMoves(j) /\ row' = row /\ db' = db
         \/ RestoreDbSteps(j) /\ row' = row
         \/ RestoreRowSteps(j) /\ db' = db
<1>1. CASE RestoreRefused(j)
  <2>1. Goes(j, "rRecord", job[j].conn, "unrecorded") BY <1>1, GoesTo DEF RestoreRefused
  <2> QED BY <1>1, <2>1 DEF RestoreRefused, RestoreMoves
<1>2. CASE RestoreFailed(j)
  <2>1. Goes(j, "rRecord", job[j].conn, "failed") BY <1>2, GoesTo DEF RestoreFailed
  <2> QED BY <1>2, <2>1 DEF RestoreFailed, RestoreMoves
<1>3. CASE RestoreOpenDb(j)
  <2>1. Goes(j, "rInit", "open", job[j].outcome) BY <1>3, GoesTo DEF RestoreOpenDb
  <2> QED BY <1>3, <2>1 DEF RestoreOpenDb, RestoreDbSteps, AtDb, EntryFor
<1>4. CASE RestoreInit(j)
  <2>1. Goes(j, "rWork", job[j].conn, job[j].outcome) BY <1>4, GoesTo DEF RestoreInit
  <2> QED BY <1>4, <2>1 DEF RestoreInit, RestoreRowSteps
<1>5. CASE RestoreEnd(j)
  <2>1. \E o \in Outcomes : Goes(j, "rRecord", "none", o) BY <1>5, GoesTo DEF RestoreEnd, Outcomes
  <2> QED BY <1>5, <2>1 DEF RestoreEnd, RestoreDbSteps, AtDb, EntryFor
<1>6. CASE RestoreRecord(j)
  <2>1. Goes(j, "rRemove", job[j].conn, job[j].outcome) BY <1>6, GoesTo DEF RestoreRecord
  <2> QED BY <1>6, <2>1 DEF RestoreRecord, RestoreRowSteps
<1>7. CASE RestoreRemove(j)
  <2>1. Goes(j, "gone", "none", "finished") BY <1>7, GoesAway DEF RestoreRemove
  <2> QED BY <1>7, <2>1 DEF RestoreRemove, RestoreMoves
<1> QED BY <1>1, <1>2, <1>3, <1>4, <1>5, <1>6, <1>7 DEF RestoreJob

\* A new goroutine, launched by StartJob for an id that was in no table.
Launched(j) ==
  /\ job[j].pc = "unused" /\ job'[j].conn = "none" /\ job'[j].pass = "once"
  /\ job'[j].name = sched.name
  /\ \/ job'[j].pc = "launched" /\ job'[j].type = "backup"
     \/ job'[j].pc = "rLaunched" /\ job'[j].type = "restore"
  /\ \A i \in Ids : i # j => job'[i] = job[i]

\* The commands, process and report handlers move at most one goroutine, and
\* no row except at start-up.
OtherStep == \/ Process \/ Command \/ Serve
             \/ \E r \in Readers : ReaderClose(r) \/ \E n \in Names : ReaderOpen(r, n)
             \/ \E c \in Clients : CloseHandle(c)
             \/ UNCHANGED vars

AllGone == \A j \in Ids :
  /\ job'[j].pc = IF job[j].pc = "unused" THEN "unused" ELSE "gone"
  /\ job'[j].pc = "gone" => job'[j].type = job[j].type /\ job'[j].name = job[j].name
  /\ job'[j].conn = "none" /\ job'[j].pass = "once"

\* What they do to goroutines and rows (eventProcessor, ProcessSignal).
LEMMA OtherEffect ==
  ASSUME TypeOK, OtherStep
  PROVE  \/ row' = row /\ job' = job
         \/ row' = row /\ (Crash \/ Sigterm \/ AllStopped) /\ AllGone
         \/ row' = row /\ StartJob /\ \E j \in Ids : Launched(j)
         \/ row' = row /\ \E j \in Ids : /\ ResumeCmd(j)
                                         /\ Goes(j, "rLaunched", job[j].conn, job[j].outcome)
         \/ Boot /\ job' = job
<1>1. ASSUME NEW how, ProcessEnds(how) PROVE row' = row /\ AllGone
  BY <1>1 DEF ProcessEnds, AllGone, Gone, Unused
<1>2. CASE Process
  BY <1>1, <1>2 DEF Process, Crash, Sigterm, AllStopped, StopAll, Boot, PutConfig
<1>3. CASE Command
  <2>1. ASSUME NEW j \in Ids, ResumeCmd(j) PROVE Goes(j, "rLaunched", job[j].conn, job[j].outcome)
    BY <2>1, GoesTo DEF ResumeCmd
  <2> QED BY <1>3, <2>1 DEF Command, StartCmd, StopCmd, ResumeCmd
<1>4. CASE StartJob
  <2>1. CASE CanMarkRunning(running, sched.name)
    <3> DEFINE g == [Unused EXCEPT !.pc = IF sched.type = "backup" THEN "launched" ELSE "rLaunched",
                                   !.type = sched.type, !.name = sched.name]
    <3>1. PICK j \in Fresh : Becomes(j, g) BY <1>4, <2>1 DEF StartJob
    <3>2. sched.type \in {"backup", "restore"} BY DEF TypeOK, Sched, JobTypes
    <3>3. /\ g.conn = "none" /\ g.pass = "once" /\ g.type = sched.type /\ g.name = sched.name
          /\ g.pc = IF sched.type = "backup" THEN "launched" ELSE "rLaunched"
      BY DEF Unused
    <3> HIDE DEF g
    <3>4. job'[j] = g /\ \A i \in Ids : i # j => job'[i] = job[i]
      BY <3>1 DEF Becomes, TypeOK, Fresh
    <3>5. j \in Ids /\ Launched(j) BY <3>2, <3>3, <3>4 DEF Launched, Fresh
    <3> QED BY <1>4, <3>5 DEF StartJob
  <2>2. CASE ~CanMarkRunning(running, sched.name) BY <1>4, <2>2 DEF StartJob
  <2> QED BY <2>1, <2>2
<1>5. CASE Serve /\ ~StartJob
  BY <1>5 DEF Serve, ProbeOpen, ProbeLeave, ProbeRefused, StopMark, StopCancel
<1>6. CASE \/ \E r \in Readers : ReaderClose(r) \/ \E n \in Names : ReaderOpen(r, n)
           \/ \E c \in Clients : CloseHandle(c)
  BY <1>6 DEF ReaderClose, ReaderOpen, CloseHandle
<1>7. CASE UNCHANGED vars BY <1>7 DEF vars
<1> QED BY <1>2, <1>3, <1>4, <1>5, <1>6, <1>7 DEF OtherStep

-----------------------------------------------------------------------------
(* Rows and connections. *)

\* When the process is down there are no goroutines.
Down == ~Up => sched.pc = "idle" /\ \A j \in Ids : job[j].pc \in {"unused", "gone"}

\* A goroutine runs only in a process that is up (ProcessSignal, Start).
LEMMA DownStep == ASSUME TypeOK, Down, [Next]_vars PROVE Down'
<1>1. ASSUME NEW how, ProcessEnds(how) PROVE Down'
  BY <1>1 DEF ProcessEnds, Down, Gone, Unused, Idle
<1>2. ASSUME mode' = mode, ~Up => sched' = sched /\ job' = job PROVE Down'
  BY <1>2 DEF Down, Up
<1>3. CASE Process
  <2>1. CASE Crash \/ Sigterm \/ AllStopped BY <1>1, <2>1 DEF Crash, Sigterm, AllStopped
  <2>2. CASE StopAll \/ Boot BY <2>2 DEF StopAll, Boot, Down, Up
  <2>3. CASE PutConfig BY <1>2, <2>3 DEF PutConfig
  <2> QED BY <1>3, <2>1, <2>2, <2>3 DEF Process
<1>4. CASE Command BY <1>2, <1>4 DEF Command, StartCmd, ResumeCmd, StopCmd, Up
<1>5. CASE Serve
  BY <1>2, <1>5
     DEF Serve, ProbeOpen, ProbeLeave, ProbeRefused, StartJob, StopMark, StopCancel, Down
<1>6. ASSUME NEW j \in Ids, BackupJob(j) PROVE Down'
  BY <1>2, <1>6
     DEF Down, BackupJob, BackupStart, BackupRefused, BackupPrepareDb, BackupWork,
         BackupMarkDeleted, CleanupCheck, CleanupStopping, CleanupRecord, CleanupDetach,
         CleanupShut, CleanupDrained, CleanupUnlock, CleanupReopen, CleanupReopenRefused,
         CleanupFinish, CleanupRemove, CleanupLeave
<1>7. ASSUME NEW j \in Ids, RestoreJob(j) PROVE Down'
  BY <1>2, <1>7
     DEF Down, RestoreJob, RestoreRefused, RestoreFailed, RestoreOpenDb, RestoreInit, RestoreEnd,
         RestoreRecord, RestoreRemove
<1>8. CASE \/ \E r \in Readers : ReaderClose(r) \/ \E n \in Names : ReaderOpen(r, n)
           \/ \E c \in Clients : CloseHandle(c)
  BY <1>2, <1>8 DEF ReaderClose, ReaderOpen, CloseHandle
<1>9. CASE UNCHANGED vars BY <1>2, <1>9 DEF vars
<1> QED BY <1>3, <1>4, <1>5, <1>6, <1>7, <1>8, <1>9 DEF Next

\* RowOK where the job, and only the job, goes on.
LEMMA RowsGo ==
  ASSUME TypeOK, Rows, NEW j \in Ids, NEW p, NEW c, NEW o, Goes(j, p, c, o),
         \A i \in Ids : i # j => row'[i] = row[i],
         p \in BackupPCs => job[j].type = "backup",
         p \in RestorePCs => job[j].type = "restore",
         p \in BeforePCs => row'[j] = "none",
         p \in WorkingPCs => row'[j] \in {"none", "started"},
         p \in RecordedPCs => row'[j] \in {"none", "started", o}
  PROVE  Rows'
  BY DEF Rows, RowOK, Goes

\* A backup writes "started", then its outcome, and the outcome once more.
LEMMA BackupRows ==
  ASSUME TypeOK, SlotInv, ~Notices, Rows, NEW j \in Ids, BackupJob(j) PROVE Rows'
<1>0. RowOK(job[j], row[j]) /\ job[j].pass = "once" BY DEF Rows, RowOK
<1>1. row \in [Ids -> RowStates] BY DEF TypeOK
<1> USE DEF RowOK, BackupPCs, RestorePCs, BeforePCs, WorkingPCs, RecordedPCs
<1>2. CASE BackupMoves(j) /\ row' = row /\ db' = db
  BY <1>0, <1>2, RowsGo DEF BackupMoves
<1>3. CASE BackupDbSteps(j) /\ row' = row
  BY <1>0, <1>3, RowsGo DEF BackupDbSteps
<1>4. CASE BackupRowSteps(j)
  <2>1. ASSUME Recorded(j)
        PROVE  /\ row'[j] = row[j] \/ (row'[j] = job[j].outcome /\ row[j] # "none")
               /\ \A i \in Ids : i # j => row'[i] = row[i]
    <3>1. RowAfter(j) = row[j] \/ (RowAfter(j) = job[j].outcome /\ row[j] # "none") BY DEF RowAfter
    <3>2. CASE row' = row BY <3>2
    <3>3. CASE row' = [row EXCEPT ![j] = RowAfter(j)]
      <4>1. row'[j] = RowAfter(j) /\ \A i \in Ids : i # j => row'[i] = row[i] BY <1>1, <3>3
      <4> QED BY <3>1, <4>1
    <3> QED BY <2>1, <3>2, <3>3 DEF Recorded
  <2>2. CASE job[j].pc = "prepare"
    <3>1. row'[j] = "started" /\ \A i \in Ids : i # j => row'[i] = row[i]
      BY <1>1, <1>4, <2>2 DEF BackupRowSteps
    <3> QED BY <1>0, <1>4, <2>2, <3>1, RowsGo DEF BackupRowSteps
  <2>3. CASE job[j].pc = "record"
    BY <1>0, <1>4, <2>1, <2>3, RowsGo DEF BackupRowSteps
  <2>4. CASE job[j].pc = "leave"
    BY <1>0, <1>4, <2>1, <2>4, RowsGo DEF BackupRowSteps
  <2> QED BY <1>4, <2>2, <2>3, <2>4 DEF BackupRowSteps
<1> QED BY <1>0, <1>2, <1>3, <1>4, BackupEffect

\* A restore moves within its own states.
LEMMA RestoreRows == ASSUME TypeOK, Rows, NEW j \in Ids, RestoreJob(j) PROVE Rows'
<1>0. RowOK(job[j], row[j]) /\ job[j].pass = "once" BY DEF Rows, RowOK
<1>1. row \in [Ids -> RowStates] BY DEF TypeOK
<1> USE DEF RowOK, BackupPCs, RestorePCs, BeforePCs, WorkingPCs, RecordedPCs
<1>2. CASE RestoreMoves(j) /\ row' = row /\ db' = db
  BY <1>0, <1>2, RowsGo DEF RestoreMoves
<1>3. CASE RestoreDbSteps(j) /\ row' = row
  BY <1>0, <1>3, RowsGo DEF RestoreDbSteps
<1>4. CASE RestoreRowSteps(j) /\ db' = db
  <2>1. \A i \in Ids : i # j => row'[i] = row[i] BY <1>1, <1>4 DEF RestoreRowSteps
  <2> QED BY <1>0, <1>4, <2>1, RowsGo DEF RestoreRowSteps
<1> QED BY <1>0, <1>2, <1>3, <1>4, RestoreEffect

\* Commands launch goroutines for ids without a row and for restores; start-up
\* finds the goroutines gone.
LEMMA OtherRows == ASSUME TypeOK, Down, Rows, OtherStep PROVE Rows'
<1> USE DEF RowOK, BackupPCs, RestorePCs, BeforePCs, WorkingPCs, RecordedPCs
<1>1. CASE row' = row /\ job' = job BY <1>1 DEF Rows
<1>2. CASE row' = row /\ AllGone BY <1>2 DEF Rows, AllGone
<1>3. ASSUME NEW j \in Ids, row' = row, Launched(j) PROVE Rows'
  BY <1>3 DEF Rows, Launched
<1>4. ASSUME NEW j \in Ids, row' = row, ResumeCmd(j),
             Goes(j, "rLaunched", job[j].conn, job[j].outcome)
      PROVE  Rows'
  BY <1>4, RowsGo DEF ResumeCmd
<1>5. CASE Boot /\ job' = job
  <2>1. \A j \in Ids : row'[j] = IF row[j] = "started" /\ job[j].name \in config
                                 THEN "crashed" ELSE row[j]
    BY <1>5 DEF Boot
  <2>2. \A j \in Ids : job[j].pc \in {"unused", "gone"} BY <1>5 DEF Boot, Down
  <2> QED BY <1>5, <2>1, <2>2 DEF Rows
<1> QED BY <1>1, <1>2, <1>3, <1>4, <1>5, OtherEffect

\* Rows holds of every state of a daemon whose jobs clean up once.
LEMMA RowsAlways == ASSUME ~Notices PROVE Spec => [](TypeOK /\ SlotInv /\ Down /\ Rows)
<1>1. Init => Down /\ Rows /\ SlotInv
  <2>1. Init => Down /\ Rows
    BY DEF Init, Down, Up, Rows, RowOK, Unused, BackupPCs, RestorePCs, BeforePCs, WorkingPCs,
           RecordedPCs
  <2> QED BY <2>1, InitSlots
<1>2. ASSUME TypeOK, SlotInv, Down, Rows, [Next]_vars PROVE Rows'
  <2>1. CASE OtherStep BY <1>2, <2>1, OtherRows
  <2>2. CASE \E j \in Ids : BackupJob(j) \/ RestoreJob(j) BY <1>2, <2>2, BackupRows, RestoreRows
  <2> QED BY <1>2, <2>1, <2>2 DEF Next, OtherStep
<1>3. TypeOK /\ SlotInv /\ Down /\ Rows /\ [Next]_vars => SlotInv' /\ Down' /\ Rows'
  BY <1>2, NextSlots, DownStep
<1> QED BY <1>1, <1>3, TypeCorrect, PTL DEF Spec

-----------------------------------------------------------------------------
(* Cancelled backups. *)

EarlyPCs == {"launched", "prepare", "work", "markdel", "check"}

LatePCs == {"post", "record"} \cup RecordedPCs

\* A backup that was cancelled in time, until the end of its row's life.
Doomed(j) ==
  \/ j \in ctx /\ job[j].pc \in EarlyPCs
  \/ job[j].pc \in LatePCs /\ job[j].outcome # "finished" /\ row[j] # "finished"
  \/ job[j].pc = "gone" /\ job[j].type = "backup" /\ row[j] # "finished"

\* No step of a job takes a cancellation back.
LEMMA JobsKeepCtx == ASSUME NEW i \in Ids, BackupJob(i) \/ RestoreJob(i) PROVE ctx \subseteq ctx'
<1>1. CASE BackupJob(i)
  BY <1>1
     DEF BackupJob, BackupStart, BackupRefused, BackupPrepareDb, BackupWork,
         BackupMarkDeleted, CleanupCheck, CleanupStopping, CleanupRecord, CleanupDetach,
         CleanupShut, CleanupDrained, CleanupUnlock, CleanupReopen, CleanupReopenRefused,
         CleanupFinish, CleanupRemove, CleanupLeave
<1>2. CASE RestoreJob(i)
  BY <1>2
     DEF RestoreJob, RestoreRefused, RestoreFailed, RestoreOpenDb, RestoreInit, RestoreEnd,
         RestoreRecord, RestoreRemove
<1> QED BY <1>1, <1>2

\* Of the other steps only a resume does, and the end of the process.
LEMMA CtxKept ==
  ASSUME OtherStep, NEW j \in Ids, j \in ctx
  PROVE  j \in ctx' \/ ResumeCmd(j) \/ Crash \/ Sigterm \/ AllStopped
<1>1. CASE Process
  BY <1>1 DEF Process, StopAll, Boot, PutConfig
<1>2. CASE Command BY <1>2 DEF Command, StartCmd, ResumeCmd, StopCmd
<1>3. CASE Serve
  BY <1>3 DEF Serve, ProbeOpen, ProbeLeave, ProbeRefused, StartJob, StopMark, StopCancel
<1>4. CASE \/ \E r \in Readers : ReaderClose(r) \/ \E n \in Names : ReaderOpen(r, n)
           \/ \E c \in Clients : CloseHandle(c)
  BY <1>4 DEF ReaderClose, ReaderOpen, CloseHandle
<1>5. CASE UNCHANGED vars BY <1>5 DEF vars
<1> QED BY <1>1, <1>2, <1>3, <1>4, <1>5 DEF OtherStep

\* A step of one job leaves goroutine and row of another one alone.
LEMMA OthersKept ==
  ASSUME TypeOK, SlotInv, ~Notices, Rows, NEW i \in Ids, BackupJob(i) \/ RestoreJob(i),
         NEW j \in Ids, j # i
  PROVE  job'[j] = job[j] /\ row'[j] = row[j]
<1>0. job[i].pass = "once" /\ row \in [Ids -> RowStates] BY DEF Rows, RowOK, TypeOK
<1>1. job'[j] = job[j]
  <2>1. ASSUME NEW p, NEW c, NEW o, Goes(i, p, c, o) PROVE job'[j] = job[j]
    BY <2>1 DEF Goes
  <2>2. CASE BackupJob(i)
    BY <1>0, <2>1, <2>2, BackupEffect DEF BackupMoves, BackupDbSteps, BackupRowSteps
  <2>3. CASE RestoreJob(i)
    BY <1>0, <2>1, <2>3, RestoreEffect DEF RestoreMoves, RestoreDbSteps, RestoreRowSteps
  <2> QED BY <2>2, <2>3
<1>2. row'[j] = row[j]
  <2>1. ASSUME Recorded(i) PROVE row'[j] = row[j] BY <1>0, <2>1 DEF Recorded
  <2>2. CASE BackupJob(i)
    BY <1>0, <2>1, <2>2, BackupEffect DEF BackupRowSteps
  <2>3. CASE RestoreJob(i) BY <1>0, <2>3, RestoreEffect DEF RestoreRowSteps
  <2> QED BY <2>2, <2>3
<1> QED BY <1>1, <1>2

\* A cancelled backup keeps the cancellation until cleanupAfterBackup() has
\* looked, then an outcome that is not "finished", and then a row that is not.
LEMMA DoomedStep ==
  ASSUME TypeOK, SlotInv, Down, Rows, ~Notices, [Next]_vars, NEW j \in Ids, Doomed(j)
  PROVE  Doomed(j)'
<1>0. RowOK(job[j], row[j]) /\ job[j].pass = "once" BY DEF Rows, RowOK
<1>a. row \in [Ids -> RowStates] BY DEF TypeOK
<1> USE DEF RowOK, BackupPCs, RestorePCs, BeforePCs, WorkingPCs, RecordedPCs, EarlyPCs, LatePCs
<1>b. job[j].type = "backup" /\ job[j].pc \notin {"unused"} \cup RestorePCs
  BY <1>0 DEF Doomed
<1>1. CASE BackupJob(j)
  <2>0. j \in ctx => j \in ctx'
    BY <1>1, JobsKeepCtx
  <2>1. CASE BackupMoves(j) /\ row' = row
    BY <1>0, <2>0, <2>1 DEF BackupMoves, Goes, Doomed
  <2>2. CASE BackupDbSteps(j) /\ row' = row
    BY <1>0, <2>0, <2>2 DEF BackupDbSteps, Goes, Doomed
  <2>3. CASE BackupRowSteps(j)
    <3>1. ASSUME Recorded(j)
          PROVE  row'[j] = row[j] \/ row'[j] = job[j].outcome
      <4>1. RowAfter(j) = row[j] \/ RowAfter(j) = job[j].outcome BY DEF RowAfter
      <4>2. row' = row \/ row'[j] = RowAfter(j) BY <1>a, <3>1 DEF Recorded
      <4> QED BY <4>1, <4>2
    <3>2. CASE job[j].pc = "prepare"
      BY <1>0, <1>a, <2>0, <2>3, <3>2 DEF BackupRowSteps, Goes, Doomed
    <3>3. CASE job[j].pc \in {"record", "leave"}
      BY <1>0, <1>b, <2>3, <3>1, <3>3 DEF BackupRowSteps, Goes, Doomed
    <3> QED BY <2>3, <3>2, <3>3 DEF BackupRowSteps
  <2> QED BY <1>0, <1>1, <2>1, <2>2, <2>3, BackupEffect
<1>2. ASSUME NEW i \in Ids, i # j, BackupJob(i) \/ RestoreJob(i) PROVE Doomed(j)'
  <2>1. job'[j] = job[j] /\ row'[j] = row[j] BY <1>2, OthersKept
  <2>2. j \in ctx => j \in ctx'
    BY <1>2, JobsKeepCtx
  <2> QED BY <2>1, <2>2 DEF Doomed
<1>3. ~RestoreJob(j)
  BY <1>b DEF RestoreJob, RestoreRefused, RestoreFailed, RestoreOpenDb, RestoreInit, RestoreEnd,
         RestoreRecord, RestoreRemove
<1>4. CASE OtherStep
  <2>1. CASE AllGone /\ row' = row BY <1>0, <1>b, <2>1 DEF AllGone, Doomed
  <2>2. ASSUME ~(AllGone /\ row' = row) PROVE j \in ctx => j \in ctx'
    <3>1. ~ResumeCmd(j) BY <1>b DEF ResumeCmd
    <3>2. ASSUME NEW how, ProcessEnds(how) PROVE AllGone /\ row' = row
      BY <3>2 DEF ProcessEnds, AllGone, Gone, Unused
    <3> QED BY <1>4, <2>2, <3>1, <3>2, CtxKept DEF Crash, Sigterm, AllStopped
  <2>3. ASSUME ~(AllGone /\ row' = row) PROVE Doomed(j)'
    <3>1. CASE row' = row /\ job' = job BY <2>2, <2>3, <3>1 DEF Doomed
    <3>2. ASSUME NEW i \in Ids, Launched(i), row' = row PROVE Doomed(j)'
      BY <1>b, <2>2, <2>3, <3>2 DEF Launched, Doomed
    <3>3. ASSUME NEW i \in Ids, ResumeCmd(i), row' = row,
                 Goes(i, "rLaunched", job[i].conn, job[i].outcome)
          PROVE Doomed(j)'
      BY <1>b, <2>2, <2>3, <3>3 DEF ResumeCmd, Goes, Doomed
    <3>4. CASE Boot /\ job' = job
      <4>1. row'[j] = row[j] \/ row'[j] = "crashed" BY <3>4 DEF Boot
      <4> QED BY <2>2, <2>3, <3>4, <4>1 DEF Doomed
    <3> QED BY <1>4, <2>3, <3>1, <3>2, <3>3, <3>4, OtherEffect
  <2> QED BY <2>1, <2>3
<1> QED BY <1>1, <1>2, <1>3, <1>4 DEF Next, OtherStep

\* A backup whose context is cancelled before cleanupAfterBackup() looks at
\* it (scheduler.go:418) never gets a row that says "finished": not by the
\* steps that did not notice, by statements that fail, by a crash or by the
\* next start.
THEOREM CancelsAreHonoured == ASSUME ~Notices PROVE Spec => CancelHonoured
<1> DEFINE Cancelled(j) ==
      j \in ctx /\ job[j].pc \in {"launched", "prepare", "work", "markdel", "check"}
<1>1. ASSUME NEW j \in Ids PROVE Spec => [](Cancelled(j) => [](row[j] # "finished"))
  <2>1. Cancelled(j) => Doomed(j) BY DEF Doomed, EarlyPCs
  <2>2. TypeOK /\ SlotInv /\ Down /\ Rows /\ [Next]_vars /\ Doomed(j) => Doomed(j)'
    BY DoomedStep
  <2>3. TypeOK /\ SlotInv /\ Down /\ Rows /\ Doomed(j) => row[j] # "finished"
    <3>1. Rows => RowOK(job[j], row[j]) BY DEF Rows
    <3> QED BY <3>1 DEF Doomed, RowOK, EarlyPCs, LatePCs, BeforePCs, WorkingPCs, RecordedPCs
  <2> QED BY <2>1, <2>2, <2>3, RowsAlways, PTL DEF Spec
<1> QED BY <1>1 DEF CancelHonoured

-----------------------------------------------------------------------------
(* Connections and final rows, where statements do not fail. *)

\* ConnOK where the job, and only the job, goes on.
LEMMA ConnectionsGo ==
  ASSUME Connections, NEW j \in Ids, NEW p, NEW c, NEW o, Goes(j, p, c, o),
         c # "stale", p \in ApartPCs => c = "none", p \in {"rInit", "rWork"} => c = "open"
  PROVE  Connections'
  BY DEF Connections, ConnOK, Goes

\* PrepareDb() and CloseStatementsAndDisconnectFromDb() keep a job's own idea
\* of its connection right.
LEMMA ConnectionsStep ==
  ASSUME TypeOK, SlotInv, ~Notices, ~DbFails, Rows, Connections, [Next]_vars
  PROVE  Connections'
<1> USE DEF ConnOK, ApartPCs
<1>1. ASSUME NEW j \in Ids, BackupJob(j) PROVE Connections'
  <2>0. ConnOK(job[j]) /\ job[j].pass = "once" BY DEF Connections, Rows, RowOK
  <2>1. CASE BackupMoves(j) BY <2>0, <2>1, ConnectionsGo DEF BackupMoves
  <2>2. CASE BackupDbSteps(j) BY <2>0, <2>2, ConnectionsGo DEF BackupDbSteps
  <2>3. CASE BackupRowSteps(j) BY <2>0, <2>3, ConnectionsGo DEF BackupRowSteps
  <2> QED BY <1>1, <2>0, <2>1, <2>2, <2>3, BackupEffect
<1>2. ASSUME NEW j \in Ids, RestoreJob(j) PROVE Connections'
  <2>0. ConnOK(job[j]) /\ job[j].pass = "once" BY DEF Connections, Rows, RowOK
  <2>1. CASE RestoreMoves(j) BY <2>0, <2>1, ConnectionsGo DEF RestoreMoves
  <2>2. CASE RestoreDbSteps(j) BY <2>0, <2>2, ConnectionsGo DEF RestoreDbSteps
  <2>3. CASE RestoreRowSteps(j) BY <2>0, <2>3, ConnectionsGo DEF RestoreRowSteps
  <2> QED BY <1>2, <2>0, <2>1, <2>2, <2>3, RestoreEffect
<1>3. CASE OtherStep
  <2>1. CASE job' = job BY <2>1 DEF Connections
  <2>2. CASE AllGone BY <2>2 DEF Connections, AllGone
  <2>3. ASSUME NEW j \in Ids, Launched(j) PROVE Connections' BY <2>3 DEF Connections, Launched
  <2>4. ASSUME NEW j \in Ids, ResumeCmd(j), Goes(j, "rLaunched", job[j].conn, job[j].outcome)
        PROVE  Connections'
    BY <2>4, ConnectionsGo DEF ResumeCmd, Connections
  <2> QED BY <1>3, <2>1, <2>2, <2>3, <2>4, OtherEffect
<1> QED BY <1>1, <1>2, <1>3 DEF Next, OtherStep

\* RecordOK where the job, and only the job, goes on.
LEMMA RecordsGo ==
  ASSUME Records, NEW j \in Ids, NEW p, NEW c, NEW o, Goes(j, p, c, o),
         \A i \in Ids : i # j => row'[i] = row[i],
         p \in WorkingPCs /\ row'[j] = "started" => c = "open",
         p \in RecordedPCs => row'[j] # "started",
         p = "rInit" => row'[j] \in {"none"} \cup Resumable,
         p = "rWork" => row'[j] = "started",
         p = "rRecord" /\ o # "unrecorded" => row'[j] \in {"none", "started"} \cup Resumable
  PROVE  Records'
  BY DEF Records, RecordOK, Goes

\* UpdateJobDetails() replaces "started" whenever it is due, and Resume() lets
\* only resumable restores pass.
LEMMA RecordsStep ==
  ASSUME TypeOK, SlotInv, ~Notices, ~DbFails, Down, Rows, Records, [Next]_vars
  PROVE  Records'
<1> USE DEF RecordOK, RowOK, BeforePCs, WorkingPCs, RecordedPCs
<1>0. row \in [Ids -> RowStates] BY DEF TypeOK
<1>1. ASSUME NEW j \in Ids, BackupJob(j) PROVE Records'
  <2>0. RecordOK(job[j], row[j]) /\ RowOK(job[j], row[j]) BY DEF Records, Rows
  <2>1. CASE BackupMoves(j) /\ row' = row BY <2>0, <2>1, RecordsGo DEF BackupMoves
  <2>2. CASE BackupDbSteps(j) /\ row' = row BY <2>0, <2>2, RecordsGo DEF BackupDbSteps
  <2>3. CASE BackupRowSteps(j)
    <3>1. \A i \in Ids : i # j => row'[i] = row[i] BY <1>1, OthersKept
    <3>2. CASE job[j].pc = "prepare"
      BY <2>0, <2>3, <3>1, <3>2, RecordsGo DEF BackupRowSteps
    <3>3. CASE job[j].pc = "record"
      <4>1. row'[j] = RowAfter(j) BY <1>0, <2>3, <3>3 DEF BackupRowSteps, Recorded
      <4>2. job[j].outcome # "started"
        BY <3>3 DEF TypeOK, Job, Outcomes
      <4>3. row'[j] # "started" BY <2>0, <3>3, <4>1, <4>2 DEF RowAfter
      <4> QED BY <2>0, <2>3, <3>1, <3>3, <4>3, RecordsGo DEF BackupRowSteps
    <3>4. CASE job[j].pc = "leave"
      BY <2>0, <2>3, <3>1, <3>4, RecordsGo DEF BackupRowSteps
    <3> QED BY <2>3, <3>2, <3>3, <3>4 DEF BackupRowSteps
  <2> QED BY <1>1, <2>0, <2>1, <2>2, <2>3, BackupEffect
<1>2. ASSUME NEW j \in Ids, RestoreJob(j) PROVE Records'
  <2>0. RecordOK(job[j], row[j]) /\ RowOK(job[j], row[j]) BY DEF Records, Rows
  <2>1. CASE RestoreMoves(j) /\ row' = row
    BY <2>0, <2>1, RecordsGo DEF RestoreMoves, CanRestore
  <2>2. CASE RestoreDbSteps(j) /\ row' = row
    BY <2>0, <2>2, RecordsGo DEF RestoreDbSteps, CanRestore
  <2>3. CASE RestoreRowSteps(j)
    <3>1. \A i \in Ids : i # j => row'[i] = row[i] BY <1>2, OthersKept
    <3>2. job[j].pc = "rInit" => row'[j] = "started" BY <1>0, <2>3 DEF RestoreRowSteps
    <3> QED BY <2>0, <2>3, <3>1, <3>2, RecordsGo DEF RestoreRowSteps
  <2> QED BY <1>2, <2>0, <2>1, <2>2, <2>3, RestoreEffect
<1>3. CASE OtherStep
  <2>1. CASE row' = row /\ job' = job BY <2>1 DEF Records
  <2>2. CASE row' = row /\ AllGone BY <2>2 DEF Records, AllGone
  <2>3. ASSUME NEW j \in Ids, row' = row, Launched(j) PROVE Records' BY <2>3 DEF Records, Launched
  <2>4. ASSUME NEW j \in Ids, row' = row, Goes(j, "rLaunched", job[j].conn, job[j].outcome)
        PROVE  Records'
    BY <2>4, RecordsGo
  <2>5. CASE Boot /\ job' = job
    <3>1. \A j \in Ids : job[j].pc \in {"unused", "gone"} BY <2>5 DEF Boot, Down
    <3> QED BY <2>5, <3>1 DEF Records
  <2> QED BY <1>3, <2>1, <2>2, <2>3, <2>4, <2>5, OtherEffect
<1> QED BY <1>1, <1>2, <1>3 DEF Next, OtherStep

RecordInv == TypeOK /\ SlotInv /\ Down /\ Rows /\ Connections /\ Records

\* All of it holds of every state of a daemon whose jobs clean up once and
\* whose statements do not fail.
LEMMA RecordsAlways == ASSUME ~Notices, ~DbFails PROVE Spec => []RecordInv
<1>1. Init => Connections /\ Records
  BY DEF Init, Connections, Records, ConnOK, RecordOK, Unused, WorkingPCs, RecordedPCs
<1>2. TypeOK /\ SlotInv /\ Down /\ Rows /\ Connections /\ Records /\ [Next]_vars
        => Connections' /\ Records'
  BY ConnectionsStep, RecordsStep
<1> QED BY <1>1, <1>2, RowsAlways, PTL DEF Spec, RecordInv

\* A step that changes a row finds it unfinished, or a restore's that may be
\* run again.
LEMMA FinalStep ==
  ASSUME RecordInv, ~Notices, ~DbFails, [Next]_vars, NEW j \in Ids,
         row[j] \in Outcomes \cup {"crashed"}, row'[j] # row[j]
  PROVE  job[j].type = "restore" /\ row[j] \in Resumable
<1>0. /\ TypeOK /\ SlotInv /\ Rows /\ row \in [Ids -> RowStates]
      /\ RowOK(job[j], row[j]) /\ RecordOK(job[j], row[j]) /\ job[j].pass = "once"
  BY DEF RecordInv, Rows, Records, RowOK, TypeOK
<1> USE DEF RecordOK, RowOK, BeforePCs, WorkingPCs, RecordedPCs, Outcomes
<1>1. CASE BackupJob(j)
  <2>1. BackupRowSteps(j) BY <1>0, <1>1, BackupEffect
  <2>2. job[j].pc # "prepare" BY <1>0
  <2>3. RowAfter(j) = row[j] BY <1>0, <2>1, <2>2 DEF BackupRowSteps, RowAfter
  <2> QED BY <1>0, <2>1, <2>2, <2>3 DEF BackupRowSteps, Recorded
<1>2. CASE RestoreJob(j)
  <2>1. RestoreRowSteps(j) BY <1>0, <1>2, RestoreEffect
  <2> QED BY <1>0, <2>1 DEF RestoreRowSteps, RestorePCs
<1>3. ASSUME NEW i \in Ids, i # j, BackupJob(i) \/ RestoreJob(i) PROVE FALSE
  BY <1>0, <1>3, OthersKept
<1>4. CASE OtherStep
  <2>1. Boot BY <1>0, <1>4, OtherEffect
  <2> QED BY <2>1 DEF Boot
<1> QED BY <1>1, <1>2, <1>3, <1>4 DEF Next, OtherStep

\* A recorded outcome is final, through the second write at the end of
\* cleanupAfterBackup(), a resume, a crash and the next start; only a restore
\* that did not finish is run again.
THEOREM OutcomesAreFinal == ASSUME ~Notices, ~DbFails PROVE Spec => RowsFinal
<1> DEFINE Step == \A j \in Ids : row[j] \in Outcomes \cup {"crashed"} /\ row'[j] # row[j] =>
                     job[j].type = "restore" /\ row[j] \in Resumable
<1>1. RecordInv /\ [Next]_vars => [Step]_vars BY FinalStep
<1> QED BY <1>1, RecordsAlways, PTL DEF Spec, RowsFinal

-----------------------------------------------------------------------------
(* Rows that say "started", where the configuration does not change. *)

\* While the process is up, no goroutine is gone, about to be resumed or about
\* to leave a restore whose row says "started"; nor does an exit leave one.
Live ==
  /\ config = Names
  /\ Up => \A j \in Ids : row[j] = "started" =>
              /\ job[j].pc \notin {"gone", "rLaunched", "rRemove"}
              /\ job[j].pc = "rRecord" => job[j].outcome # "unrecorded"
  /\ CleanExit

\* What the invariants say together.
LEMMA LiveRows == RecordInv /\ Live => StartedRowsAreLive
<1> SUFFICES ASSUME RecordInv, Live, Up, NEW j \in Ids, row[j] = "started"
             PROVE  job[j].pc \in {"work", "markdel", "check", "post", "record", "rWork", "rRecord"}
  BY DEF StartedRowsAreLive
<1>1. RowOK(job[j], row[j]) /\ RecordOK(job[j], row[j]) BY DEF RecordInv, Rows, Records
<1>2. job[j].pc \in {"unused"} \cup PCs BY DEF RecordInv, TypeOK, Job
<1>3. job[j].pc \notin {"gone", "rLaunched", "rRemove"} BY DEF Live
<1>4. job[j].pc \notin BeforePCs \cup RecordedPCs \cup {"rInit"}
  BY <1>1 DEF RowOK, RecordOK, Resumable
<1> QED BY <1>2, <1>3, <1>4 DEF PCs, BackupPCs, RestorePCs, BeforePCs, RecordedPCs

\* A step of a job replaces "started" before the goroutine is gone: a backup in
\* CleanupRecord at the latest, a restore in RestoreRecord.
LEMMA JobsLive ==
  ASSUME RecordInv, ~Notices, ~DbFails, Live, NEW j \in Ids,
         BackupJob(j) \/ RestoreJob(j)
  PROVE  Live'
<1>0. /\ TypeOK /\ SlotInv /\ Rows /\ row \in [Ids -> RowStates]
      /\ RowOK(job[j], row[j]) /\ RecordOK(job[j], row[j]) /\ job[j].pass = "once"
  BY DEF RecordInv, Rows, Records, RowOK, TypeOK
<1>1. mode' = mode /\ config' = config
  BY DEF RestoreJob, RestoreRefused, RestoreFailed, RestoreOpenDb, RestoreInit, RestoreEnd,
         RestoreRecord, RestoreRemove, BackupJob, BackupStart, BackupRefused, BackupPrepareDb,
         BackupWork, BackupMarkDeleted, CleanupCheck, CleanupStopping, CleanupRecord, CleanupDetach,
         CleanupShut, CleanupDrained, CleanupUnlock, CleanupReopen, CleanupReopenRefused,
         CleanupFinish, CleanupRemove, CleanupLeave
<1>2. Up
  <2>1. job[j].pc \notin {"unused", "gone"}
    BY DEF RestoreJob, RestoreRefused, RestoreFailed, RestoreOpenDb, RestoreInit, RestoreEnd,
         RestoreRecord, RestoreRemove, BackupJob, BackupStart, BackupRefused, BackupPrepareDb,
         BackupWork, BackupMarkDeleted, CleanupCheck, CleanupStopping, CleanupRecord, CleanupDetach,
         CleanupShut, CleanupDrained, CleanupUnlock, CleanupReopen, CleanupReopenRefused,
         CleanupFinish, CleanupRemove, CleanupLeave
  <2> QED BY <2>1 DEF RecordInv, Down
<1>3. \A i \in Ids : i # j => job'[i] = job[i] /\ row'[i] = row[i]
  BY <1>0, OthersKept
<1>4. /\ row[j] = "started" => /\ job[j].pc \notin {"gone", "rLaunched", "rRemove"}
                               /\ job[j].pc = "rRecord" => job[j].outcome # "unrecorded"
  BY <1>2 DEF Live
<1> USE DEF RecordOK, RowOK, BeforePCs, WorkingPCs, RecordedPCs
<1>5. ASSUME row'[j] = "started"
      PROVE  /\ job'[j].pc \notin {"gone", "rLaunched", "rRemove"}
             /\ job'[j].pc = "rRecord" => job'[j].outcome # "unrecorded"
  <2>1. CASE BackupMoves(j) BY <2>1 DEF BackupMoves, Goes
  <2>2. CASE BackupDbSteps(j) BY <2>2 DEF BackupDbSteps, Goes
  <2>3. CASE BackupRowSteps(j)
    <3>1. CASE job[j].pc = "leave"
      <4>1. row'[j] = RowAfter(j) BY <1>0, <2>3, <3>1 DEF BackupRowSteps, Recorded
      <4>2. job[j].outcome # "started" BY <1>0, <3>1 DEF TypeOK, Job, Outcomes
      <4>3. row[j] # "started" BY <1>0, <3>1
      <4> QED BY <1>5, <4>1, <4>2, <4>3 DEF RowAfter
    <3>2. CASE job[j].pc # "leave" BY <2>3, <3>2 DEF BackupRowSteps, Goes
    <3> QED BY <3>1, <3>2
  <2>4. CASE RestoreMoves(j) /\ row' = row BY <1>4, <1>5, <2>4 DEF RestoreMoves, Goes
  <2>5. CASE RestoreDbSteps(j) BY <2>5 DEF RestoreDbSteps, Goes, Outcomes
  <2>6. CASE RestoreRowSteps(j)
    <3>1. CASE job[j].pc = "rRecord"
      <4>1. job[j].outcome # "started" BY <1>0 DEF TypeOK, Job, Outcomes
      <4>2. row[j] = "started" /\ job[j].outcome = "unrecorded"
        BY <1>0, <1>5, <2>6, <3>1, <4>1 DEF RestoreRowSteps
      <4> QED BY <1>4, <3>1, <4>2
    <3>2. CASE job[j].pc # "rRecord" BY <2>6, <3>2 DEF RestoreRowSteps, Goes
    <3> QED BY <3>1, <3>2
  <2> QED BY <1>0, <2>1, <2>2, <2>3, <2>4, <2>5, <2>6, BackupEffect, RestoreEffect
<1>6. CleanExit' BY <1>1, <1>2 DEF CleanExit, Up
<1> QED BY <1>1, <1>2, <1>3, <1>5, <1>6 DEF Live, Up

\* The process that leaves after waitForAllBackupToBeStopped() has no job left
\* whose row says "started"; the next start finds every row that does.
LEMMA OtherLive ==
  ASSUME RecordInv, ~Notices, ~DbFails, ~Reloads, Live, OtherStep
  PROVE  Live'
<1>0. TypeOK /\ SlotInv /\ Rows /\ Down /\ Records BY DEF RecordInv
<1>1. config' = config
  BY DEF OtherStep, Process, ProcessEnds, Crash, Sigterm, AllStopped, StopAll, Boot, PutConfig,
         Command, StartCmd, ResumeCmd, StopCmd, Serve, ProbeOpen, ProbeLeave, ProbeRefused,
         StartJob, StopMark, StopCancel, ReaderClose, ReaderOpen, CloseHandle, vars
<1>2. CASE Boot
  <2>1. ASSUME NEW j \in Ids PROVE row'[j] # "started"
    <3>1. CASE job[j].pc = "unused"
      <4>1. row[j] = "none" BY <1>0, <3>1 DEF Rows, RowOK, BeforePCs
      <4> QED BY <1>2, <4>1 DEF Boot
    <3>2. CASE job[j].pc # "unused"
      <4>1. job[j].name \in config BY <1>0, <3>2 DEF TypeOK, Job, JobOK, Live
      <4> QED BY <1>2, <4>1 DEF Boot
    <3> QED BY <3>1, <3>2
  <2>2. mode' = "up" BY <1>2 DEF Boot
  <2> QED BY <1>1, <2>1, <2>2 DEF Live, CleanExit
<1>3. CASE Crash \/ Sigterm
  BY <1>1, <1>3 DEF Crash, Sigterm, ProcessEnds, Live, CleanExit, Up
<1>4. CASE AllStopped
  <2>1. ASSUME NEW j \in Ids PROVE row[j] # "started"
    <3>1. ~HoldsSlot(j)
      BY <1>0, <1>4 DEF AllStopped, SlotInv, SlotsOwned, IsRunning
    <3>2. job[j].pc \in {"unused", "gone", "leave"}
      <4>1. job[j].pc \in {"unused"} \cup PCs BY <1>0 DEF TypeOK, Job
      <4>2. job[j].pc \notin SlotPCs BY <1>0, <3>1 DEF HoldsSlot, Holds, Rows, RowOK
      <4> QED BY <4>1, <4>2 DEF SlotPCs, PCs
    <3>3. Up BY <1>0, <1>4 DEF AllStopped, Down
    <3>4. RowOK(job[j], row[j]) /\ RecordOK(job[j], row[j]) BY <1>0 DEF Rows, Records
    <3> QED BY <3>2, <3>3, <3>4 DEF Live, RowOK, RecordOK, BeforePCs, RecordedPCs
  <2> QED BY <1>1, <1>4, <2>1 DEF AllStopped, ProcessEnds, Live, CleanExit, Up
<1>5. CASE ~Boot /\ ~Crash /\ ~Sigterm /\ ~AllStopped
  <2>1. row' = row /\ (mode' = mode \/ (Up /\ mode' \in {"up", "closing"}))
    <3>1. row' = row BY <1>0, <1>5, OtherEffect
    <3>2. mode' = mode \/ StopAll
      BY <1>5 DEF OtherStep, Process, PutConfig, Command, StartCmd, ResumeCmd, StopCmd, Serve,
           ProbeOpen, ProbeLeave, ProbeRefused, StartJob, StopMark, StopCancel, ReaderClose,
           ReaderOpen, CloseHandle, vars
    <3> QED BY <3>1, <3>2 DEF StopAll, Up
  <2>2. Up' => Up BY <2>1 DEF Up
  <2>3. CleanExit' BY <2>1 DEF Live, CleanExit
  <2>4. CASE job' = job BY <1>1, <2>1, <2>2, <2>3, <2>4 DEF Live
  <2>5. ASSUME NEW j \in Ids, Launched(j) PROVE Live'
    <3>1. row[j] = "none" BY <1>0, <2>5 DEF Rows, RowOK, BeforePCs, Launched
    <3> QED BY <1>1, <2>1, <2>2, <2>3, <2>5, <3>1 DEF Live, Launched
  <2>6. ASSUME NEW j \in Ids, ResumeCmd(j), Goes(j, "rLaunched", job[j].conn, job[j].outcome)
        PROVE  Live'
    <3>1. row[j] # "started" BY <2>6 DEF ResumeCmd, Live, Up
    <3> QED BY <1>1, <2>1, <2>2, <2>3, <2>6, <3>1 DEF Live, Goes
  <2> QED BY <1>0, <1>5, <2>4, <2>5, <2>6, OtherEffect
<1> QED BY <1>2, <1>3, <1>4, <1>5

\* Live is inductive, and with the others gives both properties.
LEMMA LiveAlways == ASSUME ~Notices, ~DbFails, ~Reloads PROVE Spec => [](RecordInv /\ Live)
<1>1. Init => Live BY DEF Init, Live, CleanExit
<1>2. ASSUME RecordInv, Live, [Next]_vars PROVE Live'
  <2>1. CASE OtherStep BY <1>2, <2>1, OtherLive
  <2>2. CASE \E j \in Ids : BackupJob(j) \/ RestoreJob(j) BY <1>2, <2>2, JobsLive
  <2> QED BY <1>2, <2>1, <2>2 DEF Next, OtherStep
<1>3. RecordInv /\ Live /\ [Next]_vars => Live' BY <1>2
<1> QED BY <1>1, <1>3, RecordsAlways, PTL DEF Spec

\* While the daemon is up, a row that says "started" belongs to a job that is
\* running and has yet to write its outcome, after any number of crashes.
THEOREM StartedRowsHaveJobs ==
  ASSUME ~Notices, ~DbFails, ~Reloads PROVE Spec => []StartedRowsAreLive
  BY LiveAlways, LiveRows, PTL

\* The exit on SIGINT, which waits for the table of running jobs to be empty,
\* leaves no row that says "started".
THEOREM ExitsAreClean == ASSUME ~Notices, ~DbFails, ~Reloads PROVE Spec => []CleanExit
<1>1. Live => CleanExit BY DEF Live
<1> QED BY <1>1, LiveAlways, PTL

-----------------------------------------------------------------------------
(* Counters and gates of the databases. *)

Count(n) == Cardinality(Users(n)) + Cardinality(ReadersOf(n)) + (IF Probing(n) THEN 1 ELSE 0)

\* Who waits for the clients of its database to leave, or copies it, has closed
\* the gate.
Gates == \A j \in Ids : job[j].pc \in {"drain", "copy"} => ~db[job[j].name].free

\* What the operations on an entry do to its gate and its counter.
LEMMA EntryFields ==
  ASSUME NEW e \in Entry
  PROVE  /\ GetLock(e).free = FALSE /\ GetLock(e).clients = e.clients
         /\ ReleaseLock(e).free = TRUE /\ ReleaseLock(e).clients = e.clients
         /\ AddClient(e).free = e.free /\ AddClient(e).clients = (e.clients + 1) % Modulus
         /\ DropClient(e).free = e.free
         /\ DropClient(e).clients = (e.clients + Modulus - 1) % Modulus
<1>1. GetLock(e).free = FALSE /\ GetLock(e).clients = e.clients BY DEF Entry, GetLock
<1>2. ReleaseLock(e).free = TRUE /\ ReleaseLock(e).clients = e.clients BY DEF Entry, ReleaseLock
<1>3. AddClient(e).free = e.free /\ AddClient(e).clients = (e.clients + 1) % Modulus
  BY DEF Entry, AddClient
<1>4. /\ DropClient(e).free = e.free
      /\ DropClient(e).clients = (e.clients + Modulus - 1) % Modulus
  BY DEF Entry, DropClient
<1> QED BY <1>1, <1>2, <1>3, <1>4

\* There are never as many clients as the counter has values.
LEMMA FewClients ==
  ASSUME NEW U \in SUBSET Ids, NEW R \in SUBSET Readers
  PROVE  /\ IsFiniteSet(U) /\ Cardinality(U) \in Nat
         /\ IsFiniteSet(R) /\ Cardinality(R) \in Nat
         /\ Cardinality(U) + Cardinality(R) + 1 < Modulus
<1>1. IsFiniteSet(Ids) /\ IsFiniteSet(Readers) BY SchedulerAssumption
<1>2. IsFiniteSet(U) /\ Cardinality(U) <= Cardinality(Ids) BY <1>1, FS_Subset
<1>3. IsFiniteSet(R) /\ Cardinality(R) <= Cardinality(Readers) BY <1>1, FS_Subset
<1>4. /\ Cardinality(U) \in Nat /\ Cardinality(R) \in Nat
      /\ Cardinality(Ids) \in Nat /\ Cardinality(Readers) \in Nat
  BY <1>1, <1>2, <1>3, FS_CardinalityType
<1>5. Cardinality(Ids) + Cardinality(Readers) + 1 < Modulus BY SchedulerAssumption
<1> QED BY <1>2, <1>3, <1>4, <1>5, ModulusAssumption

\* So the count is a number below the counter's modulus, now and next.
LEMMA CountType ==
  ASSUME NEW n
  PROVE  Count(n) \in Nat /\ Count(n) < Modulus /\ Count(n)' \in Nat /\ Count(n)' < Modulus
<1>1. Users(n) \in SUBSET Ids /\ ReadersOf(n) \in SUBSET Readers BY DEF Users, ReadersOf
<1>2. Users(n)' \in SUBSET Ids /\ ReadersOf(n)' \in SUBSET Readers BY DEF Users, ReadersOf
<1>3. ASSUME NEW a \in Nat, NEW b \in Nat, NEW c \in {0, 1}, a + b + 1 < Modulus
      PROVE  a + b + c \in Nat /\ a + b + c < Modulus
  BY <1>3, ModulusAssumption
<1>4. Count(n) \in Nat /\ Count(n) < Modulus
  <2>1. (IF Probing(n) THEN 1 ELSE 0) \in {0, 1} OBVIOUS
  <2> QED BY <1>1, <1>3, <2>1, FewClients DEF Count
<1>5. Count(n)' \in Nat /\ Count(n)' < Modulus
  <2>1. (IF Probing(n)' THEN 1 ELSE 0) \in {0, 1} OBVIOUS
  <2>2. Count(n)' = Cardinality(Users(n)') + Cardinality(ReadersOf(n)')
                    + (IF Probing(n)' THEN 1 ELSE 0)
    BY DEF Count
  <2> QED BY <1>2, <1>3, <2>1, <2>2, FewClients
<1> QED BY <1>4, <1>5

\* One more client of m, counted up.
LEMMA CountUp ==
  ASSUME TypeOK, ClientsCounted, NEW m \in Names, db' = [db EXCEPT ![m] = AddClient(db[m])],
         Count(m)' = Count(m) + 1, \A n \in Names : n # m => Count(n)' = Count(n)
  PROVE  ClientsCounted'
<1>1. db \in [Names -> Entry] BY DEF TypeOK
<1>2. \A n \in Names : db[n].clients = Count(n) BY DEF ClientsCounted, Count
<1>3. (Count(m) + 1) % Modulus = Count(m) + 1
  <2>1. Count(m) \in Nat /\ Count(m) + 1 < Modulus BY CountType
  <2> QED BY <2>1, ModulusAssumption
<1>4. db'[m].clients = (db[m].clients + 1) % Modulus BY <1>1, EntryFields
<1>5. \A n \in Names : db'[n].clients = Count(n)'
  <2>1. \A n \in Names : n # m => db'[n] = db[n] BY <1>1
  <2> QED BY <1>2, <1>3, <1>4, <2>1
<1> QED BY <1>5 DEF ClientsCounted, Count

\* One client of m less, counted down.
LEMMA CountDown ==
  ASSUME TypeOK, ClientsCounted, NEW m \in Names, db' = [db EXCEPT ![m] = DropClient(db[m])],
         Count(m)' = Count(m) - 1, \A n \in Names : n # m => Count(n)' = Count(n)
  PROVE  ClientsCounted'
<1>1. db \in [Names -> Entry] BY DEF TypeOK
<1>2. \A n \in Names : db[n].clients = Count(n) BY DEF ClientsCounted, Count
<1>3. (Count(m) + Modulus - 1) % Modulus = Count(m) - 1
  <2>1. Count(m) \in Nat /\ Count(m) < Modulus /\ Count(m) - 1 >= 0 BY CountType
  <2> QED BY <2>1, ModulusAssumption
<1>4. db'[m].clients = (db[m].clients + Modulus - 1) % Modulus BY <1>1, EntryFields
<1>5. \A n \in Names : db'[n].clients = Count(n)'
  <2>1. \A n \in Names : n # m => db'[n] = db[n] BY <1>1
  <2> QED BY <1>2, <1>3, <1>4, <2>1
<1> QED BY <1>5 DEF ClientsCounted, Count

\* Nobody comes or goes.
LEMMA CountSame ==
  ASSUME ClientsCounted, \A n \in Names : db'[n].clients = db[n].clients /\ Count(n)' = Count(n)
  PROVE  ClientsCounted'
  BY DEF ClientsCounted, Count

\* The users of the databases after a step of one job.
LEMMA UsersGo ==
  ASSUME NEW j \in Ids, NEW p, NEW c, NEW o, Goes(j, p, c, o), NEW n
  PROVE  /\ n # job[j].name => Users(n)' = Users(n)
         /\ c = "open" /\ n = job[j].name => Users(n)' = Users(n) \cup {j}
         /\ c # "open" /\ n = job[j].name => Users(n)' = Users(n) \ {j}
         /\ (c = "open" <=> job[j].conn = "open") => Users(n)' = Users(n)
  BY DEF Users, Goes

\* A step of one job, with what it does to its database.
LEMMA JobCounts ==
  ASSUME TypeOK, ClientsCounted, NEW j \in Ids, NEW p, NEW c, NEW o, Goes(j, p, c, o),
         job[j].name \in Names, reader' = reader, sched' = sched,
         \/ /\ c = "open" <=> job[j].conn = "open"
            /\ \A n \in Names : db'[n].clients = db[n].clients
         \/ c = "open" /\ job[j].conn # "open" /\ AtDb(j, AddClient(EntryFor(j)))
         \/ c # "open" /\ job[j].conn = "open" /\ AtDb(j, DropClient(EntryFor(j)))
  PROVE  ClientsCounted'
<1>1. \A n : ReadersOf(n)' = ReadersOf(n) /\ (Probing(n)' <=> Probing(n))
  BY DEF ReadersOf, Probing
<1>2. \A n : Users(n)' = Users(n) => Count(n)' = Count(n)
  BY <1>1 DEF Count
<1>0. PICK m \in Names : m = job[j].name OBVIOUS
<1>3. /\ IsFiniteSet(Users(m)) /\ Cardinality(Users(m)) \in Nat /\ Cardinality(ReadersOf(m)) \in Nat
      /\ (IF Probing(m) THEN 1 ELSE 0) \in {0, 1}
  BY FewClients DEF Users, ReadersOf
<1>4. Count(m)' = Cardinality(Users(m)') + Cardinality(ReadersOf(m)) + (IF Probing(m) THEN 1 ELSE 0)
  BY <1>1 DEF Count
<1>5. CASE /\ c = "open" <=> job[j].conn = "open"
           /\ \A n \in Names : db'[n].clients = db[n].clients
  BY <1>2, <1>5, UsersGo, CountSame
<1>6. CASE c = "open" /\ job[j].conn # "open" /\ AtDb(j, AddClient(EntryFor(j)))
  <2>1. Users(m)' = Users(m) \cup {j} BY <1>0, <1>6, UsersGo
  <2>2. j \notin Users(m) BY <1>0, <1>6 DEF Users
  <2>3. Cardinality(Users(m)') = Cardinality(Users(m)) + 1 BY <1>3, <2>1, <2>2, FS_AddElement
  <2>4. Count(m)' = Count(m) + 1 BY <1>3, <1>4, <2>3 DEF Count
  <2>5. \A n \in Names : n # m => Count(n)' = Count(n) BY <1>0, <1>2, UsersGo
  <2> QED BY <1>0, <1>6, <2>4, <2>5, CountUp DEF AtDb, EntryFor
<1>7. CASE c # "open" /\ job[j].conn = "open" /\ AtDb(j, DropClient(EntryFor(j)))
  <2>1. Users(m)' = Users(m) \ {j} BY <1>0, <1>7, UsersGo
  <2>2. j \in Users(m) BY <1>0, <1>7 DEF Users
  <2>3. Cardinality(Users(m)') = Cardinality(Users(m)) - 1 BY <1>3, <2>1, <2>2, FS_RemoveElement
  <2>4. Count(m)' = Count(m) - 1 BY <1>3, <1>4, <2>3 DEF Count
  <2>5. \A n \in Names : n # m => Count(n)' = Count(n) BY <1>0, <1>2, UsersGo
  <2> QED BY <1>0, <1>7, <2>4, <2>5, CountDown DEF AtDb, EntryFor
<1> QED BY <1>5, <1>6, <1>7

\* Jobs leave commands and reports alone.
LEMMA JobsAlone ==
  ASSUME TypeOK, NEW j \in Ids, BackupJob(j) \/ RestoreJob(j)
  PROVE  reader' = reader /\ sched' = sched /\ job[j].name \in Names
<1>1. reader' = reader /\ sched' = sched /\ job[j].pc # "unused"
  BY DEF RestoreJob, RestoreRefused, RestoreFailed, RestoreOpenDb, RestoreInit, RestoreEnd,
         RestoreRecord, RestoreRemove, BackupJob, BackupStart, BackupRefused, BackupPrepareDb,
         BackupWork, BackupMarkDeleted, CleanupCheck, CleanupStopping, CleanupRecord, CleanupDetach,
         CleanupShut, CleanupDrained, CleanupUnlock, CleanupReopen, CleanupReopenRefused,
         CleanupFinish, CleanupRemove, CleanupLeave
<1> QED BY <1>1 DEF TypeOK, Job, JobOK

\* Every opening by a job is counted up, every leaving down, and nothing else.
LEMMA JobsCounted ==
  ASSUME RecordInv, ~Notices, ~DbFails, ClientsCounted, NEW j \in Ids, BackupJob(j) \/ RestoreJob(j)
  PROVE  ClientsCounted'
<1>0. /\ TypeOK /\ SlotInv /\ ConnOK(job[j]) /\ job[j].pass = "once"
      /\ reader' = reader /\ sched' = sched /\ job[j].name \in Names
  BY JobsAlone DEF RecordInv, Connections, Rows, RowOK
<1>1. db \in [Names -> Entry] /\ EntryFor(j) \in Entry BY <1>0 DEF TypeOK, EntryFor
<1>2. ASSUME db' = db PROVE \A n \in Names : db'[n].clients = db[n].clients BY <1>2
<1>3. ASSUME NEW e, AtDb(j, e), e.clients = EntryFor(j).clients
      PROVE  \A n \in Names : db'[n].clients = db[n].clients
  BY <1>0, <1>1, <1>3 DEF AtDb, EntryFor
<1>4. /\ job[j].conn = "none" => Disconnected(j) = db
      /\ job[j].conn # "none" => (db' = Disconnected(j) => AtDb(j, DropClient(EntryFor(j))))
  BY DEF Disconnected, AtDb, EntryFor
<1>5. job[j].conn \in {"none", "open"} BY <1>0 DEF ConnOK, TypeOK, Job, Conns
<1>6. CASE BackupMoves(j) /\ db' = db
  BY <1>0, <1>2, <1>6, JobCounts DEF BackupMoves
<1>7. CASE BackupDbSteps(j)
  <2>1. CASE job[j].pc \in {"prepare", "reopen"}
    BY <1>0, <1>7, <2>1, JobCounts DEF BackupDbSteps, ConnOK, ApartPCs
  <2>2. CASE job[j].pc = "detach"
    BY <1>0, <1>2, <1>4, <1>5, <1>7, <2>2, JobCounts DEF BackupDbSteps
  <2>3. CASE job[j].pc \in {"shut", "copy"}
    <3>1. /\ GetLock(EntryFor(j)).clients = EntryFor(j).clients
          /\ ReleaseLock(EntryFor(j)).clients = EntryFor(j).clients
      BY <1>1, EntryFields
    <3>2. \A m \in Names : db'[m].clients = db[m].clients
      BY <1>3, <1>7, <2>3, <3>1 DEF BackupDbSteps
    <3> QED BY <1>0, <1>7, <2>3, <3>2, JobCounts DEF BackupDbSteps
  <2> QED BY <1>7, <2>1, <2>2, <2>3 DEF BackupDbSteps
<1>8. CASE BackupRowSteps(j)
  <2>1. CASE job[j].pc = "prepare"
    BY <1>0, <1>8, <2>1, JobCounts DEF BackupRowSteps, ConnOK, ApartPCs
  <2>2. CASE job[j].pc = "record"
    BY <1>0, <1>2, <1>8, <2>2, JobCounts DEF BackupRowSteps
  <2>3. CASE job[j].pc = "leave"
    BY <1>0, <1>2, <1>4, <1>5, <1>8, <2>3, JobCounts DEF BackupRowSteps
  <2> QED BY <1>8, <2>1, <2>2, <2>3 DEF BackupRowSteps
<1>9. CASE RestoreMoves(j) /\ db' = db
  BY <1>0, <1>2, <1>9, JobCounts DEF RestoreMoves, ConnOK, ApartPCs
<1>10. CASE RestoreDbSteps(j)
  BY <1>0, <1>10, JobCounts DEF RestoreDbSteps, ConnOK, ApartPCs
<1>11. CASE RestoreRowSteps(j) /\ db' = db
  BY <1>0, <1>2, <1>11, JobCounts DEF RestoreRowSteps
<1> QED BY <1>0, <1>6, <1>7, <1>8, <1>9, <1>10, <1>11, BackupEffect, RestoreEffect

\* A launched goroutine and a resumed one are not connected yet.
LEMMA UsersOfOthers ==
  ASSUME RecordInv, OtherStep, ~(Crash \/ Sigterm \/ AllStopped)
  PROVE  \A n : Users(n)' = Users(n)
<1>0. TypeOK /\ Connections BY DEF RecordInv
<1>1. CASE job' = job BY <1>1 DEF Users
<1>2. ASSUME NEW j \in Ids, Launched(j) PROVE \A n : Users(n)' = Users(n)
  <2>1. job[j].conn = "none" BY <1>0, <1>2 DEF Connections, ConnOK, ApartPCs, Launched
  <2> QED BY <1>2, <2>1 DEF Launched, Users
<1>3. ASSUME NEW j \in Ids, Goes(j, "rLaunched", job[j].conn, job[j].outcome)
      PROVE  \A n : Users(n)' = Users(n)
  BY <1>3, UsersGo
<1> QED BY <1>0, <1>1, <1>2, <1>3, OtherEffect

\* GenerateJobUuid() and the report handlers count up and down around their
\* use of a database; a process that ends leaves no client and no count.
LEMMA OthersCounted == ASSUME RecordInv, ClientsCounted, OtherStep PROVE ClientsCounted'
<1>0. TypeOK /\ db \in [Names -> Entry] BY DEF RecordInv, TypeOK
<1>1. ASSUME NEW how, ProcessEnds(how) PROVE ClientsCounted'
  <2> SUFFICES ASSUME NEW n \in Names PROVE db'[n].clients = Count(n)'
    BY DEF ClientsCounted, Count
  <2>1. Users(n)' = {}
    <3>1. \A j \in Ids : job'[j].conn = "none" BY <1>1 DEF ProcessEnds, Gone, Unused
    <3> QED BY <3>1 DEF Users
  <2>2. ReadersOf(n)' = {} BY <1>1, SchedulerAssumption DEF ProcessEnds, ReadersOf
  <2>3. ~Probing(n)' BY <1>1 DEF ProcessEnds, Probing, Idle
  <2>4. db'[n].clients = 0 BY <1>1 DEF ProcessEnds, IdleEntry
  <2>5. Count(n)' = Cardinality({}) + Cardinality({}) + 0 BY <2>1, <2>2, <2>3 DEF Count
  <2> QED BY <2>4, <2>5, FS_EmptySet
<1>2. CASE Crash \/ Sigterm \/ AllStopped BY <1>1, <1>2 DEF Crash, Sigterm, AllStopped
<1>3. ASSUME ~(Crash \/ Sigterm \/ AllStopped) PROVE ClientsCounted'
  <2>0. \A n : Users(n)' = Users(n) BY <1>3, UsersOfOthers
  <2>1. ASSUME db' = db, reader' = reader, sched.pc # "probed", sched'.pc # "probed"
        PROVE  ClientsCounted'
    <3>1. \A n : ReadersOf(n)' = ReadersOf(n) /\ (Probing(n)' <=> Probing(n))
      BY <2>1 DEF ReadersOf, Probing
    <3> QED BY <2>0, <2>1, <3>1, CountSame DEF Count
  <2>2. ASSUME db' = db, reader' = reader, sched' = sched PROVE ClientsCounted'
    <3>1. \A n : ReadersOf(n)' = ReadersOf(n) /\ (Probing(n)' <=> Probing(n))
      BY <2>2 DEF ReadersOf, Probing
    <3> QED BY <2>0, <2>2, <3>1, CountSame DEF Count
  <2>3. CASE ProbeOpen
    <3>0. PICK m \in Names : m = sched.name BY <1>0, <2>3 DEF ProbeOpen, TypeOK, SchedOK, Sched
    <3>1. sched.pc = "probe" /\ sched'.pc = "probed" /\ sched'.name = m
      BY <1>0, <2>3, <3>0 DEF ProbeOpen, TypeOK, Sched
    <3>2. \A n : ~Probing(n) /\ (Probing(n)' <=> n = m) BY <3>1 DEF Probing
    <3>3. \A n : ReadersOf(n)' = ReadersOf(n) BY <2>3 DEF ProbeOpen, ReadersOf
    <3>4. /\ Count(m) = Cardinality(Users(m)) + Cardinality(ReadersOf(m)) + 0
          /\ Count(m)' = Cardinality(Users(m)) + Cardinality(ReadersOf(m)) + 1
      BY <2>0, <3>2, <3>3 DEF Count
    <3>5. Cardinality(Users(m)) \in Nat /\ Cardinality(ReadersOf(m)) \in Nat
      BY FewClients DEF Users, ReadersOf
    <3>6. Count(m)' = Count(m) + 1 BY <3>4, <3>5
    <3>7. \A n \in Names : n # m => Count(n)' = Count(n) BY <2>0, <3>2, <3>3 DEF Count
    <3> QED BY <1>0, <2>3, <3>0, <3>6, <3>7, CountUp DEF ProbeOpen
  <2>4. CASE ProbeLeave
    <3>0. PICK m \in Names : m = sched.name BY <1>0, <2>4 DEF ProbeLeave, TypeOK, SchedOK, Sched
    <3>1. sched.pc = "probed" /\ sched'.pc = "mark"
      BY <1>0, <2>4 DEF ProbeLeave, TypeOK, Sched
    <3>2. \A n : ~Probing(n)' /\ (Probing(n) <=> n = m) BY <3>0, <3>1 DEF Probing
    <3>3. \A n : ReadersOf(n)' = ReadersOf(n) BY <2>4 DEF ProbeLeave, ReadersOf
    <3>4. /\ Count(m) = Cardinality(Users(m)) + Cardinality(ReadersOf(m)) + 1
          /\ Count(m)' = Cardinality(Users(m)) + Cardinality(ReadersOf(m)) + 0
      BY <2>0, <3>2, <3>3 DEF Count
    <3>5. Cardinality(Users(m)) \in Nat /\ Cardinality(ReadersOf(m)) \in Nat
      BY FewClients DEF Users, ReadersOf
    <3>6. Count(m)' = Count(m) - 1 BY <3>4, <3>5
    <3>7. \A n \in Names : n # m => Count(n)' = Count(n) BY <2>0, <3>2, <3>3 DEF Count
    <3> QED BY <1>0, <2>4, <3>0, <3>6, <3>7, CountDown DEF ProbeLeave
  <2>5. ASSUME NEW r \in Readers, NEW m \in Names, ReaderOpen(r, m) PROVE ClientsCounted'
    <3>1. /\ reader[r] = Empty /\ reader'[r] = m
          /\ \A s \in Readers : s # r => reader'[s] = reader[s]
      BY <1>0, <2>5 DEF ReaderOpen, TypeOK
    <3>2. \A n : Probing(n)' <=> Probing(n) BY <2>5 DEF ReaderOpen, Probing
    <3>3. ReadersOf(m)' = ReadersOf(m) \cup {r} /\ r \notin ReadersOf(m)
      BY <3>1, SchedulerAssumption DEF ReadersOf
    <3>4. \A n \in Names : n # m => ReadersOf(n)' = ReadersOf(n)
      BY <3>1, SchedulerAssumption DEF ReadersOf
    <3>5. /\ Cardinality(Users(m)) \in Nat /\ Cardinality(ReadersOf(m)) \in Nat
          /\ IsFiniteSet(ReadersOf(m)) /\ (IF Probing(m) THEN 1 ELSE 0) \in {0, 1}
      BY FewClients DEF Users, ReadersOf
    <3>6. Cardinality(ReadersOf(m)') = Cardinality(ReadersOf(m)) + 1
      BY <3>3, <3>5, FS_AddElement
    <3>7. Count(m)' = Cardinality(Users(m)) + (Cardinality(ReadersOf(m)) + 1)
                      + (IF Probing(m) THEN 1 ELSE 0)
      BY <2>0, <3>2, <3>6 DEF Count
    <3>8. Count(m)' = Count(m) + 1 BY <3>5, <3>7 DEF Count
    <3>9. \A n \in Names : n # m => Count(n)' = Count(n) BY <2>0, <3>2, <3>4 DEF Count
    <3> QED BY <1>0, <2>5, <3>8, <3>9, CountUp DEF ReaderOpen
  <2>6. ASSUME NEW r \in Readers, ReaderClose(r) PROVE ClientsCounted'
    <3>0. PICK m \in Names : m = reader[r] BY <1>0, <2>6 DEF ReaderClose, TypeOK
    <3>1. /\ reader'[r] = Empty /\ \A s \in Readers : s # r => reader'[s] = reader[s]
      BY <1>0, <2>6 DEF ReaderClose, TypeOK
    <3>2. \A n : Probing(n)' <=> Probing(n) BY <2>6 DEF ReaderClose, Probing
    <3>3. ReadersOf(m)' = ReadersOf(m) \ {r} /\ r \in ReadersOf(m)
      BY <3>0, <3>1, SchedulerAssumption DEF ReadersOf
    <3>4. \A n \in Names : n # m => ReadersOf(n)' = ReadersOf(n)
      BY <3>0, <3>1, SchedulerAssumption DEF ReadersOf
    <3>5. /\ Cardinality(Users(m)) \in Nat /\ Cardinality(ReadersOf(m)) \in Nat
          /\ IsFiniteSet(ReadersOf(m)) /\ (IF Probing(m) THEN 1 ELSE 0) \in {0, 1}
      BY FewClients DEF Users, ReadersOf
    <3>6. Cardinality(ReadersOf(m)') = Cardinality(ReadersOf(m)) - 1
      BY <3>3, <3>5, FS_RemoveElement
    <3>7. Count(m)' = Cardinality(Users(m)) + (Cardinality(ReadersOf(m)) - 1)
                      + (IF Probing(m) THEN 1 ELSE 0)
      BY <2>0, <3>2, <3>6 DEF Count
    <3>8. Count(m)' = Count(m) - 1 BY <3>5, <3>7 DEF Count
    <3>9. \A n \in Names : n # m => Count(n)' = Count(n) BY <2>0, <3>2, <3>4 DEF Count
    <3> QED BY <1>0, <2>6, <3>0, <3>8, <3>9, CountDown DEF ReaderClose
  <2>7. CASE Process
    <3>1. CASE Boot \/ PutConfig BY <2>2, <3>1 DEF Boot, PutConfig
    <3>2. CASE StopAll
      <4>1. sched'.pc = "waiting" BY <1>0, <3>2 DEF StopAll, TypeOK, Sched
      <4> QED BY <2>1, <3>2, <4>1 DEF StopAll
    <3> QED BY <1>3, <2>7, <3>1, <3>2 DEF Process
  <2>8. CASE Command
    <3>1. sched'.pc # "probed" /\ sched.pc # "probed" /\ db' = db /\ reader' = reader
      BY <1>0, <2>8 DEF Command, StartCmd, ResumeCmd, StopCmd, TypeOK, Sched
    <3> QED BY <2>1, <3>1
  <2>9. CASE ProbeRefused \/ StartJob \/ StopMark \/ StopCancel
    <3>1. sched' = Idle \/ sched' = [sched EXCEPT !.pc = "stopCancel"]
      BY <2>9 DEF ProbeRefused, StartJob, StopMark, StopCancel
    <3>2. sched'.pc # "probed"
      <4>1. CASE sched' = Idle BY <4>1 DEF Idle
      <4>2. CASE sched' = [sched EXCEPT !.pc = "stopCancel"] BY <1>0, <4>2 DEF TypeOK, Sched
      <4> QED BY <3>1, <4>1, <4>2
    <3>3. sched.pc # "probed" /\ db' = db /\ reader' = reader
      BY <2>9 DEF ProbeRefused, StartJob, StopMark, StopCancel
    <3> QED BY <2>1, <3>2, <3>3
  <2>10. CASE UNCHANGED vars BY <2>2, <2>10 DEF vars
  <2>11. CASE \E c \in Clients : CloseHandle(c) BY <2>2, <2>11 DEF CloseHandle
  <2> QED BY <2>3, <2>4, <2>5, <2>6, <2>7, <2>8, <2>9, <2>10, <2>11 DEF OtherStep, Serve
<1> QED BY <1>2, <1>3

\* Two jobs of one name are never both before the end of their cleanup.
LEMMA OneHolder ==
  ASSUME RecordInv, NEW j \in Ids, NEW k \in Ids, job[j].name = job[k].name,
         job[j].pc \in {"drain", "copy"}, job[k].pc \in {"drain", "copy"}
  PROVE  j = k
<1>1. HoldsSlot(j) /\ HoldsSlot(k)
  BY DEF RecordInv, Rows, RowOK, HoldsSlot, Holds, SlotPCs, BackupPCs
<1>2. IsRunning(running, job[j].name, j) /\ IsRunning(running, job[k].name, k)
  BY <1>1 DEF RecordInv, SlotInv, SlotsOwned
<1>3. PICK e \in running : e.name = job[j].name /\ e.id = j
  BY <1>2, SchedulerAssumption DEF IsRunning, Matches
<1>4. PICK f \in running : f.name = job[k].name /\ f.id = k
  BY <1>2, SchedulerAssumption DEF IsRunning, Matches
<1> QED BY <1>3, <1>4 DEF RecordInv, SlotInv, OneJobPerName

\* A gate that is closed stays closed until the job that copies opens it.
LEMMA GatesStep ==
  ASSUME RecordInv, ~Notices, ~DbFails, Gates, [Next]_vars
  PROVE  Gates'
<1>0. TypeOK /\ SlotInv /\ db \in [Names -> Entry] BY DEF RecordInv, TypeOK
<1>a. \A j \in Ids : job[j].pc # "unused" => job[j].name \in Names BY <1>0 DEF TypeOK, Job, JobOK
<1>1. ASSUME NEW m \in Names, NEW e, e.free = db[m].free, db' = [db EXCEPT ![m] = e]
      PROVE  \A n \in Names : db'[n].free = db[n].free
  BY <1>0, <1>1
<1>2. ASSUME NEW j \in Ids, NEW p, NEW c, NEW o, Goes(j, p, c, o),
             p \in {"drain", "copy"} => job[j].pc \in {"drain", "copy"},
             \A n \in Names : db'[n].free = db[n].free
      PROVE  Gates'
  BY <1>2, <1>a DEF Gates, Goes
<1>3. ASSUME NEW j \in Ids, BackupJob(j) PROVE Gates'
  <2>0. job[j].pass = "once" /\ job[j].name \in Names
    BY <1>0, <1>3, JobsAlone DEF RecordInv, Rows, RowOK
  <2>1. EntryFor(j) \in Entry BY <1>0, <2>0 DEF EntryFor
  <2>2. ASSUME db' = Disconnected(j) \/ AtDb(j, AddClient(EntryFor(j)))
        PROVE  \A n \in Names : db'[n].free = db[n].free
    <3>1. /\ AddClient(EntryFor(j)).free = EntryFor(j).free
          /\ DropClient(EntryFor(j)).free = EntryFor(j).free
      BY <2>1, EntryFields
    <3>2. \/ db' = db \/ AtDb(j, AddClient(EntryFor(j))) \/ AtDb(j, DropClient(EntryFor(j)))
      BY <2>2 DEF Disconnected, AtDb, EntryFor
    <3> QED BY <1>1, <2>0, <3>1, <3>2 DEF AtDb, EntryFor
  <2>3. CASE BackupMoves(j) /\ db' = db BY <1>2, <2>3 DEF BackupMoves
  <2>4. CASE BackupRowSteps(j)
    <3>1. \A n \in Names : db'[n].free = db[n].free BY <2>2, <2>4 DEF BackupRowSteps
    <3> QED BY <1>2, <2>4, <3>1 DEF BackupRowSteps
  <2>5. CASE BackupDbSteps(j)
    <3>1. CASE job[j].pc \notin {"shut", "copy"}
      <4>1. \A n \in Names : db'[n].free = db[n].free BY <2>2, <2>5, <3>1 DEF BackupDbSteps
      <4> QED BY <1>2, <2>5, <3>1, <4>1 DEF BackupDbSteps
    <3>2. CASE job[j].pc = "shut"
      <4>1. AtDb(j, GetLock(EntryFor(j))) /\ Goes(j, "drain", job[j].conn, job[j].outcome)
        BY <2>5, <3>2 DEF BackupDbSteps
      <4>2. ~GetLock(EntryFor(j)).free BY <2>1, EntryFields
      <4>3. \A n \in Names : ~db[n].free \/ n = job[j].name => ~db'[n].free
        BY <1>0, <2>0, <4>1, <4>2 DEF AtDb
      <4> QED BY <1>a, <2>0, <4>1, <4>3 DEF Gates, Goes
    <3>3. CASE job[j].pc = "copy"
      <4>1. AtDb(j, ReleaseLock(EntryFor(j))) /\ Goes(j, "reopen", job[j].conn, job[j].outcome)
        BY <2>5, <3>3 DEF BackupDbSteps
      <4>2. \A n \in Names : n # job[j].name => db'[n] = db[n] BY <1>0, <4>1 DEF AtDb
      <4>3. ASSUME NEW k \in Ids, job'[k].pc \in {"drain", "copy"} PROVE ~db'[job'[k].name].free
        <5>1. k # j BY <4>1, <4>3 DEF Goes
        <5>2. job'[k] = job[k] BY <4>1, <5>1 DEF Goes
        <5>3. job[k].name # job[j].name BY <3>3, <4>3, <5>1, <5>2, OneHolder
        <5> QED BY <1>a, <4>2, <4>3, <5>2, <5>3 DEF Gates
      <4> QED BY <4>3 DEF Gates
    <3> QED BY <3>1, <3>2, <3>3
  <2> QED BY <1>0, <1>3, <2>0, <2>3, <2>4, <2>5, BackupEffect
<1>4. ASSUME NEW j \in Ids, RestoreJob(j) PROVE Gates'
  <2>0. job[j].pass = "once" /\ job[j].name \in Names
    BY <1>0, <1>4, JobsAlone DEF RecordInv, Rows, RowOK
  <2>1. EntryFor(j) \in Entry BY <1>0, <2>0 DEF EntryFor
  <2>2. ASSUME AtDb(j, DropClient(EntryFor(j))) \/ AtDb(j, AddClient(EntryFor(j)))
        PROVE  \A n \in Names : db'[n].free = db[n].free
    <3>1. /\ AddClient(EntryFor(j)).free = EntryFor(j).free
          /\ DropClient(EntryFor(j)).free = EntryFor(j).free
      BY <2>1, EntryFields
    <3> QED BY <1>1, <2>0, <2>2, <3>1 DEF AtDb, EntryFor
  <2>3. CASE RestoreMoves(j) /\ db' = db BY <1>2, <2>3 DEF RestoreMoves
  <2>4. CASE RestoreRowSteps(j) /\ db' = db BY <1>2, <2>4 DEF RestoreRowSteps
  <2>5. CASE RestoreDbSteps(j) BY <1>2, <2>2, <2>5 DEF RestoreDbSteps
  <2> QED BY <1>0, <1>4, <2>0, <2>3, <2>4, <2>5, RestoreEffect
<1>5. CASE OtherStep
  <2>1. CASE AllGone BY <2>1 DEF AllGone, Gates
  <2>2. ASSUME ~AllGone PROVE \A n \in Names : db'[n].free = db[n].free
    <3>1. ASSUME NEW how, ProcessEnds(how) PROVE FALSE
      BY <2>2, <3>1 DEF ProcessEnds, AllGone, Gone, Unused
    <3>2. ASSUME NEW m \in Names, db' = [db EXCEPT ![m] = AddClient(db[m])] \/
                                  db' = [db EXCEPT ![m] = DropClient(db[m])]
          PROVE  \A n \in Names : db'[n].free = db[n].free
      <4>1. AddClient(db[m]).free = db[m].free /\ DropClient(db[m]).free = db[m].free
        BY <1>0, EntryFields
      <4> QED BY <1>1, <3>2, <4>1
    <3>3. CASE Process
      BY <3>1, <3>3 DEF Process, Crash, Sigterm, AllStopped, StopAll, Boot, PutConfig
    <3>4. CASE Command BY <3>4 DEF Command, StartCmd, ResumeCmd, StopCmd
    <3>5. CASE ProbeOpen \/ ProbeLeave
      <4>1. sched.name \in Names BY <1>0, <3>5 DEF ProbeOpen, ProbeLeave, TypeOK, SchedOK, Sched
      <4> QED BY <3>2, <3>5, <4>1 DEF ProbeOpen, ProbeLeave
    <3>6. CASE ProbeRefused \/ StartJob \/ StopMark \/ StopCancel
      BY <3>6 DEF ProbeRefused, StartJob, StopMark, StopCancel
    <3>7. ASSUME NEW r \in Readers, NEW m \in Names, ReaderOpen(r, m)
          PROVE  \A n \in Names : db'[n].free = db[n].free
      BY <3>2, <3>7 DEF ReaderOpen
    <3>8. ASSUME NEW r \in Readers, ReaderClose(r)
          PROVE  \A n \in Names : db'[n].free = db[n].free
      <4>1. reader[r] \in Names BY <1>0, <3>8 DEF ReaderClose, TypeOK
      <4> QED BY <3>2, <3>8, <4>1 DEF ReaderClose
    <3>9. CASE UNCHANGED vars \/ \E c \in Clients : CloseHandle(c)
      BY <3>9 DEF vars, CloseHandle
    <3> QED BY <1>5, <3>3, <3>4, <3>5, <3>6, <3>7, <3>8, <3>9 DEF OtherStep, Serve
  <2>3. ASSUME ~AllGone PROVE Gates'
    <3>1. CASE job' = job BY <1>a, <2>2, <2>3, <3>1 DEF Gates
    <3>2. ASSUME NEW j \in Ids, Launched(j) PROVE Gates'
      BY <1>a, <2>2, <2>3, <3>2 DEF Gates, Launched
    <3>3. ASSUME NEW j \in Ids, Goes(j, "rLaunched", job[j].conn, job[j].outcome) PROVE Gates'
      BY <1>2, <2>2, <2>3, <3>3
    <3> QED BY <1>0, <1>5, <2>3, <3>1, <3>2, <3>3, OtherEffect
  <2> QED BY <2>1, <2>3
<1> QED BY <1>3, <1>4, <1>5 DEF Next, OtherStep

\* Nobody passes a closed gate: no new client where it is closed.
LEMMA NoNewClients ==
  ASSUME RecordInv, ~Notices, ~DbFails, [Next]_vars, NEW n \in Names, ~db[n].free
  PROVE  /\ Users(n)' \subseteq Users(n) /\ ReadersOf(n)' \subseteq ReadersOf(n)
         /\ Probing(n)' => Probing(n)
<1>0. TypeOK /\ SlotInv BY DEF RecordInv
<1>1. ASSUME NEW j \in Ids, BackupJob(j) \/ RestoreJob(j)
      PROVE  /\ Users(n)' \subseteq Users(n) /\ ReadersOf(n)' \subseteq ReadersOf(n)
             /\ Probing(n)' => Probing(n)
  <2>0. job[j].pass = "once" /\ reader' = reader /\ sched' = sched
    BY <1>0, <1>1, JobsAlone DEF RecordInv, Rows, RowOK
  <2>1. ReadersOf(n)' \subseteq ReadersOf(n) /\ (Probing(n)' => Probing(n))
    BY <2>0 DEF ReadersOf, Probing
  <2>2. ASSUME NEW p, NEW c, NEW o, Goes(j, p, c, o), c # job[j].conn => c # "open" \/ EntryFor(j).free
        PROVE  Users(n)' \subseteq Users(n)
    BY <2>2, UsersGo DEF EntryFor
  <2>3. CASE BackupMoves(j) BY <2>1, <2>2, <2>3 DEF BackupMoves
  <2>4. CASE BackupDbSteps(j) BY <2>1, <2>2, <2>4 DEF BackupDbSteps
  <2>5. CASE BackupRowSteps(j) BY <2>1, <2>2, <2>5 DEF BackupRowSteps
  <2>6. CASE RestoreMoves(j) BY <2>1, <2>2, <2>6 DEF RestoreMoves
  <2>7. CASE RestoreDbSteps(j) BY <2>1, <2>2, <2>7 DEF RestoreDbSteps
  <2>8. CASE RestoreRowSteps(j) BY <2>1, <2>2, <2>8 DEF RestoreRowSteps
  <2> QED
    BY <1>0, <1>1, <2>0, <2>1, <2>3, <2>4, <2>5, <2>6, <2>7, <2>8, BackupEffect, RestoreEffect
<1>2. CASE OtherStep
  <2>1. ASSUME NEW how, ProcessEnds(how)
        PROVE  Users(n)' = {} /\ ReadersOf(n)' = {} /\ ~Probing(n)'
    <3>1. \A j \in Ids : job'[j].conn = "none" BY <2>1 DEF ProcessEnds, Gone, Unused
    <3>2. Users(n)' = {} BY <3>1 DEF Users
    <3>3. ReadersOf(n)' = {} BY <2>1, SchedulerAssumption DEF ProcessEnds, ReadersOf
    <3>4. ~Probing(n)' BY <2>1 DEF ProcessEnds, Probing, Idle
    <3> QED BY <3>2, <3>3, <3>4
  <2>2. CASE Crash \/ Sigterm \/ AllStopped BY <2>1, <2>2 DEF Crash, Sigterm, AllStopped
  <2>3. ASSUME ~(Crash \/ Sigterm \/ AllStopped)
        PROVE  /\ Users(n)' \subseteq Users(n) /\ ReadersOf(n)' \subseteq ReadersOf(n)
               /\ Probing(n)' => Probing(n)
    <3>1. Users(n)' = Users(n) BY <1>2, <2>3, UsersOfOthers
    <3>2. ReadersOf(n)' \subseteq ReadersOf(n)
      <4>1. CASE reader' = reader BY <4>1 DEF ReadersOf
      <4>2. ASSUME NEW r \in Readers, ReaderClose(r) PROVE ReadersOf(n)' \subseteq ReadersOf(n)
        BY <1>0, <4>2, SchedulerAssumption DEF ReaderClose, ReadersOf, TypeOK
      <4>3. ASSUME NEW r \in Readers, NEW m \in Names, ReaderOpen(r, m)
            PROVE ReadersOf(n)' \subseteq ReadersOf(n)
        BY <1>0, <4>3 DEF ReaderOpen, ReadersOf, TypeOK
      <4>4. CASE \/ Process \/ Command \/ Serve \/ UNCHANGED vars
                 \/ \E c \in Clients : CloseHandle(c)
        <5>1. reader' = reader
          BY <2>3, <4>4
             DEF Process, StopAll, Boot, PutConfig, Command, StartCmd, ResumeCmd, StopCmd, Serve,
                 ProbeOpen, ProbeLeave, ProbeRefused, StartJob, StopMark, StopCancel, CloseHandle, vars
        <5> QED BY <4>1, <5>1
      <4> QED BY <1>2, <4>2, <4>3, <4>4 DEF OtherStep
    <3>3. ASSUME Probing(n)' PROVE Probing(n)
      <4>1. CASE sched' = sched BY <3>3, <4>1 DEF Probing
      <4>2. CASE ProbeOpen
        <5>1. sched'.name = sched.name BY <1>0, <4>2 DEF ProbeOpen, TypeOK, Sched
        <5> QED BY <3>3, <4>2, <5>1 DEF ProbeOpen, Probing
      <4>3. CASE ProbeRefused \/ StartJob \/ StopCancel
        BY <3>3, <4>3 DEF ProbeRefused, StartJob, StopCancel, Idle, Probing
      <4>9. CASE ProbeLeave
        BY <1>0, <3>3, <4>9 DEF ProbeLeave, Probing, TypeOK, Sched
      <4>4. CASE StopMark
        <5>1. CASE sched' = Idle BY <3>3, <5>1 DEF Idle, Probing
        <5>2. CASE sched' = [sched EXCEPT !.pc = "stopCancel"]
          BY <1>0, <3>3, <5>2 DEF Probing, TypeOK, Sched
        <5> QED BY <4>4, <5>1, <5>2 DEF StopMark
      <4>5. CASE Command
        BY <1>0, <3>3, <4>5 DEF Command, StartCmd, ResumeCmd, StopCmd, Probing, TypeOK, Sched
      <4>6. CASE Process
        BY <1>0, <2>3, <3>3, <4>1, <4>6 DEF Process, StopAll, Boot, PutConfig, Probing, TypeOK, Sched
      <4>7. CASE \E r \in Readers : ReaderClose(r) \/ \E m \in Names : ReaderOpen(r, m)
        BY <4>1, <4>7 DEF ReaderClose, ReaderOpen
      <4>8. CASE UNCHANGED vars \/ \E c \in Clients : CloseHandle(c)
        BY <4>1, <4>8 DEF vars, CloseHandle
      <4> QED BY <1>2, <4>2, <4>3, <4>4, <4>5, <4>6, <4>7, <4>8, <4>9 DEF OtherStep, Serve
    <3> QED BY <3>1, <3>2, <3>3
  <2> QED BY <2>2, <2>3
<1> QED BY <1>1, <1>2 DEF Next, OtherStep

\* Who leaves a handle behind: a report, the scheduler, or the job that takes
\* the step, which is then not about to copy.
LEMMA WhoLeaves ==
  ASSUME TypeOK, [Next]_vars, NEW h \in leaving', h \notin leaving
  PROVE  \/ h.who \in Readers \cup {Empty}
         \/ h.who \in Ids /\ job'[h.who].pc \notin {"drain", "copy"}
<1>1. ASSUME NEW j \in Ids, NEW n, Leaves(j, n), job'[j].pc \notin {"drain", "copy"}
      PROVE  h.who \in Ids /\ job'[h.who].pc \notin {"drain", "copy"}
  BY <1>1 DEF Leaves
<1>2. ASSUME NEW j \in Ids, NEW g, Becomes(j, g) PROVE job'[j] = g
  BY <1>2 DEF Becomes, TypeOK
<1>3. ASSUME NEW j \in Ids, BackupJob(j)
      PROVE  h.who \in Ids /\ job'[h.who].pc \notin {"drain", "copy"}
  <2>0. job[j] \in Job BY DEF TypeOK
  <2>1. CleanupDetach(j) \/ CleanupReopen(j) \/ CleanupLeave(j)
    BY <1>3
       DEF BackupJob, BackupStart, BackupRefused, BackupPrepareDb, BackupWork,
           BackupMarkDeleted, CleanupCheck, CleanupStopping, CleanupRecord, CleanupShut,
           CleanupDrained, CleanupUnlock, CleanupReopenRefused, CleanupFinish, CleanupRemove
  <2>2. Leaves(j, job[j].name)
    BY <2>1 DEF CleanupDetach, CleanupReopen, CleanupLeave, Disconnect
  <2>3. job'[j].pc \in {"shut", "finish", "check", "gone"}
    <3>1. CASE CleanupDetach(j) BY <1>2, <2>0, <3>1 DEF CleanupDetach, Job
    <3>2. CASE CleanupReopen(j) BY <1>2, <2>0, <3>2 DEF CleanupReopen, Job
    <3>3. CASE CleanupLeave(j)
      <4>1. CASE job[j].pass = "first" BY <1>2, <2>0, <3>3, <4>1 DEF CleanupLeave, Job
      <4>2. CASE job[j].pass # "first" BY <1>2, <3>3, <4>2 DEF CleanupLeave, Gone, Unused
      <4> QED BY <4>1, <4>2
    <3> QED BY <2>1, <3>1, <3>2, <3>3
  <2> QED BY <1>1, <2>2, <2>3
<1>4. ASSUME NEW j \in Ids, RestoreJob(j)
      PROVE  h.who \in Ids /\ job'[h.who].pc \notin {"drain", "copy"}
  <2>0. job[j] \in Job BY DEF TypeOK
  <2>1. RestoreEnd(j)
    BY <1>4 DEF RestoreJob, RestoreRefused, RestoreFailed, RestoreOpenDb, RestoreInit,
                RestoreRecord, RestoreRemove
  <2>2. job'[j].pc = "rRecord" BY <1>2, <2>0, <2>1 DEF RestoreEnd, Job
  <2> QED BY <1>1, <2>1, <2>2 DEF RestoreEnd
<1>5. CASE OtherStep
  <2>1. CASE ProbeLeave BY <2>1 DEF ProbeLeave, Leaves
  <2>2. CASE \E r \in Readers : ReaderClose(r) BY <2>2 DEF ReaderClose, Leaves
  <2>3. ASSUME NEW how, ProcessEnds(how) PROVE FALSE BY <2>3 DEF ProcessEnds
  <2>4. CASE Process
    BY <2>3, <2>4 DEF Process, Crash, Sigterm, AllStopped, StopAll, Boot, PutConfig
  <2>5. CASE \/ Command \/ (Serve /\ ~ProbeLeave) \/ UNCHANGED vars
             \/ \E r \in Readers, n \in Names : ReaderOpen(r, n)
             \/ \E c \in Clients : CloseHandle(c)
    BY <2>5 DEF Command, StartCmd, ResumeCmd, StopCmd, Serve, ProbeOpen, ProbeRefused, StartJob,
                StopMark, StopCancel, ReaderOpen, CloseHandle, vars
  <2> QED BY <1>5, <2>1, <2>2, <2>4, <2>5 DEF OtherStep
<1> QED BY <1>3, <1>4, <1>5 DEF Next, OtherStep

\* How a job comes to wait for the clients of its database, and to copy it.
LEMMA ToCopy ==
  ASSUME RecordInv, ~Notices, ~DbFails, [Next]_vars, NEW j \in Ids,
         job'[j].pc \in {"drain", "copy"}
  PROVE  /\ job'[j].name = job[j].name
         /\ \/ job[j].pc \in {"drain", "copy"}
            \/ job[j].pc = "shut" /\ job'[j].pc = "drain" /\ Returned(j)
         /\ job[j].pc = "drain" /\ job'[j].pc = "copy" => EntryFor(j).clients = 0
<1>0. TypeOK /\ SlotInv BY DEF RecordInv
<1>1. CASE BackupJob(j)
  <2>0. job[j].pass = "once" BY DEF RecordInv, Rows, RowOK
  <2>1. BackupMoves(j) \/ BackupDbSteps(j) \/ BackupRowSteps(j)
    BY <1>0, <1>1, <2>0, BackupEffect
  <2>2. CASE BackupMoves(j) BY <2>2 DEF BackupMoves, Goes
  <2>3. CASE BackupDbSteps(j) BY <2>3 DEF BackupDbSteps, Goes
  <2>4. CASE BackupRowSteps(j) BY <2>4 DEF BackupRowSteps, Goes
  <2> QED BY <2>1, <2>2, <2>3, <2>4
<1>2. CASE RestoreJob(j)
  <2>0. job[j].pass = "once" BY DEF RecordInv, Rows, RowOK
  <2>1. RestoreMoves(j) \/ RestoreDbSteps(j) \/ RestoreRowSteps(j)
    BY <1>0, <1>2, <2>0, RestoreEffect
  <2> QED BY <2>1 DEF RestoreMoves, RestoreDbSteps, RestoreRowSteps, Goes
<1>3. ASSUME job'[j] = job[j] PROVE job[j].pc \in {"drain", "copy"} BY <1>3
<1>4. ASSUME NEW i \in Ids, i # j, BackupJob(i) \/ RestoreJob(i) PROVE job'[j] = job[j]
  BY <1>4, OthersKept DEF RecordInv
<1>5. CASE OtherStep
  BY <1>0, <1>5, OtherEffect DEF AllGone, Launched, Goes
<1> QED BY <1>1, <1>2, <1>3, <1>4, <1>5 DEF Next, OtherStep

\* A job that waits for the clients of its database, or copies it, has closed
\* its own handle before: CloseDb() is called when DisconnectFromDb() is back.
OwnClosed == \A j \in Ids : job[j].pc \in {"drain", "copy"} => Returned(j)

LEMMA OwnClosedStep ==
  ASSUME RecordInv, ~Notices, ~DbFails, OwnClosed, [Next]_vars
  PROVE  OwnClosed'
<1> SUFFICES ASSUME NEW j \in Ids, job'[j].pc \in {"drain", "copy"}, NEW h \in leaving'
             PROVE  h.who # j
  BY DEF OwnClosed, Returned
<1>1. Returned(j) BY ToCopy DEF OwnClosed
<1>2. CASE h \in leaving BY <1>1, <1>2 DEF Returned
<1>3. CASE h \notin leaving
  <2>1. \/ h.who \in Readers \cup {Empty}
        \/ h.who \in Ids /\ job'[h.who].pc \notin {"drain", "copy"}
    BY <1>3, WhoLeaves DEF RecordInv
  <2> QED BY <2>1, SchedulerAssumption
<1> QED BY <1>2, <1>3

\* A job gets to its copy, in CloseDb(), only when the counter is zero, and
\* then nobody is connected; while it copies nobody comes.
LEMMA CopyStep ==
  ASSUME RecordInv, ~Notices, ~DbFails, Gates, ClientsCounted, OwnClosed, CopyAlone, [Next]_vars
  PROVE  CopyAlone'
<1>0. TypeOK /\ SlotInv BY DEF RecordInv
<1> SUFFICES ASSUME NEW j \in Ids, job'[j].pc = "copy", NEW n, n = job'[j].name
             PROVE  Users(n)' = {} /\ ReadersOf(n)' = {} /\ ~Probing(n)'
  BY OwnClosedStep DEF OwnClosed, CopyAlone, Users, ReadersOf, Probing
<1>1. job[j].pc \in {"drain", "copy"} /\ job'[j].name = job[j].name /\
      (job[j].pc = "drain" => EntryFor(j).clients = 0)
  BY ToCopy
<1>2. n = job[j].name /\ n \in Names BY <1>0, <1>1 DEF TypeOK, Job, JobOK
<1>3. ~db[n].free BY <1>1, <1>2 DEF Gates
<1>4. Users(n) = {} /\ ReadersOf(n) = {} /\ ~Probing(n)
  <2>1. CASE job[j].pc = "copy" BY <1>2, <2>1 DEF CopyAlone
  <2>2. CASE job[j].pc = "drain"
    <3>1. Cardinality(Users(n)) + Cardinality(ReadersOf(n)) + (IF Probing(n) THEN 1 ELSE 0) = 0
      BY <1>1, <1>2, <2>2 DEF ClientsCounted, EntryFor
    <3>2. /\ Cardinality(Users(n)) \in Nat /\ Cardinality(ReadersOf(n)) \in Nat
          /\ IsFiniteSet(Users(n)) /\ IsFiniteSet(ReadersOf(n))
          /\ (IF Probing(n) THEN 1 ELSE 0) \in {0, 1}
      BY FewClients DEF Users, ReadersOf
    <3>3. /\ Cardinality(Users(n)) = 0 /\ Cardinality(ReadersOf(n)) = 0
          /\ (IF Probing(n) THEN 1 ELSE 0) = 0
      BY <3>1, <3>2
    <3> QED BY <3>2, <3>3, FS_EmptySet
  <2> QED BY <1>1, <2>1, <2>2
<1> QED BY <1>2, <1>3, <1>4, NoNewClients

\* The invariant of the databases is inductive.
LEMMA ClientsAlways ==
  ASSUME ~Notices, ~DbFails PROVE Spec => [](ClientsCounted /\ Gates /\ OwnClosed /\ CopyAlone)
<1>1. Init => ClientsCounted /\ Gates /\ OwnClosed /\ CopyAlone
  <2> SUFFICES ASSUME Init PROVE ClientsCounted /\ Gates /\ OwnClosed /\ CopyAlone
    OBVIOUS
  <2>1. \A j \in Ids : job[j].pc = "unused" /\ job[j].conn = "none" BY DEF Init, Unused
  <2>2. ASSUME NEW n \in Names PROVE db[n].clients = Count(n)
    <3>1. Users(n) = {} BY <2>1 DEF Users
    <3>2. ReadersOf(n) = {} BY SchedulerAssumption DEF Init, ReadersOf
    <3>3. ~Probing(n) BY DEF Init, Probing, Idle
    <3>4. db[n].clients = 0 BY DEF Init, IdleEntry
    <3>5. Count(n) = Cardinality({}) + Cardinality({}) + 0 BY <3>1, <3>2, <3>3 DEF Count
    <3> QED BY <3>4, <3>5, FS_EmptySet
  <2> QED BY <2>1, <2>2 DEF ClientsCounted, Count, Gates, OwnClosed, CopyAlone
<1>2. ASSUME RecordInv, ClientsCounted, [Next]_vars PROVE ClientsCounted'
  <2>1. CASE OtherStep BY <1>2, <2>1, OthersCounted
  <2>2. CASE \E j \in Ids : BackupJob(j) \/ RestoreJob(j) BY <1>2, <2>2, JobsCounted
  <2> QED BY <1>2, <2>1, <2>2 DEF Next, OtherStep
<1>3. RecordInv /\ ClientsCounted /\ Gates /\ OwnClosed /\ CopyAlone /\ [Next]_vars
        => ClientsCounted' /\ Gates' /\ OwnClosed' /\ CopyAlone'
  BY <1>2, GatesStep, OwnClosedStep, CopyStep
<1> QED BY <1>1, <1>3, RecordsAlways, PTL DEF Spec

\* The counter that CloseDb() polls is the number of jobs, reports and commands
\* that are connected, at every moment and for any number of them that the
\* 32 bits can count, as long as no statement fails after an opening and no job
\* cleans up twice.
THEOREM EveryClientCounted == ASSUME ~Notices, ~DbFails PROVE Spec => []ClientsCounted
  BY ClientsAlways, PTL

\* While a job copies its database to the object store (UploadBackupDatabase
\* between CloseDb and UnlockDb), its own handle is closed and nobody is a client
\* who could run a statement.  Whoever has a handle then is counted out and on
\* the way through db.Close(), which CopyClosed would forbid.
THEOREM CopiesAreAlone == ASSUME ~Notices, ~DbFails PROVE Spec => []CopyAlone
  BY ClientsAlways, PTL

=============================================================================
