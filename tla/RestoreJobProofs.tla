-------------------------- MODULE RestoreJobProofs --------------------------
(***************************************************************************)
(* Theorems about RestoreJob for any manifest and any number of runs and   *)
(* crashes.                                                                *)
(***************************************************************************)
EXTENDS RestoreJob, FiniteSetTheorems, TLAPS

RunPCs == {"gone", "init", "manifest", "load", "loop", "skip", "item", "wait", "done",
           "countDone", "failed", "countFailed", "record", "remove"}

Results == {None, "finished", "failed", "cancelled"}

RunType == [pc : RunPCs, todo : SUBSET Items, item : Items \cup {None}, any : BOOLEAN,
            result : Results]

GetType == [pc : {"asked", "open", "none", "ok", "err", "cancelled"}, item : Files \cup {None}]

Counters == [restored : Nat, failed : Nat, skipped : Nat]

FileStates == {"absent", "pending", "in_progress", "done", "failed", "skipped"}

\* Type invariant.
TypeOK ==
  /\ row \in {"none", "started", "finished"} \cup Resumable
  /\ file \in [Items -> FileStates]
  /\ counters \in Counters /\ live \in Counters
  /\ run \in RunType
  /\ cancelled \in BOOLEAN
  /\ runs \in 0 .. MaxRuns /\ crashes \in Nat
  /\ gets \in [1 .. MaxRuns -> GetType]
  /\ disk \in [Files -> [by : 0 .. MaxRuns, whole : BOOLEAN]]
  /\ leaked \subseteq Files

-----------------------------------------------------------------------------
(* The invariant, in parts. *)

\* Where the run has an item in hand whose state is not final yet, and where it is
\* somewhere in the loop.
InHand == {"skip", "item", "wait", "done", "failed"}
InLoop == InHand \cup {"loop", "countDone", "countFailed"}

\* What the loop has yet to do is not done, and the item in hand is neither done nor
\* to be met again.
LoopOK ==
  /\ run.pc \in InLoop => \A i \in run.todo : file[i] \notin {"absent", "done"}
  /\ run.pc \in InHand =>
       run.item \in Items \ run.todo /\ file[run.item] \notin {"absent", "done"}
  /\ run.pc = "wait" => run.item \in Files
  /\ run.pc = "record" => run.result # None

\* The row and the manifest against where the run is.
RowOK ==
  /\ row = "none" \/ run.pc = "manifest" => (\A i \in Items : file[i] = "absent") /\ counters = Zero
  /\ row = "none" => run.pc \in {"gone", "init", "record", "remove"}
  /\ run.pc = "init" => row \in {"none"} \cup Resumable
  /\ run.pc \in {"manifest", "load"} \cup InLoop => row = "started"
  /\ row = "started" => run.pc \in {"manifest", "load", "record"} \cup InLoop

\* The run waits for download k.
Waited(k) == k = runs /\ run.pc = "wait"

\* A download is the one the run waits for, or one of a file that is recorded as left
\* behind; those of later runs have not begun.
GetsOK ==
  /\ run.pc # "gone" => runs > 0
  /\ \A k \in 1 .. MaxRuns :
       /\ k > runs => gets[k].pc = "none"
       /\ gets[k].pc # "none" => gets[k].item \in Files
       /\ gets[k].pc \in {"asked", "open"} => Waited(k) \/ gets[k].item \in leaked
       /\ gets[k].pc \in {"ok", "err", "cancelled"} => Waited(k)
       /\ Waited(k) => gets[k].pc # "none" /\ gets[k].item = run.item

\* What is on disk: a download that is open has created its file last, and one that
\* succeeded has left it whole, unless another one of that file was left behind.
DiskOK ==
  /\ \A k \in 1 .. MaxRuns :
       /\ gets[k].pc = "open" => disk[gets[k].item].by = k \/ gets[k].item \in leaked
       /\ gets[k].pc = "ok" => disk[gets[k].item].whole \/ gets[k].item \in leaked
  /\ run.pc = "done" /\ run.item \in Files => disk[run.item].whole \/ run.item \in leaked

\* Counting comes after marking, so the counter is behind by the item just marked and by
\* those whose run crashed between the two.
Uncounted == IF run.pc = "countDone" THEN 1 ELSE 0

NumOK ==
  /\ counters.restored + Uncounted <= Cardinality(Done)
  /\ Cardinality(Done) <= counters.restored + crashes + Uncounted

\* The counters in memory against those in the database; an outcome is counted in memory
\* first.
LiveOK ==
  /\ run.pc \in {"gone", "init", "manifest"} => live = Zero
  /\ run.pc \in {"load", "loop", "skip", "item", "wait"} => live = counters
  /\ run.pc \in {"done", "countDone"} => live = [counters EXCEPT !.restored = @ + 1]
  /\ run.pc \in {"failed", "countFailed"} => live = [counters EXCEPT !.failed = @ + 1]

\* The items an end would leave half done are those the loop has yet to do.
Left == {i \in Items : file[i] \in {"pending", "in_progress"}}

LeftOK ==
  /\ run.pc \in InLoop \ InHand => Left \subseteq run.todo
  /\ run.pc \in InHand => Left \subseteq run.todo \cup {run.item}
  /\ run.pc = "record" /\ run.result = "finished" => Left = {}
  /\ row = "finished" => run.pc \in {"gone", "remove"} /\ Left = {}

-----------------------------------------------------------------------------
\* What the three ways to go on do to the fields of the run.
LEMMA RunFields ==
  ASSUME run \in RunType
  PROVE  /\ \A p \in RunPCs : Goto(p) =>
              /\ run' \in RunType /\ run'.pc = p /\ run'.todo = run.todo
              /\ run'.item = run.item /\ run'.result = run.result
         /\ \A r \in Results : Return(r) =>
              /\ run' \in RunType /\ run'.pc = "record" /\ run'.todo = run.todo
              /\ run'.item = run.item /\ run'.result = r
         /\ \A p \in RunPCs, i \in Items : Next1(p, i) =>
              /\ run' \in RunType /\ run'.pc = p /\ run'.todo = run.todo \ {i}
              /\ run'.item = i /\ run'.result = run.result
         /\ run' = Gone => run' \in RunType /\ run'.pc = "gone"
<1>1. ASSUME NEW p \in RunPCs, Goto(p)
      PROVE  /\ run' \in RunType /\ run'.pc = p /\ run'.todo = run.todo
             /\ run'.item = run.item /\ run'.result = run.result
  BY <1>1 DEF Goto, RunType
<1>2. ASSUME NEW r \in Results, Return(r)
      PROVE  /\ run' \in RunType /\ run'.pc = "record" /\ run'.todo = run.todo
             /\ run'.item = run.item /\ run'.result = r
  BY <1>2 DEF Return, RunType, RunPCs
<1>3. ASSUME NEW p \in RunPCs, NEW i \in Items, Next1(p, i)
      PROVE  /\ run' \in RunType /\ run'.pc = p /\ run'.todo = run.todo \ {i}
             /\ run'.item = i /\ run'.result = run.result
  BY <1>3 DEF Next1, RunType
<1>4. ASSUME run' = Gone PROVE run' \in RunType /\ run'.pc = "gone"
  BY <1>4 DEF Gone, RunType, RunPCs, Results
<1> QED BY <1>1, <1>2, <1>3, <1>4

\* Counting keeps the counters numbers.
LEMMA CounterTypes ==
  ASSUME NEW c \in Counters
  PROVE  /\ [c EXCEPT !.restored = @ + 1] \in Counters
         /\ [c EXCEPT !.failed = @ + 1] \in Counters
         /\ [c EXCEPT !.skipped = @ + 1] \in Counters
         /\ Zero \in Counters
  BY DEF Counters, Zero

\* A download that returns keeps its type.
LEMMA ReturnsType ==
  ASSUME gets \in [1 .. MaxRuns -> GetType], NEW k \in 1 .. MaxRuns,
         NEW result \in {"ok", "err", "cancelled"}, Returns(k, result)
  PROVE  gets' \in [1 .. MaxRuns -> GetType]
<1>1. gets[k] \in GetType OBVIOUS
<1>2. [gets[k] EXCEPT !.pc = result] \in GetType BY <1>1 DEF GetType
<1>3. NoGet \in GetType BY DEF NoGet, GetType, None
<1> QED BY <1>2, <1>3 DEF Returns

\* What the return of a download does to the downloads.
LEMMA ReturnsFields ==
  ASSUME gets \in [1 .. MaxRuns -> GetType], NEW k \in 1 .. MaxRuns, NEW result,
         Returns(k, result)
  PROVE  /\ \A j \in 1 .. MaxRuns : j # k => gets'[j] = gets[j]
         /\ IF Waited(k) THEN gets'[k].pc = result /\ gets'[k].item = gets[k].item
            ELSE gets'[k].pc = "none"
<1>1. gets[k] \in GetType OBVIOUS
<1> QED BY <1>1 DEF Returns, Waited, At, GetType, NoGet

\* The initial state and every step (Do, Resume, Get, the commands and a crash) keep
\* the types.
LEMMA TypeStep == ASSUME TypeOK, LoopOK, GetsOK, [Next]_vars PROVE TypeOK'
<1> USE DEF TypeOK, At
<1> USE RunFields, CounterTypes DEF db, downloads, bounds
<1>1. CASE Begin
  <2>1. run' \in RunType BY <1>1 DEF Begin, Gone, RunType, RunPCs, Results
  <2>2. runs' \in 0 .. MaxRuns BY <1>1, RestoreJobAssumption DEF Begin
  <2> QED BY <1>1, <2>1, <2>2 DEF Begin
<1>2. CASE Cancel BY <1>2 DEF Cancel
<1>3. CASE InitRefused BY <1>3 DEF InitRefused, RunPCs
<1>4. CASE InitFails BY <1>4 DEF InitFails, Results
<1>5. CASE InsertRestoreJob BY <1>5 DEF InsertRestoreJob, RunPCs
<1>6. CASE InsertManifest BY <1>6 DEF InsertManifest, RunPCs, Results, FileStates
<1>7. CASE ResumeRestoreJob BY <1>7 DEF ResumeRestoreJob, RunPCs
<1>8. CASE Load
  <2>1. CASE Pending = {} BY <1>8, <2>1 DEF Load, Results
  <2>2. CASE Pending # {}
    <3>1. Pending \in SUBSET Items BY DEF Pending
    <3>2. run' = [run EXCEPT !.pc = "loop", !.todo = Pending] BY <1>8, <2>2 DEF Load
    <3>3. run' \in RunType BY <3>1, <3>2 DEF RunType, RunPCs
    <3> QED BY <1>8, <3>3 DEF Load
  <2> QED BY <2>1, <2>2
<1>9. CASE LoopCancelled BY <1>9 DEF LoopCancelled, Results
<1>10. CASE LoopEnds BY <1>10 DEF LoopEnds, Results
<1>11. CASE SkipMark BY <1>11 DEF SkipMark, RunPCs, FileStates
<1>12. CASE RestoreLocal BY <1>12 DEF RestoreLocal, Outcome, RunPCs
<1>13. CASE StartGet
  <2>1. gets' \in [1 .. MaxRuns -> GetType]
    BY <1>13 DEF StartGet, GetType
  <2> QED BY <1>13, <2>1 DEF StartGet, RunPCs
<1>14. CASE GotResult
  <2>1. gets' \in [1 .. MaxRuns -> GetType]
    BY <1>14 DEF GotResult, GetType, NoGet
  <2> QED BY <1>14, <2>1 DEF GotResult, Outcome, RunPCs, Results
<1>15. CASE GetAbandoned
  <2>1. gets' \in [1 .. MaxRuns -> GetType]
    BY <1>15 DEF GetAbandoned, GetType, NoGet
  <2>2. leaked' \subseteq Files
    BY <1>15 DEF GetAbandoned, LoopOK
  <2> QED BY <1>15, <2>1, <2>2 DEF GetAbandoned, Results
<1>16. CASE MarkDone BY <1>16 DEF MarkDone, RunPCs, FileStates
<1>17. CASE CountDone
  <2>1. run' \in RunType BY <1>17 DEF CountDone, RunType, RunPCs
  <2> QED BY <1>17, <2>1 DEF CountDone
<1>18. CASE MarkFailed BY <1>18 DEF MarkFailed, RunPCs, FileStates
<1>19. CASE CountFailed BY <1>19 DEF CountFailed, RunPCs
<1>20. CASE Record
  <2>1. run.result \in Results BY DEF RunType
  <2> QED BY <1>20, <2>1 DEF Record, RunPCs, LoopOK, Results, Resumable
<1>21. CASE Remove BY <1>21 DEF Remove
<1>22. ASSUME NEW i \in Items, SkipCount(i) PROVE TypeOK'
  BY <1>22 DEF SkipCount, RunPCs
<1>23. ASSUME NEW i \in Items, BeginItem(i) PROVE TypeOK'
  BY <1>23 DEF BeginItem, RunPCs, FileStates
<1>24. ASSUME NEW k \in 1 .. MaxRuns, GetCreate(k) PROVE TypeOK'
  <2>1. gets' \in [1 .. MaxRuns -> GetType]
    BY <1>24 DEF GetCreate, GetType
  <2>2. disk' \in [Files -> [by : 0 .. MaxRuns, whole : BOOLEAN]]
    <3>1. disk' = [disk EXCEPT ![gets[k].item] = [by |-> k, whole |-> FALSE]] BY <1>24 DEF GetCreate
    <3>2. [by |-> k, whole |-> FALSE] \in [by : 0 .. MaxRuns, whole : BOOLEAN]
      BY RestoreJobAssumption
    <3> HIDE DEF TypeOK
    <3> QED BY <3>1, <3>2 DEF TypeOK
  <2> QED BY <1>24, <2>1, <2>2 DEF GetCreate
<1>25. ASSUME NEW k \in 1 .. MaxRuns, GetDone(k) PROVE TypeOK'
  <2>1. gets' \in [1 .. MaxRuns -> GetType]
    BY <1>25, ReturnsType DEF GetDone
  <2>2. disk' \in [Files -> [by : 0 .. MaxRuns, whole : BOOLEAN]]
    <3> DEFINE i == gets[k].item
    <3>1. i \in Files BY <1>25 DEF GetDone, GetsOK
    <3>2. disk[i] \in [by : 0 .. MaxRuns, whole : BOOLEAN] BY <3>1
    <3>3. [disk[i] EXCEPT !.whole = @ \/ disk[i].by = k] \in [by : 0 .. MaxRuns, whole : BOOLEAN]
      BY <3>2
    <3>4. disk' = [disk EXCEPT ![i] = [disk[i] EXCEPT !.whole = @ \/ disk[i].by = k]]
      BY <1>25 DEF GetDone
    <3> QED BY <3>1, <3>3, <3>4
  <2> QED BY <1>25, <2>1, <2>2 DEF GetDone
<1>26. ASSUME NEW k \in 1 .. MaxRuns, GetFails(k) PROVE TypeOK'
  <2>1. gets' \in [1 .. MaxRuns -> GetType]
    BY <1>26, ReturnsType DEF GetFails
  <2> QED BY <1>26, <2>1 DEF GetFails
<1>27. CASE Crash
  <2>1. gets' \in [1 .. MaxRuns -> GetType]
    BY <1>27 DEF Crash, GetType, NoGet
  <2>2. row' \in {"none", "started", "finished"} \cup Resumable BY <1>27 DEF Crash, Resumable
  <2>3. crashes' \in Nat BY <1>27 DEF Crash
  <2>4. cancelled' \in BOOLEAN BY <1>27 DEF Crash
  <2> QED BY <1>27, <2>1, <2>2, <2>3, <2>4 DEF Crash
<1>28. CASE UNCHANGED vars BY <1>28 DEF vars
<1> QED
  BY <1>1, <1>2, <1>3, <1>4, <1>5, <1>6, <1>7, <1>8, <1>9, <1>10, <1>11, <1>12, <1>13, <1>14,
     <1>15, <1>16, <1>17, <1>18, <1>19, <1>20, <1>21, <1>22, <1>23, <1>24, <1>25, <1>26, <1>27,
     <1>28 DEF Next, Working, Downloading

\* The loop never comes to an item that is done (Do).
LEMMA LoopStep == ASSUME TypeOK, LoopOK, RowOK, [Next]_vars PROVE LoopOK'
<1> USE RunFields DEF TypeOK, At, db, downloads, bounds, LoopOK, InLoop, InHand
<1>1. CASE Begin BY <1>1 DEF Begin, Gone
<1>2. CASE Cancel BY <1>2 DEF Cancel
<1>3. CASE InitRefused BY <1>3 DEF InitRefused, RunPCs
<1>4. CASE InitFails BY <1>4 DEF InitFails, Results, None
<1>5. CASE InsertRestoreJob BY <1>5 DEF InsertRestoreJob, RunPCs
<1>6. CASE InsertManifest BY <1>6 DEF InsertManifest, RunPCs, Results, None
<1>7. CASE ResumeRestoreJob BY <1>7 DEF ResumeRestoreJob, RunPCs
<1>8. CASE Load
  <2>1. CASE Pending = {} BY <1>8, <2>1 DEF Load, Results, None
  <2>2. CASE Pending # {}
    <3>1. run'.pc = "loop" /\ run'.todo = Pending BY <1>8, <2>2 DEF Load, RunType
    <3> QED BY <1>8, <3>1 DEF Load, Pending
  <2> QED BY <2>1, <2>2
<1>9. CASE LoopCancelled BY <1>9 DEF LoopCancelled, Results, None
<1>10. CASE LoopEnds BY <1>10 DEF LoopEnds, Results, None
<1>11. CASE SkipMark BY <1>11 DEF SkipMark, RunPCs
<1>12. CASE RestoreLocal BY <1>12 DEF RestoreLocal, RunPCs, Outcome
<1>13. CASE StartGet BY <1>13 DEF StartGet, RunPCs
<1>14. CASE GotResult BY <1>14 DEF GotResult, RunPCs, Results, None, Outcome
<1>15. CASE GetAbandoned BY <1>15 DEF GetAbandoned, Results, None
<1>16. CASE MarkDone BY <1>16 DEF MarkDone, RunPCs
<1>17. CASE CountDone
  <2>1. run'.pc = "loop" /\ run'.todo = run.todo BY <1>17 DEF CountDone, RunType
  <2> QED BY <1>17, <2>1 DEF CountDone
<1>18. CASE MarkFailed BY <1>18 DEF MarkFailed, RunPCs
<1>19. CASE CountFailed BY <1>19 DEF CountFailed, RunPCs
<1>20. CASE Record BY <1>20 DEF Record, RunPCs
<1>21. CASE Remove BY <1>21 DEF Remove
<1>22. ASSUME NEW i \in Items, SkipCount(i) PROVE LoopOK'
  BY <1>22 DEF SkipCount, RunPCs
<1>23. ASSUME NEW i \in Items, BeginItem(i) PROVE LoopOK'
  BY <1>23 DEF BeginItem, RunPCs
<1>24. ASSUME NEW k \in 1 .. MaxRuns, GetCreate(k) PROVE LoopOK'
  BY <1>24 DEF GetCreate
<1>25. ASSUME NEW k \in 1 .. MaxRuns, GetDone(k) PROVE LoopOK'
  BY <1>25 DEF GetDone
<1>26. ASSUME NEW k \in 1 .. MaxRuns, GetFails(k) PROVE LoopOK'
  BY <1>26 DEF GetFails
<1>27. CASE Crash BY <1>27 DEF Crash
<1>28. CASE UNCHANGED vars BY <1>28 DEF vars
<1> QED
  BY <1>1, <1>2, <1>3, <1>4, <1>5, <1>6, <1>7, <1>8, <1>9, <1>10, <1>11, <1>12, <1>13, <1>14,
     <1>15, <1>16, <1>17, <1>18, <1>19, <1>20, <1>21, <1>22, <1>23, <1>24, <1>25, <1>26, <1>27,
     <1>28 DEF Next, Working, Downloading

\* The row says started exactly while a run is under way, and before the first one there is
\* no manifest (InsertRestoreJob, Resume, FinalizeJobRecord, CheckForCrashedRestoreJobs).
LEMMA RowStep == ASSUME TypeOK, LoopOK, RowOK, [Next]_vars PROVE RowOK'
<1> USE RunFields DEF TypeOK, At, db, downloads, bounds, RowOK, InLoop, InHand, Resumable
<1>1. CASE Begin
  <2>1. run'.pc = "init" BY <1>1 DEF Begin, Gone
  <2> QED BY <1>1, <2>1 DEF Begin
<1>2. CASE Cancel BY <1>2 DEF Cancel
<1>3. CASE InitRefused BY <1>3 DEF InitRefused, RunPCs
<1>4. CASE InitFails BY <1>4 DEF InitFails, Results, None
<1>5. CASE InsertRestoreJob BY <1>5 DEF InsertRestoreJob, RunPCs
<1>6. CASE InsertManifest BY <1>6 DEF InsertManifest, RunPCs, Results, None
<1>7. CASE ResumeRestoreJob BY <1>7 DEF ResumeRestoreJob, RunPCs
<1>8. CASE Load
  <2>1. run'.pc \in {"record", "loop"} BY <1>8 DEF Load, RunType, Return
  <2> QED BY <1>8, <2>1 DEF Load
<1>9. CASE LoopCancelled BY <1>9 DEF LoopCancelled, Results, None
<1>10. CASE LoopEnds BY <1>10 DEF LoopEnds, Results, None
<1>11. CASE SkipMark BY <1>11 DEF SkipMark, RunPCs
<1>12. CASE RestoreLocal BY <1>12 DEF RestoreLocal, RunPCs, Outcome
<1>13. CASE StartGet BY <1>13 DEF StartGet, RunPCs
<1>14. CASE GotResult BY <1>14 DEF GotResult, RunPCs, Results, None, Outcome
<1>15. CASE GetAbandoned BY <1>15 DEF GetAbandoned, Results, None
<1>16. CASE MarkDone BY <1>16 DEF MarkDone, RunPCs
<1>17. CASE CountDone
  <2>1. run'.pc = "loop" BY <1>17 DEF CountDone, RunType
  <2> QED BY <1>17, <2>1 DEF CountDone
<1>18. CASE MarkFailed BY <1>18 DEF MarkFailed, RunPCs
<1>19. CASE CountFailed BY <1>19 DEF CountFailed, RunPCs
<1>20. CASE Record BY <1>20 DEF Record, RunPCs, Results, RunType, LoopOK
<1>21. CASE Remove BY <1>21 DEF Remove
<1>22. ASSUME NEW i \in Items, SkipCount(i) PROVE RowOK'
  BY <1>22 DEF SkipCount, RunPCs
<1>23. ASSUME NEW i \in Items, BeginItem(i) PROVE RowOK'
  BY <1>23 DEF BeginItem, RunPCs
<1>24. ASSUME NEW k \in 1 .. MaxRuns, GetCreate(k) PROVE RowOK'
  BY <1>24 DEF GetCreate
<1>25. ASSUME NEW k \in 1 .. MaxRuns, GetDone(k) PROVE RowOK'
  BY <1>25 DEF GetDone
<1>26. ASSUME NEW k \in 1 .. MaxRuns, GetFails(k) PROVE RowOK'
  BY <1>26 DEF GetFails
<1>27. CASE Crash BY <1>27 DEF Crash
<1>28. CASE UNCHANGED vars BY <1>28 DEF vars
<1> QED
  BY <1>1, <1>2, <1>3, <1>4, <1>5, <1>6, <1>7, <1>8, <1>9, <1>10, <1>11, <1>12, <1>13, <1>14,
     <1>15, <1>16, <1>17, <1>18, <1>19, <1>20, <1>21, <1>22, <1>23, <1>24, <1>25, <1>26, <1>27,
     <1>28 DEF Next, Working, Downloading

\* A step that leaves the downloads alone, of a run that waits for none before and after
\* it, keeps what holds of the downloads.
LEMMA GetsKept ==
  ASSUME TypeOK, GetsOK, UNCHANGED <<gets, leaked, runs>>, run.pc \notin {"wait", "gone"},
         run'.pc # "wait"
  PROVE  GetsOK'
  BY DEF GetsOK, Waited

\* A download is waited for or left behind (restoreOne, Get).
LEMMA GetsStep == ASSUME TypeOK, LoopOK, GetsOK, [Next]_vars PROVE GetsOK'
<1> USE RunFields DEF TypeOK, At, db, downloads, bounds
<1>1. CASE Begin
  <2>1. run'.pc = "init" BY <1>1 DEF Begin, Gone
  <2> QED BY <1>1, <2>1, RestoreJobAssumption DEF Begin, GetsOK, Waited
<1>2. CASE Cancel BY <1>2 DEF Cancel, GetsOK, Waited
<1>3. CASE InitRefused BY <1>3, GetsKept DEF InitRefused, RunPCs
<1>4. CASE InitFails BY <1>4, GetsKept DEF InitFails, Results, None
<1>5. CASE InsertRestoreJob BY <1>5, GetsKept DEF InsertRestoreJob, RunPCs
<1>6. CASE InsertManifest BY <1>6, GetsKept DEF InsertManifest, RunPCs, Results, None
<1>7. CASE ResumeRestoreJob BY <1>7, GetsKept DEF ResumeRestoreJob, RunPCs
<1>8. CASE Load
  <2>1. run'.pc # "wait" BY <1>8 DEF Load, RunType, Return
  <2> QED BY <1>8, <2>1, GetsKept DEF Load
<1>9. CASE LoopCancelled BY <1>9, GetsKept DEF LoopCancelled, Results, None
<1>10. CASE LoopEnds BY <1>10, GetsKept DEF LoopEnds, Results, None
<1>11. CASE SkipMark BY <1>11, GetsKept DEF SkipMark, RunPCs
<1>12. CASE RestoreLocal BY <1>12, GetsKept DEF RestoreLocal, RunPCs, Outcome
<1>13. CASE StartGet
  <2>1. runs \in 1 .. MaxRuns BY <1>13, RestoreJobAssumption DEF StartGet, GetsOK
  <2>2. run'.pc = "wait" /\ run'.item = run.item BY <1>13 DEF StartGet, RunPCs
  <2>3. gets'[runs].pc = "asked" /\ gets'[runs].item = run.item BY <1>13, <2>1 DEF StartGet
  <2>4. \A k \in 1 .. MaxRuns : k # runs => gets'[k] = gets[k] BY <1>13 DEF StartGet
  <2> QED BY <1>13, <2>1, <2>2, <2>3, <2>4 DEF StartGet, GetsOK, Waited
<1>14. CASE GotResult
  <2>1. run'.pc # "wait" BY <1>14 DEF GotResult, RunPCs, Results, Outcome
  <2>2. runs \in 1 .. MaxRuns BY <1>14, RestoreJobAssumption DEF GotResult, GetsOK
  <2>3. gets'[runs].pc = "none" BY <1>14, <2>2 DEF GotResult, NoGet
  <2>4. \A k \in 1 .. MaxRuns : k # runs => gets'[k] = gets[k] BY <1>14 DEF GotResult
  <2> QED BY <1>14, <2>1, <2>2, <2>3, <2>4 DEF GotResult, GetsOK, Waited
<1>15. CASE GetAbandoned
  <2>1. run'.pc = "record" BY <1>15 DEF GetAbandoned, Results
  <2>2. runs \in 1 .. MaxRuns BY <1>15, RestoreJobAssumption DEF GetAbandoned, GetsOK
  <2>3. Waited(runs) BY <1>15 DEF GetAbandoned, Waited
  <2>4. CASE gets[runs].pc \in Over
    <3> gets' = [gets EXCEPT ![runs] = NoGet] BY <1>15, <2>4 DEF GetAbandoned
    <3>1. gets'[runs].pc = "none" BY <2>2 DEF NoGet
    <3>2. \A k \in 1 .. MaxRuns : k # runs => gets'[k] = gets[k] OBVIOUS
    <3> QED BY <1>15, <2>1, <2>2, <2>4, <3>1, <3>2 DEF GetAbandoned, GetsOK, Waited
  <2>5. CASE gets[runs].pc \notin Over
    BY <1>15, <2>1, <2>2, <2>3, <2>5 DEF GetAbandoned, GetsOK, Waited, Over
  <2> QED BY <2>4, <2>5
<1>16. CASE MarkDone BY <1>16, GetsKept DEF MarkDone, RunPCs
<1>17. CASE CountDone
  <2>1. run'.pc # "wait" BY <1>17 DEF CountDone, RunType
  <2> QED BY <1>17, <2>1, GetsKept DEF CountDone
<1>18. CASE MarkFailed BY <1>18, GetsKept DEF MarkFailed, RunPCs
<1>19. CASE CountFailed BY <1>19, GetsKept DEF CountFailed, RunPCs
<1>20. CASE Record BY <1>20, GetsKept DEF Record, RunPCs
<1>21. CASE Remove BY <1>21, GetsKept DEF Remove
<1>22. ASSUME NEW i \in Items, SkipCount(i) PROVE GetsOK'
  BY <1>22, GetsKept DEF SkipCount, RunPCs
<1>23. ASSUME NEW i \in Items, BeginItem(i) PROVE GetsOK'
  BY <1>23, GetsKept DEF BeginItem, RunPCs
<1>24. ASSUME NEW k \in 1 .. MaxRuns, GetCreate(k) PROVE GetsOK'
  <2>1. gets'[k].pc = "open" /\ gets'[k].item = gets[k].item BY <1>24 DEF GetCreate, GetType
  <2>2. \A j \in 1 .. MaxRuns : j # k => gets'[j] = gets[j] BY <1>24 DEF GetCreate
  <2> QED BY <1>24, <2>1, <2>2 DEF GetCreate, GetsOK, Waited
<1>25. ASSUME NEW k \in 1 .. MaxRuns, GetDone(k) PROVE GetsOK'
  <2>1. /\ \A j \in 1 .. MaxRuns : j # k => gets'[j] = gets[j]
        /\ IF Waited(k) THEN gets'[k].pc = "ok" /\ gets'[k].item = gets[k].item
           ELSE gets'[k].pc = "none"
    BY <1>25, ReturnsFields DEF GetDone
  <2> QED BY <1>25, <2>1 DEF GetDone, GetsOK, Waited
<1>26. ASSUME NEW k \in 1 .. MaxRuns, GetFails(k) PROVE GetsOK'
  <2>1. /\ \A j \in 1 .. MaxRuns : j # k => gets'[j] = gets[j]
        /\ IF Waited(k) THEN gets'[k].pc \in {"err", "cancelled"} /\ gets'[k].item = gets[k].item
           ELSE gets'[k].pc = "none"
    BY <1>26, ReturnsFields DEF GetFails
  <2> QED BY <1>26, <2>1 DEF GetFails, GetsOK, Waited
<1>27. CASE Crash
  <2>1. \A k \in 1 .. MaxRuns : gets'[k].pc = "none" BY <1>27 DEF Crash, NoGet
  <2>2. run'.pc = "gone" BY <1>27 DEF Crash, Gone
  <2> QED BY <1>27, <2>1, <2>2 DEF GetsOK, Waited
<1>28. CASE UNCHANGED vars BY <1>28 DEF vars, GetsOK, Waited
<1> QED
  BY <1>1, <1>2, <1>3, <1>4, <1>5, <1>6, <1>7, <1>8, <1>9, <1>10, <1>11, <1>12, <1>13, <1>14,
     <1>15, <1>16, <1>17, <1>18, <1>19, <1>20, <1>21, <1>22, <1>23, <1>24, <1>25, <1>26, <1>27,
     <1>28 DEF Next, Working, Downloading

\* A step that leaves downloads and disk alone keeps what holds of them unless the run
\* now says that its item is restored.
LEMMA DiskKept ==
  ASSUME TypeOK, DiskOK, UNCHANGED <<gets, leaked, disk>>, run'.pc # "done"
  PROVE  DiskOK'
  BY DEF DiskOK

\* A download that succeeds has left its file whole (Get, restoreOne).
LEMMA DiskStep == ASSUME TypeOK, LoopOK, GetsOK, DiskOK, [Next]_vars PROVE DiskOK'
<1> USE RunFields DEF TypeOK, At, db, downloads, bounds
<1>1. CASE Begin
  <2>1. run'.pc = "init" BY <1>1 DEF Begin, Gone
  <2> QED BY <1>1, <2>1, DiskKept DEF Begin
<1>2. CASE Cancel BY <1>2 DEF Cancel, DiskOK
<1>3. CASE InitRefused BY <1>3, DiskKept DEF InitRefused, RunPCs
<1>4. CASE InitFails BY <1>4, DiskKept DEF InitFails, Results, None
<1>5. CASE InsertRestoreJob BY <1>5, DiskKept DEF InsertRestoreJob, RunPCs
<1>6. CASE InsertManifest BY <1>6, DiskKept DEF InsertManifest, RunPCs, Results, None
<1>7. CASE ResumeRestoreJob BY <1>7, DiskKept DEF ResumeRestoreJob, RunPCs
<1>8. CASE Load
  <2>1. run'.pc # "done" BY <1>8 DEF Load, RunType, Return
  <2> QED BY <1>8, <2>1, DiskKept DEF Load
<1>9. CASE LoopCancelled BY <1>9, DiskKept DEF LoopCancelled, Results, None
<1>10. CASE LoopEnds BY <1>10, DiskKept DEF LoopEnds, Results, None
<1>11. CASE SkipMark BY <1>11, DiskKept DEF SkipMark, RunPCs
<1>12. CASE RestoreLocal
  BY <1>12, RestoreJobAssumption DEF RestoreLocal, Outcome, RunPCs, DiskOK
<1>13. CASE StartGet
  <2>1. run'.pc = "wait" BY <1>13 DEF StartGet, RunPCs
  <2>2. \A k \in 1 .. MaxRuns : gets'[k].pc = "asked" \/ gets'[k] = gets[k] BY <1>13 DEF StartGet
  <2> QED BY <1>13, <2>1, <2>2 DEF StartGet, DiskOK
<1>14. CASE GotResult
  <2>1. runs \in 1 .. MaxRuns BY <1>14, RestoreJobAssumption DEF GotResult, GetsOK
  <2>2. gets[runs].item = run.item BY <1>14, <2>1 DEF GotResult, GetsOK, Waited
  <2>3. run'.item = run.item /\ (run'.pc = "done" => gets[runs].pc = "ok")
    BY <1>14 DEF GotResult, RunPCs, Results, Outcome
  <2>4. \A k \in 1 .. MaxRuns : gets'[k].pc = "none" \/ gets'[k] = gets[k]
    BY <1>14 DEF GotResult, NoGet
  <2> QED BY <1>14, <2>1, <2>2, <2>3, <2>4 DEF GotResult, DiskOK
<1>15. CASE GetAbandoned
  <2>1. run'.pc = "record" BY <1>15 DEF GetAbandoned, Results
  <2>2. \A k \in 1 .. MaxRuns : gets'[k].pc = "none" \/ gets'[k] = gets[k]
    <3>1. CASE gets' = gets BY <3>1
    <3>2. CASE gets' = [gets EXCEPT ![runs] = NoGet] BY <3>2 DEF NoGet
    <3> QED BY <1>15, <3>1, <3>2 DEF GetAbandoned
  <2>3. leaked \subseteq leaked' /\ disk' = disk BY <1>15 DEF GetAbandoned
  <2> QED BY <2>1, <2>2, <2>3 DEF DiskOK
<1>16. CASE MarkDone BY <1>16, DiskKept DEF MarkDone, RunPCs
<1>17. CASE CountDone
  <2>1. run'.pc # "done" BY <1>17 DEF CountDone, RunType
  <2> QED BY <1>17, <2>1, DiskKept DEF CountDone
<1>18. CASE MarkFailed BY <1>18, DiskKept DEF MarkFailed, RunPCs
<1>19. CASE CountFailed BY <1>19, DiskKept DEF CountFailed, RunPCs
<1>20. CASE Record BY <1>20, DiskKept DEF Record, RunPCs
<1>21. CASE Remove BY <1>21, DiskKept DEF Remove
<1>22. ASSUME NEW i \in Items, SkipCount(i) PROVE DiskOK'
  BY <1>22, DiskKept DEF SkipCount, RunPCs
<1>23. ASSUME NEW i \in Items, BeginItem(i) PROVE DiskOK'
  BY <1>23, DiskKept DEF BeginItem, RunPCs
<1>24. ASSUME NEW k \in 1 .. MaxRuns, GetCreate(k) PROVE DiskOK'
  <2>1. gets'[k].pc = "open" /\ gets'[k].item = gets[k].item BY <1>24 DEF GetCreate, GetType
  <2>2. \A j \in 1 .. MaxRuns : j # k => gets'[j] = gets[j] BY <1>24 DEF GetCreate
  <2>3. gets[k].item \in Files BY <1>24 DEF GetCreate, GetsOK
  <2>4. disk'[gets[k].item].by = k BY <1>24, <2>3 DEF GetCreate
  <2>5. \A i \in Files : i # gets[k].item => disk'[i] = disk[i] BY <1>24 DEF GetCreate
  <2>6. leaked' = leaked /\ run' = run BY <1>24 DEF GetCreate
  <2>7. ASSUME NEW j \in 1 .. MaxRuns, j # k, gets[j].pc \in {"open", "ok"},
               gets[j].item = gets[k].item
        PROVE  gets[k].item \in leaked
    BY <1>24, <2>7 DEF GetCreate, GetsOK, Waited
  <2>8. run.pc = "done" /\ run.item = gets[k].item => gets[k].item \in leaked
    BY <1>24 DEF GetCreate, GetsOK, Waited
  <2>9. ASSUME NEW j \in 1 .. MaxRuns, gets[j].pc # "none" PROVE gets[j].item \in Files
    BY <2>9 DEF GetsOK
  <2> QED BY <2>1, <2>2, <2>3, <2>4, <2>5, <2>6, <2>7, <2>8, <2>9 DEF DiskOK
<1>25. ASSUME NEW k \in 1 .. MaxRuns, GetDone(k) PROVE DiskOK'
  <2>1. /\ \A j \in 1 .. MaxRuns : j # k => gets'[j] = gets[j]
        /\ IF Waited(k) THEN gets'[k].pc = "ok" /\ gets'[k].item = gets[k].item
           ELSE gets'[k].pc = "none"
    BY <1>25, ReturnsFields DEF GetDone
  <2>2. gets[k].item \in Files /\ gets[k].pc = "open" BY <1>25 DEF GetDone, GetsOK
  <2>3. disk'[gets[k].item].by = disk[gets[k].item].by BY <1>25, <2>2 DEF GetDone
  <2>4. disk'[gets[k].item].whole <=>
          disk[gets[k].item].whole \/ disk[gets[k].item].by = k
    BY <1>25, <2>2 DEF GetDone
  <2>5. \A i \in Files : i # gets[k].item => disk'[i] = disk[i] BY <1>25 DEF GetDone
  <2>6. leaked' = leaked /\ run' = run BY <1>25 DEF GetDone
  <2>7. ASSUME NEW j \in 1 .. MaxRuns, gets[j].pc # "none" PROVE gets[j].item \in Files
    BY <2>7 DEF GetsOK
  <2>8. ASSUME NEW i \in Files
        PROVE  disk'[i].by = disk[i].by /\ (disk[i].whole => disk'[i].whole)
    BY <2>3, <2>4, <2>5
  <2>9. gets'[k].pc = "ok" => disk'[gets'[k].item].whole \/ gets'[k].item \in leaked'
    BY <2>1, <2>2, <2>4, <2>6 DEF DiskOK
  <2> QED BY <2>1, <2>2, <2>6, <2>7, <2>8, <2>9 DEF DiskOK
<1>26. ASSUME NEW k \in 1 .. MaxRuns, GetFails(k) PROVE DiskOK'
  <2>1. /\ \A j \in 1 .. MaxRuns : j # k => gets'[j] = gets[j]
        /\ IF Waited(k) THEN gets'[k].pc \in {"err", "cancelled"} /\ gets'[k].item = gets[k].item
           ELSE gets'[k].pc = "none"
    BY <1>26, ReturnsFields DEF GetFails
  <2> QED BY <1>26, <2>1 DEF GetFails, DiskOK
<1>27. CASE Crash
  <2>1. \A k \in 1 .. MaxRuns : gets'[k].pc = "none" BY <1>27 DEF Crash, NoGet
  <2>2. run'.pc = "gone" BY <1>27 DEF Crash, Gone
  <2> QED BY <2>1, <2>2 DEF DiskOK
<1>28. CASE UNCHANGED vars BY <1>28 DEF vars, DiskOK
<1> QED
  BY <1>1, <1>2, <1>3, <1>4, <1>5, <1>6, <1>7, <1>8, <1>9, <1>10, <1>11, <1>12, <1>13, <1>14,
     <1>15, <1>16, <1>17, <1>18, <1>19, <1>20, <1>21, <1>22, <1>23, <1>24, <1>25, <1>26, <1>27,
     <1>28 DEF Next, Working, Downloading

\* No item is lost from the work of the loop (LoadPendingManifest, Do).
LEMMA LeftStep == ASSUME TypeOK, LoopOK, RowOK, LeftOK, [Next]_vars PROVE LeftOK'
<1> USE RunFields DEF TypeOK, At, db, downloads, bounds, LeftOK, Left, InLoop, InHand
<1>1. CASE Begin
  <2>1. run'.pc = "init" BY <1>1 DEF Begin, Gone
  <2> QED BY <1>1, <2>1 DEF Begin, Resumable
<1>2. CASE Cancel BY <1>2 DEF Cancel
<1>3. CASE InitRefused BY <1>3 DEF InitRefused, RunPCs
<1>4. CASE InitFails BY <1>4 DEF InitFails, Results, None
<1>5. CASE InsertRestoreJob BY <1>5 DEF InsertRestoreJob, RunPCs
<1>6. CASE InsertManifest BY <1>6 DEF InsertManifest, RunPCs, Results, None, RowOK
<1>7. CASE ResumeRestoreJob BY <1>7 DEF ResumeRestoreJob, RunPCs
<1>8. CASE Load
  <2>1. CASE Pending = {} BY <1>8, <2>1 DEF Load, Results, Pending, RowOK
  <2>2. CASE Pending # {}
    <3>1. run'.pc = "loop" /\ run'.todo = Pending BY <1>8, <2>2 DEF Load, RunType
    <3> QED BY <1>8, <3>1 DEF Load, Pending, RowOK
  <2> QED BY <2>1, <2>2
<1>9. CASE LoopCancelled BY <1>9 DEF LoopCancelled, Results, None
<1>10. CASE LoopEnds BY <1>10 DEF LoopEnds, Results, None
<1>11. CASE SkipMark BY <1>11 DEF SkipMark, RunPCs
<1>12. CASE RestoreLocal BY <1>12 DEF RestoreLocal, RunPCs, Outcome
<1>13. CASE StartGet BY <1>13 DEF StartGet, RunPCs
<1>14. CASE GotResult BY <1>14 DEF GotResult, RunPCs, Results, None, Outcome
<1>15. CASE GetAbandoned BY <1>15 DEF GetAbandoned, Results, None
<1>16. CASE MarkDone BY <1>16 DEF MarkDone, RunPCs
<1>17. CASE CountDone
  <2>1. run'.pc = "loop" /\ run'.todo = run.todo BY <1>17 DEF CountDone, RunType
  <2> QED BY <1>17, <2>1 DEF CountDone
<1>18. CASE MarkFailed BY <1>18 DEF MarkFailed, RunPCs
<1>19. CASE CountFailed BY <1>19 DEF CountFailed, RunPCs
<1>20. CASE Record BY <1>20 DEF Record, RunPCs, RunType
<1>21. CASE Remove BY <1>21 DEF Remove
<1>22. ASSUME NEW i \in Items, SkipCount(i) PROVE LeftOK'
  BY <1>22 DEF SkipCount, RunPCs
<1>23. ASSUME NEW i \in Items, BeginItem(i) PROVE LeftOK'
  BY <1>23 DEF BeginItem, RunPCs
<1>24. ASSUME NEW k \in 1 .. MaxRuns, GetCreate(k) PROVE LeftOK'
  BY <1>24 DEF GetCreate
<1>25. ASSUME NEW k \in 1 .. MaxRuns, GetDone(k) PROVE LeftOK'
  BY <1>25 DEF GetDone
<1>26. ASSUME NEW k \in 1 .. MaxRuns, GetFails(k) PROVE LeftOK'
  BY <1>26 DEF GetFails
<1>27. CASE Crash
  <2>1. run'.pc = "gone" BY <1>27 DEF Crash, Gone
  <2> QED BY <1>27, <2>1 DEF Crash, RowOK
<1>28. CASE UNCHANGED vars BY <1>28 DEF vars
<1> QED
  BY <1>1, <1>2, <1>3, <1>4, <1>5, <1>6, <1>7, <1>8, <1>9, <1>10, <1>11, <1>12, <1>13, <1>14,
     <1>15, <1>16, <1>17, <1>18, <1>19, <1>20, <1>21, <1>22, <1>23, <1>24, <1>25, <1>26, <1>27,
     <1>28 DEF Next, Working, Downloading

\* Marking an item that is not done with a state other than done changes nothing for those
\* that are.
LEMMA DoneSame ==
  ASSUME TypeOK, NEW i \in Items, file[i] # "done", NEW s, s # "done",
         file' = [file EXCEPT ![i] = s]
  PROVE  Done' = Done
  BY DEF TypeOK, Done

\* Memory and database count alike (Counters, BumpCounter, SeedCounter).
LEMMA LiveStep == ASSUME TypeOK, RowOK, LiveOK, [Next]_vars PROVE LiveOK'
<1> USE RunFields DEF TypeOK, At, db, downloads, bounds, LiveOK
<1>1. CASE Begin
  <2>1. run'.pc = "init" BY <1>1 DEF Begin, Gone
  <2> QED BY <1>1, <2>1 DEF Begin
<1>2. CASE Cancel BY <1>2 DEF Cancel
<1>3. CASE InitRefused BY <1>3 DEF InitRefused, RunPCs
<1>4. CASE InitFails BY <1>4 DEF InitFails, Results, None
<1>5. CASE InsertRestoreJob BY <1>5 DEF InsertRestoreJob, RunPCs
<1>6. CASE InsertManifest BY <1>6 DEF InsertManifest, RunPCs, Results, None, RowOK
<1>7. CASE ResumeRestoreJob BY <1>7 DEF ResumeRestoreJob, RunPCs
<1>8. CASE Load
  <2>1. run'.pc \in {"record", "loop"} BY <1>8 DEF Load, RunType, Return
  <2> QED BY <1>8, <2>1 DEF Load
<1>9. CASE LoopCancelled BY <1>9 DEF LoopCancelled, Results, None
<1>10. CASE LoopEnds BY <1>10 DEF LoopEnds, Results, None
<1>11. CASE SkipMark BY <1>11 DEF SkipMark, RunPCs
<1>12. CASE RestoreLocal
  <2>1. live = counters /\ counters' = counters BY <1>12 DEF RestoreLocal
  <2> QED BY <1>12, <2>1 DEF RestoreLocal, RunPCs, Outcome
<1>13. CASE StartGet BY <1>13 DEF StartGet, RunPCs
<1>14. CASE GotResult BY <1>14 DEF GotResult, RunPCs, Results, None, Outcome
<1>15. CASE GetAbandoned BY <1>15 DEF GetAbandoned, Results, None
<1>16. CASE MarkDone BY <1>16 DEF MarkDone, RunPCs
<1>17. CASE CountDone
  <2>1. run'.pc = "loop" BY <1>17 DEF CountDone, RunType
  <2> QED BY <1>17, <2>1 DEF CountDone
<1>18. CASE MarkFailed BY <1>18 DEF MarkFailed, RunPCs
<1>19. CASE CountFailed BY <1>19 DEF CountFailed, RunPCs
<1>20. CASE Record BY <1>20 DEF Record, RunPCs
<1>21. CASE Remove BY <1>21 DEF Remove
<1>22. ASSUME NEW i \in Items, SkipCount(i) PROVE LiveOK'
  BY <1>22 DEF SkipCount, RunPCs
<1>23. ASSUME NEW i \in Items, BeginItem(i) PROVE LiveOK'
  BY <1>23 DEF BeginItem, RunPCs
<1>24. ASSUME NEW k \in 1 .. MaxRuns, GetCreate(k) PROVE LiveOK'
  BY <1>24 DEF GetCreate
<1>25. ASSUME NEW k \in 1 .. MaxRuns, GetDone(k) PROVE LiveOK'
  BY <1>25 DEF GetDone
<1>26. ASSUME NEW k \in 1 .. MaxRuns, GetFails(k) PROVE LiveOK'
  BY <1>26 DEF GetFails
<1>27. CASE Crash BY <1>27 DEF Crash
<1>28. CASE UNCHANGED vars BY <1>28 DEF vars
<1> QED
  BY <1>1, <1>2, <1>3, <1>4, <1>5, <1>6, <1>7, <1>8, <1>9, <1>10, <1>11, <1>12, <1>13, <1>14,
     <1>15, <1>16, <1>17, <1>18, <1>19, <1>20, <1>21, <1>22, <1>23, <1>24, <1>25, <1>26, <1>27,
     <1>28 DEF Next, Working, Downloading

\* A step that marks nothing as done and counts nothing as restored.
LEMMA NumKept ==
  ASSUME NumOK, Done' = Done, counters'.restored = counters.restored, crashes' = crashes,
         run.pc # "countDone", run'.pc # "countDone"
  PROVE  NumOK'
  BY DEF NumOK, Uncounted

\* The items done can be counted.
LEMMA DoneFinite == IsFiniteSet(Done) /\ Cardinality(Done) \in Nat
<1>1. IsFiniteSet(Done)
  <2>1. Done \subseteq Items BY DEF Done
  <2>2. IsFiniteSet(Items) BY RestoreJobAssumption DEF Items
  <2> QED BY <2>1, <2>2, FS_Subset
<1> QED BY <1>1, FS_CardinalityType

\* An item is counted once, after it is marked (SetFileState, BumpCounter).
LEMMA NumStep == ASSUME TypeOK, LoopOK, RowOK, NumOK, [Next]_vars PROVE NumOK'
<1> USE RunFields DEF TypeOK, At, db, downloads, bounds
<1>1. CASE Begin
  <2>1. run'.pc # "countDone" BY <1>1 DEF Begin, Gone
  <2> QED BY <1>1, <2>1, NumKept DEF Begin, Done
<1>2. CASE Cancel BY <1>2 DEF Cancel, NumOK, Uncounted, Done
<1>3. CASE InitRefused
  BY <1>3, NumKept DEF InitRefused, RunPCs, Done
<1>4. CASE InitFails
  BY <1>4, NumKept DEF InitFails, Results, None, Done
<1>5. CASE InsertRestoreJob
  BY <1>5, NumKept DEF InsertRestoreJob, RunPCs, Done
<1>6. CASE InsertManifest
  <2>1. Done' = Done BY <1>6 DEF InsertManifest, RowOK, Done
  <2> QED BY <1>6, <2>1, NumKept DEF InsertManifest, RunPCs, Results
<1>7. CASE ResumeRestoreJob
  BY <1>7, NumKept DEF ResumeRestoreJob, RunPCs, Done
<1>8. CASE Load
  <2>1. run'.pc # "countDone" BY <1>8 DEF Load, RunType, Return
  <2> QED BY <1>8, <2>1, NumKept DEF Load, Done
<1>9. CASE LoopCancelled
  BY <1>9, NumKept DEF LoopCancelled, Results, None, Done
<1>10. CASE LoopEnds
  BY <1>10, NumKept DEF LoopEnds, Results, None, Done
<1>11. CASE SkipMark
  <2>1. Done' = Done BY <1>11, DoneSame DEF SkipMark, LoopOK, InHand
  <2> QED BY <1>11, <2>1, NumKept DEF SkipMark, RunPCs
<1>12. CASE RestoreLocal
  BY <1>12, NumKept DEF RestoreLocal, RunPCs, Outcome, Done
<1>13. CASE StartGet
  BY <1>13, NumKept DEF StartGet, RunPCs, Done
<1>14. CASE GotResult
  BY <1>14, NumKept DEF GotResult, RunPCs, Results, None, Outcome, Done
<1>15. CASE GetAbandoned
  BY <1>15, NumKept DEF GetAbandoned, Results, None, Done
<1>16. CASE MarkDone
  <2>1. run.item \in Items \ Done BY <1>16 DEF MarkDone, LoopOK, InHand, Done
  <2>2. Done' = Done \cup {run.item} BY <1>16, <2>1 DEF MarkDone, Done
  <2>3. IsFiniteSet(Done) /\ Cardinality(Done) \in Nat BY DoneFinite
  <2>4. Cardinality(Done') = Cardinality(Done) + 1 BY <2>1, <2>2, <2>3, FS_AddElement
  <2>5. run'.pc = "countDone" /\ run.pc = "done" BY <1>16 DEF MarkDone, RunPCs
  <2>6. counters' = counters /\ crashes' = crashes /\ counters.restored \in Nat
    BY <1>16 DEF MarkDone, Counters
  <2> QED BY <2>3, <2>4, <2>5, <2>6 DEF NumOK, Uncounted
<1>17. CASE CountDone
  <2>1. run'.pc = "loop" BY <1>17 DEF CountDone, RunType
  <2>2. counters'.restored = counters.restored + 1 /\ counters.restored \in Nat
    BY <1>17 DEF CountDone, Counters
  <2>3. Done' = Done /\ crashes' = crashes BY <1>17 DEF CountDone, Done
  <2>4. Cardinality(Done) \in Nat BY DoneFinite
  <2> QED BY <1>17, <2>1, <2>2, <2>3, <2>4 DEF CountDone, NumOK, Uncounted
<1>18. CASE MarkFailed
  <2>1. Done' = Done BY <1>18, DoneSame DEF MarkFailed, LoopOK, InHand
  <2> QED BY <1>18, <2>1, NumKept DEF MarkFailed, RunPCs
<1>19. CASE CountFailed
  <2>1. counters'.restored = counters.restored BY <1>19 DEF CountFailed, Counters
  <2> QED BY <1>19, <2>1, NumKept DEF CountFailed, RunPCs, Done
<1>20. CASE Record
  BY <1>20, NumKept DEF Record, RunPCs, Done
<1>21. CASE Remove
  BY <1>21, NumKept DEF Remove, Done
<1>22. ASSUME NEW i \in Items, SkipCount(i) PROVE NumOK'
  <2>1. counters'.restored = counters.restored BY <1>22 DEF SkipCount, Counters
  <2> QED BY <1>22, <2>1, NumKept DEF SkipCount, RunPCs, Done
<1>23. ASSUME NEW i \in Items, BeginItem(i) PROVE NumOK'
  <2>1. Done' = Done BY <1>23, DoneSame DEF BeginItem, LoopOK, InLoop
  <2> QED BY <1>23, <2>1, NumKept DEF BeginItem, RunPCs
<1>24. ASSUME NEW k \in 1 .. MaxRuns, GetCreate(k) PROVE NumOK'
  BY <1>24 DEF GetCreate, NumOK, Uncounted, Done
<1>25. ASSUME NEW k \in 1 .. MaxRuns, GetDone(k) PROVE NumOK'
  BY <1>25 DEF GetDone, NumOK, Uncounted, Done
<1>26. ASSUME NEW k \in 1 .. MaxRuns, GetFails(k) PROVE NumOK'
  BY <1>26 DEF GetFails, NumOK, Uncounted, Done
<1>27. CASE Crash
  <2>1. run'.pc = "gone" BY <1>27 DEF Crash, Gone
  <2>2. Done' = Done /\ counters' = counters /\ crashes' = crashes + 1 BY <1>27 DEF Crash, Done
  <2>3. Cardinality(Done) \in Nat BY DoneFinite
  <2>4. counters.restored \in Nat BY DEF Counters
  <2> QED BY <2>1, <2>2, <2>3, <2>4 DEF NumOK, Uncounted
<1>28. CASE UNCHANGED vars BY <1>28 DEF vars, NumOK, Uncounted, Done
<1> QED
  BY <1>1, <1>2, <1>3, <1>4, <1>5, <1>6, <1>7, <1>8, <1>9, <1>10, <1>11, <1>12, <1>13, <1>14,
     <1>15, <1>16, <1>17, <1>18, <1>19, <1>20, <1>21, <1>22, <1>23, <1>24, <1>25, <1>26, <1>27,
     <1>28 DEF Next, Working, Downloading

\* A file that is done stays whole: a download that empties it is one left behind (Get).
LEMMA WholeStep ==
  ASSUME TypeOK, LoopOK, RowOK, GetsOK, DiskOK, DoneIsWhole, [Next]_vars
  PROVE  DoneIsWhole'
<1> USE DEF DoneIsWhole, Done, TypeOK
<1>1. CASE MarkDone
  <2>1. disk' = disk /\ leaked' = leaked BY <1>1 DEF MarkDone, downloads
  <2>2. \A i \in Items : i # run.item => file'[i] = file[i] BY <1>1 DEF MarkDone
  <2>3. run.item \in Files => disk[run.item].whole \/ run.item \in leaked
    BY <1>1 DEF MarkDone, At, DiskOK
  <2> QED BY <2>1, <2>2, <2>3
<1>2. ASSUME NEW k \in 1 .. MaxRuns, GetCreate(k) PROVE DoneIsWhole'
  <2>1. gets[k].item \in Files BY <1>2 DEF GetCreate, GetsOK
  <2>2. file' = file /\ leaked' = leaked BY <1>2 DEF GetCreate, db
  <2>3. \A i \in Files : i # gets[k].item => disk'[i] = disk[i] BY <1>2 DEF GetCreate
  <2>4. gets[k].item \in Done => gets[k].item \in leaked
    BY <1>2 DEF GetCreate, GetsOK, Waited, LoopOK, InHand
  <2> QED BY <2>1, <2>2, <2>3, <2>4
<1>3. ASSUME NEW k \in 1 .. MaxRuns, GetDone(k) PROVE DoneIsWhole'
  <2>1. gets[k].item \in Files BY <1>3 DEF GetDone, GetsOK
  <2>2. file' = file /\ leaked' = leaked BY <1>3 DEF GetDone, db
  <2>3. \A i \in Files : disk[i].whole => disk'[i].whole BY <1>3, <2>1 DEF GetDone
  <2> QED BY <2>2, <2>3
<1>4. ASSUME NEW i \in Items, BeginItem(i) PROVE DoneIsWhole'
  BY <1>4 DEF BeginItem, downloads
<1>5. CASE GetAbandoned BY <1>5 DEF GetAbandoned, db
<1>6. CASE InsertManifest BY <1>6 DEF InsertManifest, downloads
<1>7. CASE SkipMark \/ MarkFailed BY <1>7 DEF SkipMark, MarkFailed, downloads
<1>8. CASE UNCHANGED <<file, disk, leaked>> BY <1>8
<1>9. [Next]_vars => \/ UNCHANGED <<file, disk, leaked>> \/ MarkDone \/ GetAbandoned
                     \/ InsertManifest \/ SkipMark \/ MarkFailed
                     \/ \E k \in 1 .. MaxRuns : GetCreate(k) \/ GetDone(k)
                     \/ \E i \in Items : BeginItem(i)
  BY DEF Next, vars, Working, Downloading, db, downloads, Begin, Cancel, InitRefused, InitFails,
     InsertRestoreJob, ResumeRestoreJob, Load, LoopCancelled, LoopEnds, RestoreLocal, StartGet,
     GotResult, CountDone, CountFailed, Record, Remove, SkipCount, GetFails, Crash
<1> QED BY <1>1, <1>2, <1>3, <1>4, <1>5, <1>6, <1>7, <1>8, <1>9

-----------------------------------------------------------------------------
\* The inductive invariant.
Inv ==
  /\ TypeOK /\ LoopOK /\ RowOK /\ GetsOK /\ DiskOK /\ LeftOK /\ LiveOK /\ NumOK
  /\ DoneIsWhole

\* The invariant holds of a restore that has not begun.
LEMMA InvInit == ASSUME Init PROVE Inv
<1> USE DEF Init
<1>1. run.pc = "gone" /\ run \in RunType BY DEF Gone, RunType, RunPCs, Results
<1>2. \A k \in 1 .. MaxRuns : gets[k].pc = "none" BY DEF NoGet
<1>3. gets \in [1 .. MaxRuns -> GetType] BY DEF NoGet, GetType
<1>4. \A i \in Items : file[i] = "absent" OBVIOUS
<1>5. TypeOK
  <2>1. disk \in [Files -> [by : 0 .. MaxRuns, whole : BOOLEAN]]
    <3>1. [by |-> 0, whole |-> FALSE] \in [by : 0 .. MaxRuns, whole : BOOLEAN]
      BY RestoreJobAssumption
    <3> QED BY <3>1
  <2>2. Zero \in Counters BY DEF Zero, Counters
  <2>3. runs \in 0 .. MaxRuns /\ crashes \in Nat BY RestoreJobAssumption
  <2>4. file \in [Items -> FileStates] BY DEF FileStates
  <2>5. cancelled \in BOOLEAN OBVIOUS
  <2> QED BY <1>1, <1>3, <2>1, <2>2, <2>3, <2>4, <2>5 DEF TypeOK
<1>6. LoopOK /\ RowOK /\ LeftOK /\ LiveOK
  BY <1>1, <1>4 DEF LoopOK, RowOK, LeftOK, LiveOK, InLoop, InHand, Left
<1>7. GetsOK /\ DiskOK BY <1>1, <1>2 DEF GetsOK, DiskOK, Waited
<1>8. Done = {} BY <1>4 DEF Done
<1>9. NumOK BY <1>1, <1>8, FS_EmptySet DEF NumOK, Uncounted, Zero
<1>10. DoneIsWhole BY <1>8 DEF DoneIsWhole
<1> QED BY <1>5, <1>6, <1>7, <1>9, <1>10 DEF Inv

\* Every step keeps the invariant: no part needs another one's next state.
LEMMA InvStep == ASSUME Inv, [Next]_vars PROVE Inv'
  BY TypeStep, LoopStep, RowStep, GetsStep, DiskStep, LeftStep, LiveStep, NumStep, WholeStep
  DEF Inv

\* The invariant holds throughout.
LEMMA InvHolds == Spec => []Inv
  BY InvInit, InvStep, PTL DEF Spec

\* A file recorded as done is complete on disk unless a cancelled run left a download of
\* it behind: for every manifest, over any number of runs, crashes and cancellations, and
\* whatever the downloads left behind do meanwhile (Do, restoreOne, Get).
THEOREM DoneFilesAreWhole == Spec => []DoneIsWhole
<1>1. Inv => DoneIsWhole BY DEF Inv
<1> QED BY <1>1, InvHolds, PTL

\* A restore recorded as finished has left no item of its manifest pending or half done
\* (Do, LoadPendingManifest, FinalizeJobRecord).
THEOREM FinishedMeansNoneLeft == Spec => []FinishedComplete
<1>1. Inv => FinishedComplete BY DEF Inv, LeftOK, Left, FinishedComplete
<1> QED BY <1>1, InvHolds, PTL

\* The counter of restored items is the number of items done less at most one for every
\* crash, and between two items memory and database count alike (BumpCounter, SeedCounter).
THEOREM CountersAreRight == Spec => []CountersTrack
<1>1. ASSUME Inv PROVE CountersTrack
  <2>1. counters.restored \in Nat BY <1>1 DEF Inv, TypeOK, Counters
  <2>2. Cardinality(Done) \in Nat BY DoneFinite
  <2>3. counters.restored <= Cardinality(Done)
    BY <1>1, <2>1, <2>2 DEF Inv, NumOK, Uncounted
  <2> QED BY <1>1, <2>3 DEF Inv, NumOK, LiveOK, Uncounted, CountersTrack, At
<1> QED BY <1>1, InvHolds, PTL
=============================================================================
