-------------------------- MODULE WebRestoreStart ---------------------------
(***************************************************************************)
(* The dialog that starts a restore (webstatic/ui/src/app.ts:              *)
(* RestoreStartModal): the backup run to restore from, a browser of its    *)
(* files with the ones that are selected, and the request.  Listings are   *)
(* answered in any order, and a directory can be entered before the one    *)
(* before it is listed.                                                    *)
(***************************************************************************)
EXTENDS WebReports

VARIABLES
  start,    \* the state of the dialog
  submit    \* the request to start a restore that is under way

startVars == <<start, submit>>

\* The dialog when it is opened: the effect requests the list of backups.  The history
\* components are the run that was picked without the user (auto) and whether the last
\* listing came out of order or failed (late).
FreshStart ==
  [sourceJobs |-> <<>>, sourceLoading |-> TRUE, sourceJobId |-> 0, auto |-> 0,
   allFiles |-> FALSE, cwd |-> <<>>, stack |-> <<>>, entries |-> {}, browsing |-> FALSE,
   lists |-> <<>>, selected |-> {}, submitting |-> FALSE, late |-> FALSE]

ClosedStart == [FreshStart EXCEPT !.sourceLoading = FALSE]

NoSubmit == [is |-> "none", conn |-> None, source |-> 0, files |-> {}, allFiles |-> FALSE]

InitStart == start = ClosedStart /\ submit = NoSubmit

IsOpen == modal = "restoreStart"

\* loadDir() of a dialog: nothing without a source.
LoadDir(d, path) ==
  IF d.sourceJobId = 0 THEN d
  ELSE [d EXCEPT !.browsing = TRUE,
                 !.lists = Append(@, [run |-> d.sourceJobId, path |-> path, late |-> FALSE])]

\* The effect that follows a change of the source or of the check box: back to the
\* roots.  What was selected stays, and so do the requests under way.
FromRoot(d) ==
  IF d.allFiles THEN d
  ELSE LoadDir([d EXCEPT !.entries = {}, !.stack = <<>>, !.cwd = <<>>], <<>>)

OpenRestoreStart ==
  /\ modal = "none" /\ Opening /\ ~Running(jobs) /\ ~Running(restores)
  /\ modal' = "restoreStart"
  /\ start' = FreshStart
  /\ UNCHANGED <<server, conn, timer, jobs, restores, error, busy, version, asking, calls, reports, resume, submit>>

\* Cancel is disabled while a request is under way; a click beside the dialog is not.
CloseRestoreStart ==
  /\ IsOpen
  /\ modal' = "none"
  /\ start' = ClosedStart
  /\ UNCHANGED <<server, conn, timer, jobs, restores, error, busy, version, asking, calls, events,
                 reportVars, submit>>

-----------------------------------------------------------------------------
(* The source. *)

\* The first page of reports: the first that is finished is picked, or the first.
SourcesDone ==
  /\ start.sourceLoading
  /\ LET items    == ReportPage(s, "backup", NoToken).items
         finished == SelectSeq(items, LAMBDA x : x.state = "finished")
         pick     == IF finished # <<>> THEN Head(finished).run
                     ELSE IF items # <<>> THEN Head(items).run ELSE start.sourceJobId
         d        == [start EXCEPT !.sourceJobs = items, !.sourceLoading = FALSE,
                                   !.sourceJobId = pick, !.auto = pick]
     IN  start' = IF pick = start.sourceJobId THEN d ELSE FromRoot(d)
  /\ UNCHANGED <<appVars, reportVars, submit>>

SourcesFailed ==
  /\ start.sourceLoading
  /\ start' = [start EXCEPT !.sourceLoading = FALSE]
  /\ UNCHANGED <<appVars, reportVars, submit>>

SelectSource(run) ==
  /\ IsOpen /\ ~start.sourceLoading
  /\ run # start.sourceJobId /\ run \in {0} \cup {start.sourceJobs[i].run : i \in DOMAIN start.sourceJobs}
  /\ UserClicks
  /\ start' = FromRoot([start EXCEPT !.sourceJobId = run, !.auto = 0])
  /\ UNCHANGED <<appVars, reports, resume, submit>>

ToggleAllFiles ==
  /\ IsOpen
  /\ UserClicks
  /\ start' = FromRoot([start EXCEPT !.allFiles = ~@])
  /\ UNCHANGED <<appVars, reports, resume, submit>>

-----------------------------------------------------------------------------
(* The browser. *)

\* What loadDir() shows of a page of files: below the roots everything, and at the
\* roots what has no parent in the page.
Entries(run, path) ==
  LET page == FilePage(run, path)
  IN  IF path = <<>> THEN {p \in page : Parent(p) \notin page} ELSE page

\* The requests under way after an answer to the one at i: those it has overtaken are late.
Remaining(i) ==
  [k \in 1..(Len(start.lists) - 1) |->
     IF k < i THEN [start.lists[k] EXCEPT !.late = TRUE] ELSE start.lists[k + 1]]

\* An answer to loadDir(), in any order.
Listed(i) ==
  [start EXCEPT !.lists = Remaining(i),
                !.browsing = FALSE, !.late = start.lists[i].late]

ListDone(i) ==
  /\ i \in DOMAIN start.lists
  /\ start' = [Listed(i) EXCEPT !.entries = Entries(start.lists[i].run, start.lists[i].path)]
  /\ UNCHANGED <<appVars, reportVars, submit>>

\* A failure leaves the entries.
ListFailed(i) ==
  /\ i \in DOMAIN start.lists
  /\ start' = [Listed(i) EXCEPT !.late = TRUE]
  /\ UNCHANGED <<appVars, reportVars, submit>>

\* fileEntryToItem(): the type that was recorded with the entry.
IsDir(path) ==
  \E f \in Files : f.run = start.sourceJobId /\ f.path = path /\ f.type = "dir"

\* enterDir(): an entry that is a directory, also while another is being listed.
EnterDir(path) ==
  /\ IsOpen /\ ~start.allFiles /\ path \in start.entries
  /\ IsDir(path)
  /\ UserClicks
  /\ start' = LoadDir([start EXCEPT !.stack = Append(@, start.cwd), !.cwd = path], path)
  /\ UNCHANGED <<appVars, reports, resume, submit>>

\* Mutated form: the listing is of the directory that is left.
GoUpStays ==
  /\ IsOpen /\ ~start.allFiles /\ start.stack # <<>> /\ ~start.browsing
  /\ UserClicks
  /\ start' = LoadDir([start EXCEPT !.stack = Front(@), !.cwd = Last(start.stack)], start.cwd)
  /\ UNCHANGED <<appVars, reports, resume, submit>>

\* goUp(): disabled while a directory is being listed.
GoUp ==
  /\ IsOpen /\ ~start.allFiles /\ start.stack # <<>> /\ ~start.browsing
  /\ UserClicks
  /\ start' = LoadDir([start EXCEPT !.stack = Front(@), !.cwd = Last(start.stack)], Last(start.stack))
  /\ UNCHANGED <<appVars, reports, resume, submit>>

RefreshDir ==
  /\ IsOpen /\ ~start.allFiles /\ ~start.browsing /\ start.sourceJobId # 0
  /\ UserClicks
  /\ start' = LoadDir(start, start.cwd)
  /\ UNCHANGED <<appVars, reports, resume, submit>>

\* toggleSelect(): of an entry, or of one of the paths that are listed as selected.
ToggleSelect(path) ==
  /\ IsOpen /\ ~start.allFiles /\ path \in start.entries \cup start.selected
  /\ UserClicks
  /\ start' = [start EXCEPT !.selected = IF path \in @ THEN @ \ {path} ELSE @ \cup {path}]
  /\ UNCHANGED <<appVars, reports, resume, submit>>

-----------------------------------------------------------------------------
(* The request. *)

\* onSubmit(): without files to restore it only shows an error.  (Bound: one request
\* at a time, also after the dialog was closed and reopened.)
OnSubmit ==
  /\ IsOpen /\ ~start.submitting /\ start.sourceJobId # 0
  /\ start.allFiles \/ start.selected # {}
  /\ UserClicks
  /\ submit = NoSubmit
  /\ submit' = [is |-> "sent", conn |-> conn, source |-> start.sourceJobId,
                allFiles |-> start.allFiles, files |-> IF start.allFiles THEN {} ELSE start.selected]
  /\ start' = [start EXCEPT !.submitting = TRUE]
  /\ UNCHANGED <<appVars, reports, resume>>

ServeSubmit ==
  /\ submit.is = "sent" /\ ~IsRunning(server[submit.conn], 0) /\ Len(server[submit.conn]) < MaxRuns
  /\ server' = [server EXCEPT ![submit.conn] = Started(@, "restore")]
  /\ submit' = [submit EXCEPT !.is = "done"]
  /\ UNCHANGED <<conn, timer, jobs, restores, error, busy, version, asking, calls, modal, events,
                 reportVars, start>>

\* onStarted(): whichever dialog of this kind is open is closed, and the page refreshes.
SubmitDone ==
  /\ submit.is = "done"
  /\ submit' = NoSubmit
  /\ modal' = IF IsOpen THEN "none" ELSE modal
  /\ start' = IF IsOpen THEN ClosedStart ELSE start
  /\ Make(Refresh(submit.conn, "none"))
  /\ UNCHANGED <<server, conn, timer, jobs, restores, error, busy, version, asking, events, reportVars>>

SubmitFailed ==
  /\ submit.is # "none"
  /\ submit' = NoSubmit
  /\ start' = [start EXCEPT !.submitting = FALSE]
  /\ UNCHANGED <<appVars, reportVars>>

Paths == {f.path : f \in Files}

NextStart ==
  \/ OpenRestoreStart \/ CloseRestoreStart
  \/ SourcesDone \/ SourcesFailed
  \/ \E i \in 0..MaxRuns : SelectSource(i)
  \/ ToggleAllFiles
  \/ \E i \in 1..MaxClicks : ListDone(i) \/ ListFailed(i)
  \/ \E p \in Paths : EnterDir(p) \/ ToggleSelect(p)
  \/ GoUp \/ RefreshDir
  \/ OnSubmit \/ ServeSubmit \/ SubmitDone \/ SubmitFailed

-----------------------------------------------------------------------------
(* Properties. *)

\* What a directory of a run holds, and which paths of a run have no parent in it.
Holds(run, path) ==
  IF path = <<>> THEN {p \in Tree(run) : Parent(p) \notin Tree(run)}
  ELSE {p \in Tree(run) : Parent(p) = path}

\* When no listing is awaited and the last answer was neither late nor a failure, the
\* browser shows what the current directory of the chosen run holds, as far as it is
\* on the first page (loadDir, enterDir, goUp and the effect that goes back to the
\* roots).
ListingIsCurrent ==
  /\ IsOpen /\ ~start.allFiles /\ start.lists = <<>> /\ ~start.late /\ start.sourceJobId # 0
  => start.entries = Holds(start.sourceJobId, start.cwd) \cap FilePage(start.sourceJobId, start.cwd)

\* "Auto-pick the most recent finished one when present" (app.ts, above the choice of
\* the source).
AutoPicksMostRecent ==
  IsOpen /\ start.auto # 0 =>
    \A i \in DOMAIN start.sourceJobs :
      start.sourceJobs[i].state = "finished" => start.sourceJobs[i].run <= start.auto
=============================================================================
