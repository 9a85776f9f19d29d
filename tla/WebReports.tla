----------------------------- MODULE WebReports -----------------------------
(***************************************************************************)
(* The dialogs with the reports on backups and on restores                 *)
(* (webstatic/ui/src/app.ts: ReportsModal, RestoreReportsModal and their   *)
(* lists): pages of a list, the report that was opened, and the button     *)
(* that resumes a restore.  Answers come in any order; a closed dialog     *)
(* ignores them, except that a resume still calls the page back.           *)
(***************************************************************************)
EXTENDS WebApp

CONSTANTS
  Targets,    \* the targets of the definition, in /config
  MaxClicks   \* bound on what the user does in dialogs

VARIABLES
  reports,  \* the state of the dialog that is open
  resume    \* the request to resume a restore that is under way

reportVars == <<reports, resume, clicks>>

NoTarget == "none"

Idle == [is |-> "idle", token |-> NoToken, answer |-> [items |-> <<>>, until |-> 0, next |-> NoToken]]

\* The dialog when it is opened: the effects request the first page and, for
\* restores, the targets.  The history components are what the list had when it was
\* first served (seen) and whether a resumed restore is or was active (disturbed).
FreshReports(kind) ==
  [kind |-> kind, items |-> <<>>, nextToken |-> NoToken, page |-> [Idle EXCEPT !.is = "sent"],
   detail |-> 0, detailJobId |-> 0, detailState |-> "none", shows |-> <<>>,
   config |-> kind = "restore", targets |-> {}, pickedTarget |-> NoTarget, resuming |-> FALSE,
   seen |-> {}, loaded |-> FALSE, disturbed |-> FALSE]

Closed == [FreshReports("backup") EXCEPT !.page = Idle]

NoResume == [is |-> "none", conn |-> None, run |-> 0]

InitReports == reports = Closed /\ resume = NoResume

UserClicks == clicks < MaxClicks /\ clicks' = clicks + 1

Open == modal \in {"reports", "restoreReports"}

s == server[conn]

\* A dialog is opened from a card.  (Bounds: from a page that is up to date and waits
\* for nothing, and after that one more event may happen.)
Opening ==
  /\ UpToDate /\ ~error /\ timer = conn /\ version = conn /\ asking = {}
  /\ \A k \in Slots : calls[k] = NoCall
  /\ UserClicks
  /\ events < MaxEvents
  /\ events' = MaxEvents - 1

OpenReports(kind) ==
  /\ modal = "none" /\ Opening
  /\ modal' = IF kind = "backup" THEN "reports" ELSE "restoreReports"
  /\ reports' = [FreshReports(kind) EXCEPT !.disturbed = \E i \in ActiveRuns(s, Keys) : i # Len(s)]
  /\ UNCHANGED <<server, conn, timer, jobs, restores, error, busy, version, asking, calls, resume>>

\* Close, or a click beside the dialog: nothing of its state is left.
CloseReports ==
  /\ Open
  /\ modal' = "none"
  /\ reports' = Closed
  /\ UNCHANGED <<server, conn, timer, jobs, restores, error, busy, version, asking, calls, events,
                 resume, clicks>>

-----------------------------------------------------------------------------
(* The list. *)

ServePage ==
  /\ reports.page.is = "sent"
  /\ LET answer == ReportPage(s, reports.kind, reports.page.token)
     IN  reports' = [reports EXCEPT !.page.is = "done", !.page.answer = answer,
                        !.seen = IF reports.page.token = NoToken THEN Range(Listing(s, reports.kind, Len(s))) ELSE @]
  /\ UNCHANGED <<appVars, resume, clicks>>

\* Mutated form: a further page replaces the ones before it.
PageDoneReplaces ==
  /\ reports.page.is = "done"
  /\ reports' = [reports EXCEPT !.items = reports.page.answer.items,
                                !.nextToken = reports.page.answer.next, !.page = Idle, !.loaded = TRUE]
  /\ UNCHANGED <<appVars, resume, clicks>>

\* loadPage(): the first page replaces the items, a further one is put behind them.
PageDone ==
  /\ reports.page.is = "done"
  /\ reports' = [reports EXCEPT !.items = (IF reports.page.token = NoToken THEN <<>> ELSE @)
                                          \o reports.page.answer.items,
                                !.nextToken = reports.page.answer.next, !.page = Idle, !.loaded = TRUE]
  /\ UNCHANGED <<appVars, resume, clicks>>

PageFailed ==
  /\ reports.page.is # "idle"
  /\ reports' = [reports EXCEPT !.page = Idle]
  /\ UNCHANGED <<appVars, resume, clicks>>

\* RestoreReportsModal shows a report, or that there is none, from the click on.
ShowingDetail == reports.detail # 0 \/ (reports.kind = "restore" /\ reports.detailJobId # 0)

\* Load more is there when there is a token and no page is being loaded.
LoadMore ==
  /\ Open /\ ~ShowingDetail /\ reports.nextToken # NoToken /\ reports.page.is = "idle"
  /\ UserClicks
  /\ reports' = [reports EXCEPT !.page = [Idle EXCEPT !.is = "sent", !.token = reports.nextToken]]
  /\ UNCHANGED <<appVars, resume>>

-----------------------------------------------------------------------------
(* A report. *)

\* Every row of a list can be clicked while the list is on display.
Clickable(i) == Open /\ ~ShowingDetail /\ i \in DOMAIN reports.items

\* openDetail(): the list of backups' reports stays until the answer is there, so
\* that another row can be clicked.
OpenDetail(i) ==
  /\ Clickable(i)
  /\ UserClicks
  /\ LET item == reports.items[i]
     IN  reports' = [reports EXCEPT !.shows = Append(@, item.run), !.detailJobId = item.run, !.detailState = item.state]
  /\ UNCHANGED <<appVars, resume>>

\* An answer to openDetail(), in any order, is shown whatever was clicked since.
DetailDone(i) ==
  /\ i \in DOMAIN reports.shows
  /\ s[reports.shows[i]].state \notin Active
  /\ reports' = [reports EXCEPT !.shows = RemoveAt(@, i), !.detail = reports.shows[i]]
  /\ UNCHANGED <<appVars, resume, clicks>>

\* A failure leaves what is shown of a backup and clears what is shown of a restore.
DetailFailed(i) ==
  /\ i \in DOMAIN reports.shows
  /\ reports' = [reports EXCEPT !.shows = RemoveAt(@, i),
                                !.detail = IF reports.kind = "restore" THEN 0 ELSE @]
  /\ UNCHANGED <<appVars, resume, clicks>>

\* backToList()
BackToList ==
  /\ Open /\ ShowingDetail
  /\ UserClicks
  /\ reports' = [reports EXCEPT !.detail = 0, !.detailJobId = 0, !.detailState = "none"]
  /\ UNCHANGED <<appVars, resume>>

-----------------------------------------------------------------------------
(* Resuming a restore. *)

\* getConfig(): a single target is picked at once.
ConfigDone ==
  /\ reports.config
  /\ reports' = [reports EXCEPT !.config = FALSE, !.targets = Targets,
                    !.pickedTarget = IF Cardinality(Targets) = 1 THEN CHOOSE t \in Targets : TRUE ELSE @]
  /\ UNCHANGED <<appVars, resume, clicks>>

ConfigFailed ==
  /\ reports.config
  /\ reports' = [reports EXCEPT !.config = FALSE]
  /\ UNCHANGED <<appVars, resume, clicks>>

\* The select lists the targets when there are several.
CanResumeCurrent == Open /\ ShowingDetail /\ reports.kind = "restore" /\ IsResumable(reports.detailState)

PickTarget(t) ==
  /\ CanResumeCurrent /\ Cardinality(reports.targets) > 1 /\ t \in reports.targets
  /\ reports' = [reports EXCEPT !.pickedTarget = t]
  /\ UNCHANGED <<appVars, resume, clicks>>

\* onResume().  The button is disabled while the card shows a restore; the polls behind
\* the dialog, which are left out, may change that at any time, so the button may be
\* enabled in any state.  (Bound: one request to resume at a time, also after the dialog
\* was closed and reopened.)
OnResume ==
  /\ CanResumeCurrent /\ ~reports.resuming /\ reports.pickedTarget # NoTarget
  /\ UserClicks
  /\ resume = NoResume
  /\ resume' = [is |-> "sent", conn |-> conn, run |-> reports.detailJobId]
  /\ reports' = [reports EXCEPT !.resuming = TRUE]
  /\ UNCHANGED appVars

ServeResume ==
  /\ resume.is = "sent" /\ CanResume(server[resume.conn], resume.run)
  /\ server' = [server EXCEPT ![resume.conn] = Resumed(@, resume.run)]
  /\ resume' = [resume EXCEPT !.is = "done"]
  /\ reports' = [reports EXCEPT !.disturbed = TRUE]
  /\ UNCHANGED <<conn, timer, jobs, restores, error, busy, version, asking, calls, modal, events, clicks>>

\* onResumed(): whichever dialog with restore reports is open is closed, and the page
\* refreshes.
ResumeDone ==
  /\ resume.is = "done"
  /\ resume' = NoResume
  /\ modal' = IF modal = "restoreReports" THEN "none" ELSE modal
  /\ reports' = IF modal = "restoreReports" THEN Closed ELSE reports
  /\ Make(Refresh(resume.conn, "none"))
  /\ UNCHANGED <<server, conn, timer, jobs, restores, error, busy, version, asking, events, clicks>>

\* The request is refused, does not reach the server, or its answer is lost.
ResumeFailed ==
  /\ resume.is # "none"
  /\ resume' = NoResume
  /\ reports' = [reports EXCEPT !.resuming = FALSE]
  /\ UNCHANGED <<appVars, clicks>>

\* Another client resumes a restore.
OtherResume(i) ==
  /\ Open /\ CanResume(s, i)
  /\ Event
  /\ server' = [server EXCEPT ![conn] = Resumed(@, i)]
  /\ reports' = [reports EXCEPT !.disturbed = TRUE]
  /\ UNCHANGED <<conn, timer, jobs, restores, error, busy, version, asking, calls, modal, resume, clicks>>

NextReports ==
  \/ \E kind \in Keys : OpenReports(kind)
  \/ CloseReports
  \/ ServePage \/ PageDone \/ PageFailed \/ LoadMore
  \/ \E i \in 1..MaxRuns : OpenDetail(i) \/ DetailDone(i) \/ DetailFailed(i) \/ OtherResume(i)
  \/ BackToList
  \/ ConfigDone \/ ConfigFailed \/ \E t \in Targets : PickTarget(t)
  \/ OnResume \/ ServeResume \/ ResumeDone \/ ResumeFailed

-----------------------------------------------------------------------------
(* Properties. *)

\* Unless a resumed restore is or was active meanwhile, whose report has its place among
\* earlier ones, the pages put together are a beginning of the list, with nothing twice,
\* although runs start and end between one page and the next; and
\* when there is no further page, everything is there that was listed at first
\* (loadPage, the next token and the order of the list).
PagesExact ==
  Open /\ ~reports.disturbed =>
    LET runs == [n \in DOMAIN reports.items |-> reports.items[n].run]
    IN  /\ IsPrefix(runs, Listing(s, reports.kind, Len(s)))
        /\ reports.loaded /\ reports.nextToken = NoToken => reports.seen \subseteq Range(runs)

=============================================================================
