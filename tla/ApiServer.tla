----------------------------- MODULE ApiServer ------------------------------
(***************************************************************************)
(* The REST API of the daemon as the web interface uses it                 *)
(* (webstatic/ui/src/api.ts, httpd/): the runs of one backup definition,   *)
(* the reports on them and the files they backed up.  A server is the      *)
(* sequence of its runs in the order of their start; a run is known by its *)
(* position.  At most one run, backup or restore, is active (Scheduler).   *)
(***************************************************************************)
EXTENDS Integers, Sequences, FiniteSets, SequencesExt

CONSTANTS
  PageSize,  \* reports on a page of a report list
  FileLimit, \* files on a page of a file list
  Files      \* what the runs backed up: run, path (a sequence of numbers) and type

ASSUME PageAssumption ==
  /\ PageSize \in Nat \ {0} /\ FileLimit \in Nat \ {0}
  /\ IsFiniteSet(Files)
  /\ \A f \in Files : f.path \in Seq(Nat) /\ f.type \in {"file", "dir", "symlink"}

Active == {"started", "stopping"}

\* restore.go's ResumableStates and the page's isResumable().
IsResumable(state) == state \in {"cancelled", "failed", "stopped", "crashed"}

\* A run, backup or restore, and the states it can be in.
Runs == [type : {"backup", "restore"},
         state : Active \cup {"finished", "cancelled", "failed", "stopped", "crashed"}]

RunOf(type) == [type |-> type, state |-> "started"]

ActiveRuns(s, types) == {i \in DOMAIN s : s[i].type \in types /\ s[i].state \in Active}

\* A request that names no run (0) means any.
IsRunning(s, run) == \E i \in ActiveRuns(s, {"backup", "restore"}) : run \in {0, i}

\* The same for a run that is already stopping.
IsStopping(s, run) ==
  \E i \in ActiveRuns(s, {"backup", "restore"}) : run \in {0, i} /\ s[i].state = "stopping"

\* The entry of an active run in /backup/list or /restore/list; without one,
\* /backup/list says "stopped" and /restore/list nothing.
Card(s, type) ==
  IF ActiveRuns(s, {type}) = {} THEN [run |-> 0, state |-> "stopped"]
  ELSE LET i == CHOOSE i \in ActiveRuns(s, {type}) : TRUE
       IN  [run |-> i, state |-> s[i].state]

\* /backup/start and /restore/start
Started(s, type) == Append(s, RunOf(type))

\* /backup/stop and /restore/stop of an active run
Stopped(s, run) ==
  [i \in DOMAIN s |-> IF s[i].state \in Active /\ run \in {0, i}
                      THEN [s[i] EXCEPT !.state = "stopping"] ELSE s[i]]

\* /restore/resume
CanResume(s, run) ==
  ~IsRunning(s, 0) /\ run \in DOMAIN s /\ s[run].type = "restore" /\ IsResumable(s[run].state)

Resumed(s, run) == [s EXCEPT ![run].state = "started"]

\* The reports on runs that were started up to a moment: those that are over ...
Over(s, type, until) == {i \in 1..until : s[i].type = type /\ s[i].state \notin Active}

\* ... in the order of their start: each one comes after as many as started before it.
\* (Backups are ordered by the number start_time, restores by its text, which is taken
\* here to tell times apart as the number does.)
Rank(S, i) == Cardinality({j \in S : j < i})

InOrder(S) == [n \in 1..Cardinality(S) |-> CHOOSE i \in S : Rank(S, i) = n - 1]

Listing(s, type, until) == InOrder(Over(s, type, until))

NoToken == [offset |-> 0, until |-> 0]

\* /report/*/list: the next token repeats the moment of the first request and counts
\* on; a page that is not full is the last one.
ReportPage(s, type, token) ==
  LET until == IF token = NoToken THEN Len(s) ELSE token.until
      all   == Listing(s, type, until)
      last  == IF token.offset + PageSize < Len(all) THEN token.offset + PageSize ELSE Len(all)
      runs  == SubSeq(all, token.offset + 1, last)
      items == [n \in DOMAIN runs |-> [run |-> runs[n], state |-> s[runs[n]].state]]
  IN  [items |-> items, until |-> until,
       next  |-> IF Len(items) = PageSize
                 THEN [offset |-> token.offset + PageSize, until |-> until] ELSE NoToken]

-----------------------------------------------------------------------------
(* /report/backup/file/list *)

\* What a run backed up.
Tree(run) == {f.path : f \in {g \in Files : g.run = run}}

\* The column parent: filepath.Dir() of the path.
Parent(path) == SubSeq(path, 1, Len(path) - 1)

\* Paths in the order of local_path: a directory comes before what is in it.
Before(p, q) ==
  \/ Len(p) < Len(q) /\ p = SubSeq(q, 1, Len(p))
  \/ \E i \in 1..Len(p) : /\ i <= Len(q) /\ p[i] < q[i]
                          /\ SubSeq(p, 1, i - 1) = SubSeq(q, 1, i - 1)

\* The first page of what a directory holds.  The page asks for the empty path with
\* everything below it: parent = '' OR parent LIKE '/%', which every absolute path of
\* a POSIX system meets (and none of Windows does).  (One target: with several, LIMIT
\* counts a row for each.)
FilePage(run, path) ==
  LET all == IF path = <<>> THEN Tree(run) ELSE {p \in Tree(run) : Parent(p) = path}
  IN  {p \in all : Cardinality({q \in all : Before(q, p)}) < FileLimit}
=============================================================================
