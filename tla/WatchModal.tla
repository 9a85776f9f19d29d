----------------------------- MODULE WatchModal -----------------------------
(***************************************************************************)
(* The dialog that watches a job (webstatic/ui/src/app.ts: WatchModal, and *)
(* streamSseEvents in api.ts) with the server behind it.  The lines of the *)
(* stream come in pieces, and the list keeps the last events, one for an   *)
(* item.  How the list is scrolled is left out.                            *)
(***************************************************************************)
EXTENDS Watcher, SequencesExt

CONSTANTS
  MaxShown    \* MAX_EVENTS

ASSUME WatchModalAssumption == MaxShown \in Nat \ {0}

VARIABLES
  dialog   \* the stream and the list of each dialog

vars == <<watcherVars, dialog>>

Dialog0 == [status |-> "closed", read |-> 0, buf |-> <<>>, events |-> <<>>]

Init ==
  /\ InitWatcher
  /\ dialog = [d \in Dialogs |-> Dialog0]

-----------------------------------------------------------------------------
(* The stream. *)

\* The dialog is opened and its effect makes the request; or without a job to watch.
\* (Bound: a job is watched by dialogs or by command line clients, not by both.)
OpenWatch(d) ==
  /\ dialog[d].status = "closed" /\ \A w \in Watches \ Dialogs : watch[w].pc = "none"
  /\ \/ dialog' = [dialog EXCEPT ![d].status = "streaming"] /\ Request(d)
     \/ dialog' = [dialog EXCEPT ![d].status = "no job"] /\ UNCHANGED watcherVars

\* Every line travels in two pieces, the second with its end.
Pieces(lines) ==
  [k \in 1..2 * Len(lines) |-> [of |-> lines[(k + 1) \div 2], end |-> k % 2 = 0]]

\* setEvents(): an event of the same item replaces the last one, and the list keeps
\* the last MAX_EVENTS.
Show(events, e) ==
  IF events # <<>> /\ Last(events).seq = e.seq
  THEN [events EXCEPT ![Len(events)] = e]
  ELSE Append(IF Len(events) >= MaxShown THEN SubSeq(events, Len(events) - MaxShown + 2, Len(events))
                                         ELSE events, e)

\* handleLine(): a line that says that the job is over ends the stream (status), and its
\* beginning is enough for that; one that is an event is shown, when it is whole; anything
\* else is ignored: another text, and a line without its beginning.
HandleLine(s, line) ==
  IF s.status # "streaming" \/ line[1].end THEN s
  ELSE LET text == line[1].of
       IN  CASE text.kind = "jobOver" -> [s EXCEPT !.status = "job over"]
             [] text.seq # 0 /\ Len(line) = 2 -> [s EXCEPT !.events = Show(@, text)]
             [] OTHER -> s

\* A piece is kept until the end of its line is there.
HandlePiece(s, p) ==
  IF p.end THEN [HandleLine(s, Append(s.buf, p)) EXCEPT !.buf = <<>>]
  ELSE [s EXCEPT !.buf = Append(s.buf, p)]

\* Mutated form: what is left of a chunk is forgotten.
DecodeForgets(s, pieces) ==
  LET after[k \in 0..Len(pieces)] == IF k = 0 THEN s ELSE HandlePiece(after[k - 1], pieces[k])
  IN  [after[Len(pieces)] EXCEPT !.buf = <<>>]

\* A chunk is put behind what is left of the one before, and cut into lines.
Decode(s, pieces) ==
  LET after[k \in 0..Len(pieces)] == IF k = 0 THEN s ELSE HandlePiece(after[k - 1], pieces[k])
  IN  after[Len(pieces)]

\* reader.read() returns some of what has been written.
ReadChunk(d) ==
  /\ dialog[d].status = "streaming"
  /\ LET pieces == Pieces(watch[d].lines)
         read   == dialog[d].read
     IN  \E n \in read + 1..Len(pieces) :
           dialog' = [dialog EXCEPT ![d] = [Decode(dialog[d], SubSeq(pieces, read + 1, n)) EXCEPT !.read = n]]
  /\ UNCHANGED watcherVars

\* reader.read() is done: everything was read and the handler has returned.  What is left
\* in the buffer is handled like a line.
StreamEnds(d) ==
  /\ dialog[d].status = "streaming" /\ watch[d].pc = "closed"
  /\ dialog[d].read = 2 * Len(watch[d].lines)
  /\ LET s == IF dialog[d].buf = <<>> THEN dialog[d] ELSE HandleLine(dialog[d], dialog[d].buf)
     IN  dialog' = [dialog EXCEPT ![d] = IF s.status = "streaming" THEN [s EXCEPT !.status = "stream ended"] ELSE s]
  /\ UNCHANGED watcherVars

\* The answer is an error, or the connection breaks.
StreamFails(d) ==
  /\ dialog[d].status = "streaming"
  /\ dialog' = [dialog EXCEPT ![d] = [Dialog0 EXCEPT !.status = "error", !.events = dialog[d].events]]
  /\ watch' = [watch EXCEPT ![d].gone = TRUE]
  /\ UNCHANGED <<job, main, mux, running, consumers>>

\* Close: the cleanup of the effect aborts the request and the state is gone.
CloseWatch(d) ==
  /\ dialog[d].status # "closed"
  /\ dialog' = [dialog EXCEPT ![d] = [Dialog0 EXCEPT !.status = "left"]]
  /\ watch' = [watch EXCEPT ![d].gone = TRUE]
  /\ UNCHANGED <<job, main, mux, running, consumers>>

\* Watch() of the command line client makes the request.
Attach(w) ==
  /\ w \notin Dialogs /\ \A d \in Dialogs : dialog[d].status = "closed"
  /\ Request(w)
  /\ UNCHANGED dialog

\* The command line client stops: it cannot read the stream any more, or it is interrupted.
Interrupt(w) ==
  /\ w \notin Dialogs /\ watch[w].pc = "watching" /\ ~watch[w].gone
  /\ watch' = [watch EXCEPT ![w].gone = TRUE]
  /\ UNCHANGED <<job, main, mux, running, consumers, dialog>>

Visible(d) == dialog[d].status \notin {"closed", "left"}

\* The button Clear.
ClearEvents(d) ==
  /\ Visible(d) /\ dialog[d].events # <<>>
  /\ dialog' = [dialog EXCEPT ![d].events = <<>>]
  /\ UNCHANGED watcherVars

NextDialog(d) ==
  \/ OpenWatch(d) \/ ReadChunk(d) \/ StreamEnds(d) \/ StreamFails(d) \/ CloseWatch(d) \/ ClearEvents(d)

Next ==
  \/ NextWatcher /\ UNCHANGED dialog
  \/ \E d \in Dialogs : NextDialog(d)
  \/ \E w \in Watches : Attach(w) \/ Interrupt(w)

\* What was written is read in the end, and a failed request is noticed.
Spec ==
  /\ Init /\ [][Next]_vars
  /\ FairWatcher
  /\ \A d \in Dialogs :
       /\ WF_vars(ReadChunk(d) \/ StreamEnds(d))
       /\ WF_vars(watch[d].pc = "refused" /\ StreamFails(d))

-----------------------------------------------------------------------------
(* Properties. *)

\* Of the first lines, the last one on each item.
LastWords(lines, n) ==
  {i \in 1..n : lines[i].seq # 0 /\ \A j \in i + 1..n : lines[j].seq # lines[i].seq}

\* The list holds, in order, the last word on each of the last items of which whole lines
\* were read, however the stream is cut into chunks, and never more than MAX_EVENTS
\* (streamSseEvents with buf and handleLine, setEvents).
ListExact ==
  \A d \in Dialogs :
    LET shown == dialog[d].events
        lines == watch[d].lines
        words == LastWords(lines, dialog[d].read \div 2)
    IN  dialog[d].status = "streaming" =>
        /\ Len(shown) <= MaxShown
        /\ \E at \in [DOMAIN shown -> words] :
             /\ \A k \in DOMAIN shown : shown[k] = lines[at[k]]
             /\ \A k, l \in DOMAIN shown : k < l => at[k] < at[l]
             /\ \A k \in DOMAIN shown : \A i \in words : at[k] <= i => i \in Range(at)

\* When the last message of the job has reached the channel of a dialog, the dialog
\* shows that the job is over, unless it is closed, its connection breaks or the
\* daemon shuts down.  (The message may be lost before that, or be too early for a
\* consumer that registers late.)
EndShown ==
  \A d \in Dialogs :
    (End \in Range(watch[d].chan)) ~> (dialog[d].status \in {"job over", "error", "left"} \/ watch[d].cancelled)
=============================================================================
