------------------------------ MODULE DbAccess ------------------------------
(***************************************************************************)
(* Access to one SQLite database of the daemon (database/database.go with  *)
(* the one-slot lock of utils/lock.go).                                    *)
(*                                                                         *)
(* Every database name has, in the map DbOpenAllowed, a pointer to an      *)
(* entry made of a gate (a lock that must be held while a connection is    *)
(* being opened) and of a counter of connected clients.  A finished backup *)
(* job drains the database: it disconnects, takes the gate (CloseDb),      *)
(* polls the counter until it is zero, copies the database file and only   *)
(* then releases the gate (UnlockDb).  SQLite runs in WAL mode, so the     *)
(* file is complete only once every connection is closed.                  *)
(*                                                                         *)
(* Entries are heap objects: OpenDb looks the pointer up first and uses it *)
(* later, and the first open of a name installs a fresh entry.  `entries'  *)
(* is the heap and `reg' the entry the map points to (0: no entry).        *)
(***************************************************************************)
EXTENDS DbEntry, Sequences, FiniteSets

CONSTANTS
  Jobs,        \* goroutines that reach the database through Start()
  Readers,     \* HTTP report handlers: OpenDb() with a 15 second timeout
  Kinds        \* the kinds of database looked at

ASSUME DbAccessAssumption ==
  /\ IsFiniteSet(Jobs) /\ IsFiniteSet(Readers)
  /\ Jobs \cap Readers = {}
  /\ Kinds \subseteq {"backup", "added", "restore"}
  /\ Cardinality(Jobs \cup Readers) < Modulus

VARIABLES
  kind,     \* a backup's database, known at start-up or added later, or a restore's
  entries,  \* the DbAccess objects allocated so far
  reg,      \* index of the entry DbOpenAllowed[name] points to, 0 for none
  file,     \* the database file: absent, bare (no tables) or ready
  pc,       \* where each goroutine is
  ref,      \* the entry a goroutine looked up
  task      \* why a goroutine opens the database: "create" its tables or "use" them

vars == <<kind, entries, reg, file, pc, ref, task>>

Procs == Jobs \cup Readers

PCs == {"idle", "lookup", "gate", "opening", "firstOpen", "register", "open",
        "closing", "failed", "shut", "shutGate", "draining", "copying"}

TypeOK ==
  /\ kind \in Kinds
  /\ entries \in Seq(Entry)
  /\ reg \in 0 .. Len(entries)
  /\ file \in {"absent", "bare", "ready"}
  /\ pc \in [Procs -> PCs]
  /\ ref \in [Procs -> 0 .. Len(entries)]
  /\ task \in [Procs -> {"create", "use"}]

-----------------------------------------------------------------------------
\* An entry as the first open of a name installs it.
NewEntry == [free |-> TRUE, clients |-> 1]

-----------------------------------------------------------------------------
(* A name that went through start-up has its tables and, because           *)
(* CheckForCrashedJobs opened and left the database, an entry without      *)
(* clients.  A name added later through PUT config/backup has neither      *)
(* entry nor, unless an earlier definition left one, a file; nor has the   *)
(* database of the restores from a target before the first of them.        *)
Init ==
  /\ kind \in Kinds
  /\ IF kind = "backup"
     THEN /\ entries = <<IdleEntry>>
          /\ reg = 1
          /\ file = "ready"
     ELSE /\ entries = <<>>
          /\ reg = 0
          /\ file \in {"absent", "ready"}
  /\ pc = [p \in Procs |-> "idle"]
  /\ ref = [p \in Procs |-> 0]
  /\ task = [p \in Procs |-> "use"]

Goto(p, l) == pc' = [pc EXCEPT ![p] = l]

\* Start(): ValidateAndCreate() looks whether the file exists and, if not,
\* opens the database once to create the tables.
Start(p) ==
  /\ pc[p] = "idle"
  /\ Goto(p, "lookup")
  /\ task' = [task EXCEPT ![p] = IF file = "absent" THEN "create" ELSE "use"]
  /\ UNCHANGED <<kind, entries, reg, file, ref>>

\* A report handler calls OpenDb() directly.
Report(p) ==
  /\ pc[p] = "idle"
  /\ Goto(p, "lookup")
  /\ task' = [task EXCEPT ![p] = "use"]
  /\ UNCHANGED <<kind, entries, reg, file, ref>>

\* OpenDb(): read the map entry under the read lock.
OpenDbLookup(p) ==
  /\ pc[p] = "lookup"
  /\ Goto(p, IF reg = 0 THEN "firstOpen" ELSE "gate")
  /\ ref' = [ref EXCEPT ![p] = reg]
  /\ UNCHANGED <<kind, entries, reg, file, task>>

\* OpenDb(): the gate is free; take it and count the new client.
OpenDbGate(p) ==
  /\ pc[p] = "gate"
  /\ entries[ref[p]].free
  /\ entries' = [entries EXCEPT ![ref[p]] = AddClient(GetLock(@))]
  /\ Goto(p, "opening")
  /\ UNCHANGED <<kind, reg, file, ref, task>>

\* OpenDb(): only report handlers give up waiting for the gate.
OpenDbTimeout(p) ==
  /\ pc[p] = "gate"
  /\ Goto(p, "idle")
  /\ UNCHANGED <<kind, entries, reg, file, ref, task>>

\* openDbFile(): a ping of a missing file leaves an empty database behind;
\* without a ping ($fileExists == false) the file is not touched yet.
Opened == IF file = "absent" THEN "bare" ELSE file

OpenedFor(p) == IF task[p] = "use" THEN Opened ELSE file

\* Mutated form: the error path forgets the count.
OpenDbFile_Counted(p) ==
  /\ pc[p] = "opening"
  /\ \/ /\ file' = OpenedFor(p)
        /\ Goto(p, "open")
     \/ /\ Goto(p, "idle")
        /\ UNCHANGED file
  /\ entries' = [entries EXCEPT ![ref[p]] = ReleaseLock(@)]
  /\ UNCHANGED <<kind, reg, ref, task>>

\* Mutated form: the error path forgets the gate.
OpenDbFile_Locked(p) ==
  /\ pc[p] = "opening"
  /\ \/ /\ file' = OpenedFor(p)
        /\ Goto(p, "open")
        /\ entries' = [entries EXCEPT ![ref[p]] = ReleaseLock(@)]
     \/ /\ Goto(p, "idle")
        /\ entries' = [entries EXCEPT ![ref[p]] = DropClient(@)]
        /\ UNCHANGED file
  /\ UNCHANGED <<kind, reg, ref, task>>

\* OpenDb() with an entry: open, or give the count back; release the gate.
OpenDbFile(p) ==
  /\ pc[p] = "opening"
  /\ \/ /\ file' = OpenedFor(p)
        /\ Goto(p, "open")
        /\ entries' = [entries EXCEPT ![ref[p]] = ReleaseLock(@)]
     \/ /\ Goto(p, "idle")
        /\ entries' = [entries EXCEPT ![ref[p]] = ReleaseLock(DropClient(@))]
        /\ UNCHANGED file
  /\ UNCHANGED <<kind, reg, ref, task>>

\* OpenDb() without an entry: the file is opened with no gate to hold.
OpenDbFirst(p) ==
  /\ pc[p] = "firstOpen"
  /\ \/ /\ file' = OpenedFor(p)
        /\ Goto(p, "register")
     \/ /\ Goto(p, "idle")
        /\ UNCHANGED file
  /\ UNCHANGED <<kind, entries, reg, ref, task>>

\* OpenDb() without an entry: install a new one, whatever the map holds now.
OpenDbRegister(p) ==
  /\ pc[p] = "register"
  /\ entries' = Append(entries, NewEntry)
  /\ reg' = Len(entries) + 1
  /\ Goto(p, "open")
  /\ UNCHANGED <<kind, file, ref, task>>

\* The file after CREATE TABLE statements that failed.  CreateRestoreDb() removes it, which
\* may fail; CreateDb() leaves it, because the name of the backup is passed where the path
\* of the file is expected and os.Remove() is not reached.
AfterFailure == IF kind = "restore" THEN {"absent", Opened} ELSE {Opened}

\* CreateDb(), CreateRestoreDb(): the statements fail when the tables are there.
CreateDb(p) ==
  /\ pc[p] = "open" /\ task[p] = "create"
  /\ \/ /\ file # "ready"
        /\ file' = "ready"
        /\ Goto(p, "closing")
     \/ /\ file' \in AfterFailure
        /\ Goto(p, "failed")
  /\ entries' = [entries EXCEPT ![reg] = DropClient(@)]
  /\ UNCHANGED <<kind, reg, ref, task>>

\* DisconnectFromDb(): count down first ...
Disconnect(p) ==
  /\ pc[p] = "open" /\ task[p] = "use"
  /\ entries' = [entries EXCEPT ![reg] = DropClient(@)]
  /\ Goto(p, "closing")
  /\ UNCHANGED <<kind, reg, file, ref, task>>

\* ... and close the handle afterwards.  A job that has just created the
\* tables goes on to open the database; a job that is done with it may go on
\* to copy it.
CloseHandle(p) ==
  /\ \/ /\ pc[p] = "closing" /\ task[p] = "create"
        /\ Goto(p, "lookup")
        /\ task' = [task EXCEPT ![p] = "use"]
     \/ /\ \/ pc[p] = "failed"
           \/ pc[p] = "closing" /\ task[p] = "use"
        /\ Goto(p, "idle")
        /\ UNCHANGED task
     \/ /\ pc[p] = "closing" /\ task[p] = "use"
        /\ kind # "restore" /\ p \in Jobs
        /\ Goto(p, "shut")
        /\ UNCHANGED task
  /\ UNCHANGED <<kind, entries, reg, file, ref>>

\* CloseDb(): look the entry up ...
CloseDbLookup(p) ==
  /\ pc[p] = "shut"
  /\ Goto(p, "shutGate")
  /\ ref' = [ref EXCEPT ![p] = reg]
  /\ UNCHANGED <<kind, entries, reg, file, task>>

\* ... take its gate, so that no one can open the database ...
CloseDbGate(p) ==
  /\ pc[p] = "shutGate"
  /\ entries[ref[p]].free
  /\ entries' = [entries EXCEPT ![ref[p]] = GetLock(@)]
  /\ Goto(p, "draining")
  /\ UNCHANGED <<kind, reg, file, ref, task>>

\* Mutated form: the gate is released, as with $releaseLock == true.
CloseDbDrained_Released(p) ==
  /\ pc[p] = "draining"
  /\ entries[ref[p]].clients = 0
  /\ entries' = [entries EXCEPT ![ref[p]] = ReleaseLock(@)]
  /\ Goto(p, "copying")
  /\ UNCHANGED <<kind, reg, file, ref, task>>

\* ... and poll until no client is counted; the gate is kept.
CloseDbDrained(p) ==
  /\ pc[p] = "draining"
  /\ entries[ref[p]].clients = 0
  /\ Goto(p, "copying")
  /\ UNCHANGED <<kind, entries, reg, file, ref, task>>

\* The copy is uploaded; UnlockDb() releases the gate of the entry the map
\* points to, and the job reopens the database.
UnlockDb(p) ==
  /\ pc[p] = "copying"
  /\ entries' = [entries EXCEPT ![reg] = ReleaseLock(@)]
  /\ Goto(p, "lookup")
  /\ UNCHANGED <<kind, reg, file, ref, task>>

-----------------------------------------------------------------------------

Open(p) ==
  \/ OpenDbLookup(p) \/ OpenDbGate(p) \/ OpenDbFile(p)
  \/ OpenDbFirst(p) \/ OpenDbRegister(p)

Leave(p) == CreateDb(p) \/ Disconnect(p) \/ CloseHandle(p)

Copy(p) ==
  CloseDbLookup(p) \/ CloseDbGate(p) \/ CloseDbDrained(p) \/ UnlockDb(p)

Next ==
  \/ \E p \in Jobs : Start(p)
  \/ \E p \in Readers : Report(p) \/ OpenDbTimeout(p)
  \/ \E p \in Procs : Open(p) \/ Leave(p)
  \/ \E p \in Jobs : Copy(p)

(***************************************************************************)
(* A goroutine that can run does run.  Strong fairness at the two gates:   *)
(* goroutines blocked in a receive are served first in, first out by the   *)
(* Go runtime, so one that is released again and again cannot pass one     *)
(* waiter over for ever.  Nobody has to start a new request.               *)
(***************************************************************************)
Fairness ==
  /\ \A p \in Procs :
       /\ WF_vars(OpenDbLookup(p) \/ OpenDbFile(p) \/ OpenDbFirst(p) \/ OpenDbRegister(p))
       /\ SF_vars(OpenDbGate(p))
       /\ WF_vars(Leave(p))
  /\ \A p \in Jobs :
       /\ WF_vars(CloseDbLookup(p) \/ CloseDbDrained(p) \/ UnlockDb(p))
       /\ SF_vars(CloseDbGate(p))

Spec == Init /\ [][Next]_vars

FairSpec == Spec /\ Fairness

-----------------------------------------------------------------------------
(* Properties.                                                             *)

HoldsGate(p) == pc[p] \in {"opening", "draining", "copying"}

\* A goroutine that has to be counted: from the increment in OpenDb to the
\* decrement in DisconnectFromDb.
Connected == {p \in Procs : pc[p] \in {"opening", "open"}}

\* The gate of an entry is a mutual exclusion lock: two goroutines that hold
\* the gate of the same entry (OpenDb between GetLock and ReleaseLock, CloseDb
\* and the copy between GetLock and UnlockDb) are one.
GateExclusive ==
  \A p, q \in Procs : HoldsGate(p) /\ HoldsGate(q) /\ ref[p] = ref[q] => p = q

\* NumClients is the "number of connected clients to this Database"
\* (shared/structs_dbops.go): what CloseDb polls is what it wants to know, as far
\* as the database was known at start-up.
CountExact ==
  kind = "backup" => entries[reg].clients = Cardinality(Connected)

\* While a job copies the database file no other goroutine is connected or
\* between taking the gate and being connected.
CopyExclusive ==
  \A p \in Jobs : pc[p] = "copying" => Connected = {}

\* A goroutine that wants the database gets it, gives up or is refused; it
\* does not wait at the gate for ever.
OpenersServed ==
  \A p \in Procs : pc[p] = "gate" ~> pc[p] # "gate"

=============================================================================
