--------------------------- MODULE DbAccessProofs ---------------------------
(***************************************************************************)
(* Theorems about DbAccess for any number of jobs and report handlers.     *)
(***************************************************************************)
EXTENDS DbAccess, FiniteSetTheorems, TLAPS

\* At a gate or holding it, in OpenDb() or in CloseDb().
AtEntry == {"gate", "opening", "shutGate", "draining", "copying"}

\* The name has an entry since before this point of OpenDb().
Entered == AtEntry \cup {"open", "closing", "shut"}

Copying == {"shut", "shutGate", "draining", "copying"}

-----------------------------------------------------------------------------
(* The invariant, in parts. *)

\* A database known at start-up has one entry, and everybody uses it; only backups are
\* copied, and only by jobs.
EntryOK ==
  /\ \A p \in Procs : pc[p] \in AtEntry => ref[p] # 0
  /\ \A p \in Procs : pc[p] \in Entered => reg # 0
  /\ \A p \in Procs : pc[p] \in Copying => kind # "restore" /\ p \in Jobs
  /\ kind = "backup" => /\ Len(entries) = 1 /\ reg = 1
                        /\ \A p \in Procs : pc[p] \notin {"firstOpen", "register"}

\* Whoever holds the gate of an entry has closed it, and is alone.
GateOK ==
  kind # "added" =>
    /\ \A p \in Procs : HoldsGate(p) => ~entries[ref[p]].free
    /\ GateExclusive

\* While one copies, nobody is connected.
CopyOK ==
  kind # "added" => \A p \in Procs : pc[p] = "copying" => Connected = {}

Inv == TypeOK /\ EntryOK /\ GateOK /\ CountExact /\ CopyOK

-----------------------------------------------------------------------------
(* Entries and goroutines. *)

\* What the operations on an entry do to its gate and its counter.
LEMMA EntryFields ==
  ASSUME NEW e \in Entry
  PROVE  /\ GetLock(e) \in Entry /\ GetLock(e).free = FALSE /\ GetLock(e).clients = e.clients
         /\ ReleaseLock(e) \in Entry /\ ReleaseLock(e).free = TRUE
         /\ ReleaseLock(e).clients = e.clients
         /\ AddClient(e) \in Entry /\ AddClient(e).free = e.free
         /\ AddClient(e).clients = (e.clients + 1) % Modulus
         /\ DropClient(e) \in Entry /\ DropClient(e).free = e.free
         /\ DropClient(e).clients = (e.clients + Modulus - 1) % Modulus
<1>1. /\ (e.clients + 1) % Modulus \in 0 .. Modulus - 1
      /\ (e.clients + Modulus - 1) % Modulus \in 0 .. Modulus - 1
  BY ModulusAssumption DEF Entry
<1>2. GetLock(e) \in Entry /\ GetLock(e).free = FALSE /\ GetLock(e).clients = e.clients
  BY DEF Entry, GetLock
<1>3. ReleaseLock(e) \in Entry /\ ReleaseLock(e).free = TRUE /\ ReleaseLock(e).clients = e.clients
  BY DEF Entry, ReleaseLock
<1>4. /\ AddClient(e) \in Entry /\ AddClient(e).free = e.free
      /\ AddClient(e).clients = (e.clients + 1) % Modulus
  BY <1>1 DEF Entry, AddClient
<1>5. /\ DropClient(e) \in Entry /\ DropClient(e).free = e.free
      /\ DropClient(e).clients = (e.clients + Modulus - 1) % Modulus
  BY <1>1 DEF Entry, DropClient
<1> QED BY <1>2, <1>3, <1>4, <1>5

\* The counter counts as long as it does not wrap.
LEMMA Counting ==
  ASSUME NEW n \in Nat
  PROVE  /\ n + 1 < Modulus => (n + 1) % Modulus = n + 1
         /\ n < Modulus /\ n > 0 => (n + Modulus - 1) % Modulus = n - 1
<1>1. n + 1 < Modulus => (n + 1) % Modulus = n + 1 BY ModulusAssumption
<1>2. ASSUME n < Modulus, n > 0 PROVE (n + Modulus - 1) % Modulus = n - 1
  BY <1>2, ModulusAssumption
<1> QED BY <1>1, <1>2

\* A change of entry i.
LEMMA Changed ==
  ASSUME entries \in Seq(Entry), NEW i \in 0 .. Len(entries), NEW e, i # 0 => e \in Entry,
         entries' = [entries EXCEPT ![i] = e]
  PROVE  /\ entries' \in Seq(Entry) /\ Len(entries') = Len(entries)
         /\ \A j \in 1 .. Len(entries) : entries'[j] = IF j = i THEN e ELSE entries[j]
<1>1. CASE i = 0
  <2>1. entries' = entries BY <1>1
  <2>2. \A j \in 1 .. Len(entries) : j # i BY <1>1
  <2> QED BY <2>1, <2>2
<1>2. CASE i # 0 BY <1>2
<1> QED BY <1>1, <1>2

\* A change of an entry keeps their number.
LEMMA LengthKept ==
  ASSUME entries \in Seq(Entry), NEW i, NEW e, entries' = [entries EXCEPT ![i] = e]
  PROVE  Len(entries') = Len(entries)
  OBVIOUS

\* Goroutine p goes to l.
LEMMA Moved ==
  ASSUME TypeOK, NEW p \in Procs, NEW l \in PCs, Goto(p, l)
  PROVE  /\ pc' \in [Procs -> PCs] /\ pc'[p] = l
         /\ \A q \in Procs : q # p => pc'[q] = pc[q]
  BY DEF TypeOK, Goto

\* Who is connected after a step of goroutine p.
LEMMA ConnectedMoves ==
  ASSUME TypeOK, NEW p \in Procs, NEW l \in PCs, Goto(p, l)
  PROVE  /\ (p \in Connected <=> l \in {"opening", "open"}) => Connected' = Connected
         /\ l \in {"opening", "open"} => Connected' = Connected \cup {p}
         /\ l \notin {"opening", "open"} => Connected' = Connected \ {p}
<1>1. \A q \in Procs : q \in Connected' <=> IF q = p THEN l \in {"opening", "open"} ELSE q \in Connected
  BY Moved DEF Connected
<1>2. Connected \subseteq Procs /\ Connected' \subseteq Procs BY DEF Connected
<1> QED BY <1>1, <1>2

\* The connected goroutines can be counted, without the counter ever wrapping.
LEMMA ConnectedFinite ==
  /\ IsFiniteSet(Connected) /\ Cardinality(Connected) \in Nat
  /\ Cardinality(Connected) < Modulus
  /\ \A p \in Procs \ Connected : Cardinality(Connected) + 1 < Modulus
<1>1. IsFiniteSet(Procs) BY DbAccessAssumption, FS_Union DEF Procs
<1>2. Connected \subseteq Procs BY DEF Connected
<1>3. IsFiniteSet(Connected) BY <1>1, <1>2, FS_Subset
<1>4. Cardinality(Connected) \in Nat /\ Cardinality(Procs) \in Nat BY <1>1, <1>3, FS_CardinalityType
<1>5. Cardinality(Connected) <= Cardinality(Procs) BY <1>1, <1>2, FS_Subset
<1>6. Cardinality(Procs) < Modulus BY DbAccessAssumption DEF Procs
<1>7. ASSUME NEW p \in Procs \ Connected PROVE Cardinality(Connected) + 1 < Modulus
  <2>1. Connected \cup {p} \subseteq Procs BY <1>2
  <2>2. Cardinality(Connected \cup {p}) <= Cardinality(Procs) BY <1>1, <2>1, FS_Subset
  <2>3. Cardinality(Connected \cup {p}) = Cardinality(Connected) + 1 BY <1>3, FS_AddElement
  <2> QED BY <1>4, <1>6, <2>2, <2>3, ModulusAssumption
<1> QED BY <1>3, <1>4, <1>5, <1>6, <1>7, ModulusAssumption

-----------------------------------------------------------------------------
\* What the actions may do, by name.
LEMMA Steps ==
  ASSUME [Next]_vars
  PROVE  \/ \E p \in Procs :
              \/ Start(p) \/ Report(p) \/ OpenDbTimeout(p)
              \/ OpenDbLookup(p) \/ OpenDbGate(p) \/ OpenDbFile(p) \/ OpenDbFirst(p)
              \/ OpenDbRegister(p) \/ CreateDb(p) \/ Disconnect(p) \/ CloseHandle(p)
         \/ \E p \in Jobs : CloseDbLookup(p) \/ CloseDbGate(p) \/ CloseDbDrained(p) \/ UnlockDb(p)
         \/ UNCHANGED vars
  BY DEF Next, Open, Leave, Copy, Procs

\* Every action leaves every variable of its type: the operations of OpenDb, CloseDb,
\* DisconnectFromDb, UnlockDb and CreateDb.
LEMMA TypeStep == ASSUME TypeOK, EntryOK, [Next]_vars PROVE TypeOK'
<1> USE DEF TypeOK
<1>0. \A i \in 0 .. Len(entries) : i # 0 => entries[i] \in Entry OBVIOUS
<1>1. ASSUME NEW p \in Procs, NEW l \in PCs, Goto(p, l) PROVE pc' \in [Procs -> PCs]
  BY <1>1, Moved
<1>2. ASSUME NEW i \in 0 .. Len(entries), NEW e, i # 0 => e \in Entry,
             entries' = [entries EXCEPT ![i] = e]
      PROVE  entries' \in Seq(Entry) /\ Len(entries') = Len(entries)
  BY <1>2, Changed
<1>3. ASSUME NEW p \in Procs, Start(p) \/ Report(p) \/ OpenDbTimeout(p) PROVE TypeOK'
  BY <1>1, <1>3 DEF Start, Report, OpenDbTimeout, PCs
<1>4. ASSUME NEW p \in Procs, OpenDbLookup(p) PROVE TypeOK'
  BY <1>1, <1>4 DEF OpenDbLookup, PCs
<1>5. ASSUME NEW p \in Procs, OpenDbGate(p) PROVE TypeOK'
  <2>1. ref[p] \in 0 .. Len(entries) OBVIOUS
  <2>2. ref[p] # 0 => AddClient(GetLock(entries[ref[p]])) \in Entry BY <1>0, <2>1, EntryFields
  <2>3. entries' \in Seq(Entry) /\ Len(entries') = Len(entries)
    BY <1>2, <1>5, <2>1, <2>2 DEF OpenDbGate
  <2> QED BY <1>1, <1>5, <2>3 DEF OpenDbGate, PCs
<1>6. ASSUME NEW p \in Procs, OpenDbFile(p) PROVE TypeOK'
  <2>1. ref[p] \in 0 .. Len(entries) OBVIOUS
  <2>2. ref[p] # 0 => /\ ReleaseLock(entries[ref[p]]) \in Entry
                      /\ ReleaseLock(DropClient(entries[ref[p]])) \in Entry
    BY <1>0, <2>1, EntryFields
  <2>3. entries' \in Seq(Entry) /\ Len(entries') = Len(entries)
    BY <1>2, <1>6, <2>1, <2>2 DEF OpenDbFile
  <2>4. pc' \in [Procs -> PCs] BY <1>1, <1>6 DEF OpenDbFile, PCs
  <2> QED BY <1>6, <2>3, <2>4 DEF OpenDbFile, OpenedFor, Opened
<1>7. ASSUME NEW p \in Procs, OpenDbFirst(p) PROVE TypeOK'
  <2>1. pc' \in [Procs -> PCs] BY <1>1, <1>7 DEF OpenDbFirst, PCs
  <2> QED BY <1>7, <2>1 DEF OpenDbFirst, OpenedFor, Opened
<1>8. ASSUME NEW p \in Procs, OpenDbRegister(p) PROVE TypeOK'
  <2>1. NewEntry \in Entry
    <3>1. CASE Modulus > 1 BY <3>1, ModulusAssumption DEF NewEntry, Entry
    <3>2. CASE Modulus = 1
      <4>1. p \in Procs /\ IsFiniteSet(Procs) BY DbAccessAssumption, FS_Union DEF Procs
      <4>2. Cardinality({p}) <= Cardinality(Procs) BY <4>1, FS_Subset
      <4>3. Cardinality({p}) = 1 BY FS_Singleton
      <4>4. Cardinality(Procs) < 1 /\ Cardinality(Procs) \in Nat
        BY <3>2, <4>1, DbAccessAssumption, FS_CardinalityType DEF Procs
      <4> QED BY <4>2, <4>3, <4>4
    <3> QED BY <3>1, <3>2, ModulusAssumption
  <2>2. entries' \in Seq(Entry) /\ Len(entries') = Len(entries) + 1
    BY <1>8, <2>1 DEF OpenDbRegister
  <2>3. pc' \in [Procs -> PCs] BY <1>1, <1>8 DEF OpenDbRegister, PCs
  <2> QED BY <1>8, <2>2, <2>3 DEF OpenDbRegister
<1>9. ASSUME NEW p \in Procs, CreateDb(p) PROVE TypeOK'
  <2>1. reg # 0 => DropClient(entries[reg]) \in Entry BY <1>0, EntryFields
  <2>2. entries' \in Seq(Entry) /\ Len(entries') = Len(entries)
    BY <1>2, <1>9, <2>1 DEF CreateDb
  <2>3. pc' \in [Procs -> PCs] BY <1>1, <1>9 DEF CreateDb, PCs
  <2> QED BY <1>9, <2>2, <2>3 DEF CreateDb, AfterFailure, Opened
<1>10. ASSUME NEW p \in Procs, Disconnect(p) PROVE TypeOK'
  <2>1. reg # 0 => DropClient(entries[reg]) \in Entry BY <1>0, EntryFields
  <2>2. entries' \in Seq(Entry) /\ Len(entries') = Len(entries)
    BY <1>2, <1>10, <2>1 DEF Disconnect
  <2> QED BY <1>1, <1>10, <2>2 DEF Disconnect, PCs
<1>11. ASSUME NEW p \in Procs, CloseHandle(p) PROVE TypeOK'
  <2>1. pc' \in [Procs -> PCs] BY <1>1, <1>11 DEF CloseHandle, PCs
  <2> QED BY <1>11, <2>1 DEF CloseHandle
<1>12. ASSUME NEW p \in Procs, CloseDbLookup(p) PROVE TypeOK'
  BY <1>1, <1>12 DEF CloseDbLookup, PCs
<1>13. ASSUME NEW p \in Procs, CloseDbGate(p) PROVE TypeOK'
  <2>1. ref[p] \in 0 .. Len(entries) OBVIOUS
  <2>2. ref[p] # 0 => GetLock(entries[ref[p]]) \in Entry BY <1>0, <2>1, EntryFields
  <2>3. entries' \in Seq(Entry) /\ Len(entries') = Len(entries)
    BY <1>2, <1>13, <2>1, <2>2 DEF CloseDbGate
  <2> QED BY <1>1, <1>13, <2>3 DEF CloseDbGate, PCs
<1>14. ASSUME NEW p \in Procs, CloseDbDrained(p) PROVE TypeOK'
  BY <1>1, <1>14 DEF CloseDbDrained, PCs
<1>15. ASSUME NEW p \in Procs, UnlockDb(p) PROVE TypeOK'
  <2>1. reg # 0 => ReleaseLock(entries[reg]) \in Entry BY <1>0, EntryFields
  <2>2. entries' \in Seq(Entry) /\ Len(entries') = Len(entries)
    BY <1>2, <1>15, <2>1 DEF UnlockDb
  <2> QED BY <1>1, <1>15, <2>2 DEF UnlockDb, PCs
<1>16. CASE UNCHANGED vars BY <1>16 DEF vars
<1> QED BY Steps, <1>3, <1>4, <1>5, <1>6, <1>7, <1>8, <1>9, <1>10, <1>11, <1>12, <1>13, <1>14,
           <1>15, <1>16 DEF Procs

\* A database known at start-up keeps its one entry, and only jobs of backups copy.
LEMMA EntryStep == ASSUME TypeOK, EntryOK, [Next]_vars PROVE EntryOK'
<1>0. kind' = kind
  BY Steps DEF vars, Start, Report, OpenDbTimeout, OpenDbLookup, OpenDbGate, OpenDbFile, OpenDbFirst,
     OpenDbRegister, CreateDb, Disconnect, CloseHandle, CloseDbLookup, CloseDbGate, CloseDbDrained,
     UnlockDb
<1>1. ASSUME NEW p \in Procs, NEW l \in PCs, Goto(p, l), ref' = ref, reg' = reg,
             Len(entries') = Len(entries), l \notin {"firstOpen", "register"},
             l \in AtEntry => pc[p] \in AtEntry, l \in Entered => pc[p] \in Entered,
             l \in Copying => kind # "restore" /\ p \in Jobs
      PROVE  EntryOK'
  <2>1. pc'[p] = l /\ \A q \in Procs : q # p => pc'[q] = pc[q] BY <1>1, Moved
  <2> QED BY <1>0, <1>1, <2>1 DEF EntryOK
<1>2. ASSUME NEW p \in Procs, Start(p) \/ Report(p) \/ OpenDbTimeout(p) PROVE EntryOK'
  BY <1>1, <1>2 DEF Start, Report, OpenDbTimeout, PCs, AtEntry, Entered, Copying
<1>3. ASSUME NEW p \in Procs, OpenDbLookup(p) PROVE EntryOK'
  <2>1. /\ pc'[p] = IF reg = 0 THEN "firstOpen" ELSE "gate"
        /\ \A q \in Procs : q # p => pc'[q] = pc[q]
    BY <1>3, Moved DEF OpenDbLookup, PCs
  <2>2. ref'[p] = reg /\ \A q \in Procs : q # p => ref'[q] = ref[q] BY <1>3 DEF OpenDbLookup, TypeOK
  <2>3. reg' = reg /\ entries' = entries BY <1>3 DEF OpenDbLookup
  <2> QED BY <1>0, <2>1, <2>2, <2>3 DEF EntryOK, AtEntry, Entered, Copying
<1>4. ASSUME NEW p \in Procs, OpenDbGate(p) PROVE EntryOK'
  <2>1. Len(entries') = Len(entries) BY <1>4, LengthKept DEF TypeOK, OpenDbGate
  <2> QED BY <1>1, <1>4, <2>1 DEF OpenDbGate, PCs, AtEntry, Entered, Copying
<1>5. ASSUME NEW p \in Procs, OpenDbFile(p) PROVE EntryOK'
  <2>1. Len(entries') = Len(entries) BY <1>5, LengthKept DEF TypeOK, OpenDbFile
  <2> QED BY <1>1, <1>5, <2>1 DEF OpenDbFile, PCs, AtEntry, Entered, Copying
<1>6. ASSUME NEW p \in Procs, OpenDbFirst(p) PROVE EntryOK'
  <2>1. pc'[p] \in {"register", "idle"} /\ \A q \in Procs : q # p => pc'[q] = pc[q]
    BY <1>6, Moved DEF OpenDbFirst, PCs
  <2>2. reg' = reg /\ entries' = entries /\ ref' = ref /\ pc[p] = "firstOpen"
    BY <1>6 DEF OpenDbFirst
  <2> QED BY <1>0, <2>1, <2>2 DEF EntryOK, AtEntry, Entered, Copying
<1>7. ASSUME NEW p \in Procs, OpenDbRegister(p) PROVE EntryOK'
  <2>1. pc'[p] = "open" /\ \A q \in Procs : q # p => pc'[q] = pc[q]
    BY <1>7, Moved DEF OpenDbRegister, PCs
  <2>2. ref' = ref /\ pc[p] = "register" /\ reg' # 0 BY <1>7 DEF OpenDbRegister, TypeOK
  <2> QED BY <1>0, <2>1, <2>2 DEF EntryOK, AtEntry, Entered, Copying
<1>8. ASSUME NEW p \in Procs, CreateDb(p) PROVE EntryOK'
  <2>1. Len(entries') = Len(entries) BY <1>8, LengthKept DEF TypeOK, CreateDb
  <2> QED BY <1>1, <1>8, <2>1 DEF CreateDb, PCs, AtEntry, Entered, Copying
<1>9. ASSUME NEW p \in Procs, Disconnect(p) PROVE EntryOK'
  <2>1. Len(entries') = Len(entries) BY <1>9, LengthKept DEF TypeOK, Disconnect
  <2> QED BY <1>1, <1>9, <2>1 DEF Disconnect, PCs, AtEntry, Entered, Copying
<1>10. ASSUME NEW p \in Procs, CloseHandle(p) PROVE EntryOK'
  BY <1>1, <1>10 DEF CloseHandle, PCs, AtEntry, Entered, Copying
<1>11. ASSUME NEW p \in Procs, CloseDbLookup(p) PROVE EntryOK'
  <2>1. pc'[p] = "shutGate" /\ \A q \in Procs : q # p => pc'[q] = pc[q]
    BY <1>11, Moved DEF CloseDbLookup, PCs
  <2>2. ref'[p] = reg /\ \A q \in Procs : q # p => ref'[q] = ref[q] BY <1>11 DEF CloseDbLookup, TypeOK
  <2>3. reg' = reg /\ entries' = entries /\ pc[p] = "shut" BY <1>11 DEF CloseDbLookup
  <2> QED BY <1>0, <2>1, <2>2, <2>3 DEF EntryOK, AtEntry, Entered, Copying
<1>12. ASSUME NEW p \in Procs, CloseDbGate(p) PROVE EntryOK'
  <2>1. Len(entries') = Len(entries) BY <1>12, LengthKept DEF TypeOK, CloseDbGate
  <2> QED BY <1>1, <1>12, <2>1 DEF CloseDbGate, PCs, AtEntry, Entered, Copying, EntryOK
<1>13. ASSUME NEW p \in Procs, CloseDbDrained(p) PROVE EntryOK'
  BY <1>1, <1>13 DEF CloseDbDrained, PCs, AtEntry, Entered, Copying, EntryOK
<1>14. ASSUME NEW p \in Procs, UnlockDb(p) PROVE EntryOK'
  <2>1. Len(entries') = Len(entries) BY <1>14, LengthKept DEF TypeOK, UnlockDb
  <2> QED BY <1>1, <1>14, <2>1 DEF UnlockDb, PCs, AtEntry, Entered, Copying
<1>15. CASE UNCHANGED vars BY <1>15 DEF vars, EntryOK
<1> QED BY Steps, <1>2, <1>3, <1>4, <1>5, <1>6, <1>7, <1>8, <1>9, <1>10, <1>11, <1>12, <1>13,
           <1>14, <1>15 DEF Procs

\* In OpenDb() and CloseDb() a gate is closed by whoever takes it and opened by nobody else.
LEMMA GateStep == ASSUME TypeOK, EntryOK, GateOK, [Next]_vars PROVE GateOK'
<1>0. kind' = kind
  BY Steps DEF vars, Start, Report, OpenDbTimeout, OpenDbLookup, OpenDbGate, OpenDbFile, OpenDbFirst,
     OpenDbRegister, CreateDb, Disconnect, CloseHandle, CloseDbLookup, CloseDbGate, CloseDbDrained,
     UnlockDb
<1> SUFFICES ASSUME kind # "added"
             PROVE  (\A p \in Procs : HoldsGate(p) => ~entries[ref[p]].free)' /\ GateExclusive'
  BY <1>0 DEF GateOK
<1> DEFINE Goal == (\A p \in Procs : HoldsGate(p) => ~entries[ref[p]].free)' /\ GateExclusive'
           Holding == {"opening", "draining", "copying"}
<1>a. \A p \in Procs : HoldsGate(p) => ~entries[ref[p]].free /\ ref[p] \in 1 .. Len(entries)
  BY DEF GateOK, HoldsGate, EntryOK, AtEntry, TypeOK
<1>b. GateExclusive BY DEF GateOK
<1>c. \A i \in 1 .. Len(entries) : entries[i] \in Entry BY DEF TypeOK
<1>1. ASSUME NEW p \in Procs, NEW l \in PCs, Goto(p, l), l \in Holding => HoldsGate(p) /\ ref' = ref,
             \A q \in Procs \ {p} : ref'[q] = ref[q],
             \A q \in Procs : HoldsGate(q) /\ (q = p => l \in Holding) => ~entries'[ref[q]].free
      PROVE  Goal
  <2>1. pc'[p] = l /\ \A q \in Procs : q # p => pc'[q] = pc[q] BY <1>1, Moved
  <2>2. \A q \in Procs : HoldsGate(q)' <=> IF q = p THEN l \in Holding ELSE HoldsGate(q)
    BY <2>1 DEF HoldsGate
  <2>3. \A q \in Procs : HoldsGate(q)' => HoldsGate(q) /\ ref'[q] = ref[q] BY <1>1, <2>2
  <2>4. \A q \in Procs : HoldsGate(q)' => ~entries'[ref'[q]].free BY <1>1, <2>2, <2>3
  <2> QED BY <1>b, <2>3, <2>4 DEF GateExclusive
<1>2. ASSUME NEW p \in Procs, NEW l \in Holding, Goto(p, l), entries[ref[p]].free, ref' = ref,
             ref[p] \in 1 .. Len(entries), NEW e \in Entry, ~e.free,
             entries' = [entries EXCEPT ![ref[p]] = e]
      PROVE  Goal
  <2>1. l \in PCs BY DEF PCs
  <2>2. pc'[p] = l /\ \A q \in Procs : q # p => pc'[q] = pc[q] BY <1>2, <2>1, Moved
  <2>3. \A i \in 1 .. Len(entries) : entries'[i] = IF i = ref[p] THEN e ELSE entries[i]
    BY <1>2, Changed DEF TypeOK
  <2>4. \A q \in Procs : q # p => (HoldsGate(q)' <=> HoldsGate(q)) BY <2>2 DEF HoldsGate
  <2>5. \A q \in Procs : HoldsGate(q) => ref[q] # ref[p] BY <1>2, <1>a
  <2>6. ASSUME NEW q \in Procs, HoldsGate(q)' PROVE ~entries'[ref[q]].free
    <3>1. CASE q = p BY <1>2, <2>3, <3>1
    <3>2. CASE q # p BY <1>a, <2>3, <2>4, <2>5, <2>6, <3>2
    <3> QED BY <3>1, <3>2
  <2>7. ASSUME NEW q \in Procs, NEW r \in Procs, HoldsGate(q)', HoldsGate(r)', ref[q] = ref[r]
        PROVE  q = r
    BY <1>b, <2>4, <2>5, <2>7 DEF GateExclusive
  <2> QED BY <1>2, <2>6, <2>7 DEF GateExclusive
<1>3. ASSUME NEW i \in 0 .. Len(entries), NEW e, i # 0 => e \in Entry /\ (~entries[i].free => ~e.free),
             entries' = [entries EXCEPT ![i] = e]
      PROVE  \A q \in Procs : HoldsGate(q) => ~entries'[ref[q]].free
  <2>1. \A j \in 1 .. Len(entries) : entries'[j] = IF j = i THEN e ELSE entries[j]
    BY <1>3, Changed DEF TypeOK
  <2> QED BY <1>3, <1>a, <2>1
<1>4. ASSUME NEW p \in Procs, NEW l \in PCs \ Holding, Goto(p, l), HoldsGate(p), NEW e \in Entry,
             entries' = [entries EXCEPT ![ref[p]] = e], ref' = ref
      PROVE  Goal
  <2>1. ref[p] \in 0 .. Len(entries) BY <1>4, <1>a
  <2>2. \A j \in 1 .. Len(entries) : entries'[j] = IF j = ref[p] THEN e ELSE entries[j]
    BY <1>4, <2>1, Changed DEF TypeOK
  <2>3. \A q \in Procs : HoldsGate(q) /\ q # p => ref[q] # ref[p] BY <1>4, <1>b DEF GateExclusive
  <2>4. \A q \in Procs : HoldsGate(q) /\ q # p => ~entries'[ref[q]].free BY <1>a, <2>2, <2>3
  <2> QED BY <1>1, <1>4, <2>4
<1> USE DEF PCs, HoldsGate
<1> HIDE DEF Goal
<1>5. ASSUME NEW p \in Procs, Start(p) \/ Report(p) \/ OpenDbTimeout(p) PROVE Goal
  BY <1>1, <1>5, <1>a DEF Start, Report, OpenDbTimeout
<1>6. ASSUME NEW p \in Procs, OpenDbLookup(p) PROVE Goal
  <2>1. \A q \in Procs \ {p} : ref'[q] = ref[q] BY <1>6 DEF OpenDbLookup, TypeOK
  <2> QED BY <1>1, <1>6, <1>a, <2>1 DEF OpenDbLookup
<1>7. ASSUME NEW p \in Procs, OpenDbGate(p) PROVE Goal
  <2> DEFINE e == AddClient(GetLock(entries[ref[p]]))
  <2>1. ref[p] \in 1 .. Len(entries) BY <1>7 DEF OpenDbGate, EntryOK, AtEntry, TypeOK
  <2>2. e \in Entry /\ ~e.free BY <1>c, <2>1, EntryFields
  <2>3. entries' = [entries EXCEPT ![ref[p]] = e] /\ entries[ref[p]].free /\ ref' = ref
    BY <1>7 DEF OpenDbGate
  <2> HIDE DEF e
  <2> QED BY <1>2, <1>7, <2>1, <2>2, <2>3 DEF OpenDbGate
<1>8. ASSUME NEW p \in Procs, OpenDbFile(p) PROVE Goal
  <2> DEFINE e1 == ReleaseLock(entries[ref[p]])
             e2 == ReleaseLock(DropClient(entries[ref[p]]))
  <2>1. HoldsGate(p) BY <1>8 DEF OpenDbFile
  <2>2. e1 \in Entry /\ e2 \in Entry BY <1>a, <1>c, <2>1, EntryFields
  <2>3. /\ ref' = ref
        /\ \/ Goto(p, "open") /\ entries' = [entries EXCEPT ![ref[p]] = e1]
           \/ Goto(p, "idle") /\ entries' = [entries EXCEPT ![ref[p]] = e2]
    BY <1>8 DEF OpenDbFile
  <2> HIDE DEF e1, e2
  <2> QED BY <1>4, <2>1, <2>2, <2>3
<1>9. ASSUME NEW p \in Procs, OpenDbFirst(p) PROVE Goal
  BY <1>1, <1>9, <1>a DEF OpenDbFirst
<1>10. ASSUME NEW p \in Procs, OpenDbRegister(p) PROVE Goal
  <2>1. \A i \in 1 .. Len(entries) : entries'[i] = entries[i] BY <1>10 DEF OpenDbRegister, TypeOK
  <2>2. \A q \in Procs : HoldsGate(q) => ~entries'[ref[q]].free BY <1>a, <2>1
  <2> QED BY <1>1, <1>10, <2>2 DEF OpenDbRegister
<1>11. ASSUME NEW p \in Procs, CreateDb(p) \/ Disconnect(p) PROVE Goal
  <2> DEFINE e == DropClient(entries[reg])
  <2>1. reg \in 0 .. Len(entries) BY DEF TypeOK
  <2>2. ASSUME reg # 0 PROVE e \in Entry /\ (~entries[reg].free => ~e.free)
    <3>1. entries[reg] \in Entry BY <1>c, <2>1, <2>2 DEF TypeOK
    <3>2. e \in Entry /\ e.free = entries[reg].free BY <3>1, EntryFields
    <3> QED BY <3>2
  <2>3. entries' = [entries EXCEPT ![reg] = e] /\ ref' = ref BY <1>11 DEF CreateDb, Disconnect
  <2> HIDE DEF e
  <2>4. \A q \in Procs : HoldsGate(q) => ~entries'[ref[q]].free BY <1>3, <2>1, <2>2, <2>3
  <2>5. \E l \in {"closing", "failed"} : Goto(p, l) BY <1>11 DEF CreateDb, Disconnect
  <2> QED BY <1>1, <2>3, <2>4, <2>5
<1>12. ASSUME NEW p \in Procs, CloseHandle(p) PROVE Goal
  BY <1>1, <1>12, <1>a DEF CloseHandle
<1>13. ASSUME NEW p \in Procs, CloseDbLookup(p) PROVE Goal
  <2>1. \A q \in Procs \ {p} : ref'[q] = ref[q] BY <1>13 DEF CloseDbLookup, TypeOK
  <2> QED BY <1>1, <1>13, <1>a, <2>1 DEF CloseDbLookup
<1>14. ASSUME NEW p \in Procs, CloseDbGate(p) PROVE Goal
  <2> DEFINE e == GetLock(entries[ref[p]])
  <2>1. ref[p] \in 1 .. Len(entries) BY <1>14 DEF CloseDbGate, EntryOK, AtEntry, TypeOK
  <2>2. e \in Entry /\ ~e.free BY <1>c, <2>1, EntryFields
  <2>3. entries' = [entries EXCEPT ![ref[p]] = e] /\ entries[ref[p]].free /\ ref' = ref
    BY <1>14 DEF CloseDbGate
  <2> HIDE DEF e
  <2> QED BY <1>2, <1>14, <2>1, <2>2, <2>3 DEF CloseDbGate
<1>15. ASSUME NEW p \in Procs, CloseDbDrained(p) PROVE Goal
  BY <1>1, <1>15, <1>a DEF CloseDbDrained
<1>16. ASSUME NEW p \in Procs, UnlockDb(p) PROVE Goal
  <2> DEFINE e == ReleaseLock(entries[ref[p]])
  <2>1. HoldsGate(p) /\ pc[p] = "copying" BY <1>16 DEF UnlockDb
  <2>2. kind = "backup" BY <2>1, DbAccessAssumption DEF EntryOK, Copying, TypeOK
  <2>3. ref[p] = reg
    <3>1. ref[p] \in 1 .. Len(entries) BY <1>a, <2>1
    <3>2. Len(entries) = 1 /\ reg = 1 BY <2>2 DEF EntryOK
    <3> QED BY <3>1, <3>2
  <2>4. e \in Entry BY <1>a, <1>c, <2>1, EntryFields
  <2>5. entries' = [entries EXCEPT ![ref[p]] = e] /\ ref' = ref BY <1>16, <2>3 DEF UnlockDb
  <2> HIDE DEF e
  <2> QED BY <1>4, <1>16, <2>1, <2>4, <2>5 DEF UnlockDb
<1>17. CASE UNCHANGED vars BY <1>17, <1>a, <1>b DEF vars, Goal, GateExclusive
<1> QED BY Steps, <1>5, <1>6, <1>7, <1>8, <1>9, <1>10, <1>11, <1>12, <1>13, <1>14, <1>15,
           <1>16, <1>17 DEF Procs, Goal

\* OpenDb() counts a client up before it is connected, and whoever takes the number back is
\* one that was counted (OpenDb, DisconnectFromDb).
LEMMA CountStep == ASSUME TypeOK, EntryOK, CountExact, [Next]_vars PROVE CountExact'
<1>0. kind' = kind
  BY Steps DEF vars, Start, Report, OpenDbTimeout, OpenDbLookup, OpenDbGate, OpenDbFile, OpenDbFirst,
     OpenDbRegister, CreateDb, Disconnect, CloseHandle, CloseDbLookup, CloseDbGate, CloseDbDrained,
     UnlockDb
<1> SUFFICES ASSUME kind = "backup" PROVE entries'[reg'].clients = Cardinality(Connected')
  BY <1>0 DEF CountExact
<1> DEFINE n == Cardinality(Connected)
           Goal == entries'[reg'].clients = Cardinality(Connected')
<1>a. Len(entries) = 1 /\ reg = 1 /\ \A p \in Procs : pc[p] \notin {"firstOpen", "register"}
  BY DEF EntryOK
<1>b. entries[1] \in Entry /\ entries[1].clients = n
  <2>1. entries[1] \in Entry
    <3>1. entries \in Seq(Entry) /\ Len(entries) = 1 BY <1>a DEF TypeOK
    <3> QED BY <3>1
  <2>2. entries[reg].clients = n BY DEF CountExact
  <2> QED BY <1>a, <2>1, <2>2
<1>c. \A p \in Procs : pc[p] \in AtEntry => ref[p] = 1
  <2>1. \A p \in Procs : ref[p] \in 0 .. 1 BY <1>a DEF TypeOK
  <2> QED BY <2>1 DEF EntryOK
<1>d. ASSUME NEW e \in Entry, entries' = [entries EXCEPT ![1] = e] PROVE entries'[1] = e
  BY <1>a, <1>d, Changed DEF TypeOK
<1>1. ASSUME NEW p \in Procs, NEW l \in PCs, Goto(p, l), p \in Connected <=> l \in {"opening", "open"},
             reg' = reg, entries'[1].clients = entries[1].clients
      PROVE  Goal
  BY <1>1, <1>a, <1>b, ConnectedMoves
<1>2. ASSUME NEW p \in Procs, NEW l \in PCs \ {"opening", "open"}, Goto(p, l), p \in Connected,
             reg' = reg, entries'[1].clients = (entries[1].clients + Modulus - 1) % Modulus
      PROVE  Goal
  <2>1. Connected' = Connected \ {p} BY <1>2, ConnectedMoves
  <2>2. Cardinality(Connected') = n - 1 BY <1>2, <2>1, ConnectedFinite, FS_RemoveElement
  <2>3. IsFiniteSet(Connected) /\ n \in Nat /\ n < Modulus BY ConnectedFinite
  <2>4. n > 0 BY <1>2, <2>3, FS_EmptySet
  <2>5. (n + Modulus - 1) % Modulus = n - 1 BY <2>3, <2>4, Counting
  <2> QED BY <1>2, <1>a, <1>b, <2>2, <2>5
<1> USE DEF PCs
<1> HIDE DEF Goal, n
<1>3. ASSUME NEW p \in Procs, Start(p) \/ Report(p) \/ OpenDbTimeout(p) PROVE Goal
  BY <1>1, <1>3 DEF Start, Report, OpenDbTimeout, Connected
<1>4. ASSUME NEW p \in Procs, OpenDbLookup(p) PROVE Goal
  BY <1>1, <1>4 DEF OpenDbLookup, Connected
<1>5. ASSUME NEW p \in Procs, OpenDbGate(p) PROVE Goal
  <2> DEFINE e == AddClient(GetLock(entries[1]))
  <2>1. ref[p] = 1 /\ p \notin Connected BY <1>5, <1>c DEF OpenDbGate, AtEntry, Connected
  <2>2. e \in Entry /\ e.clients = (n + 1) % Modulus
    <3>1. GetLock(entries[1]) \in Entry /\ GetLock(entries[1]).clients = n BY <1>b, EntryFields
    <3> QED BY <3>1, EntryFields
  <2>3. entries' = [entries EXCEPT ![1] = e] /\ reg' = reg BY <1>5, <2>1 DEF OpenDbGate
  <2> HIDE DEF e
  <2>4. entries'[1] = e BY <1>d, <2>2, <2>3
  <2>5. Connected' = Connected \cup {p} BY <1>5, ConnectedMoves DEF OpenDbGate
  <2>6. n \in Nat /\ n + 1 < Modulus /\ Cardinality(Connected') = n + 1
    BY <2>1, <2>5, ConnectedFinite, FS_AddElement DEF n
  <2>7. (n + 1) % Modulus = n + 1 BY <2>6, Counting
  <2> QED BY <1>a, <2>2, <2>3, <2>4, <2>6, <2>7 DEF Goal
<1>6. ASSUME NEW p \in Procs, OpenDbFile(p) PROVE Goal
  <2> DEFINE e1 == ReleaseLock(entries[1])
             e2 == ReleaseLock(DropClient(entries[1]))
  <2>1. ref[p] = 1 /\ p \in Connected /\ reg' = reg
    BY <1>6, <1>c DEF OpenDbFile, AtEntry, Connected
  <2>2. /\ e1 \in Entry /\ e1.clients = entries[1].clients
        /\ e2 \in Entry /\ e2.clients = (entries[1].clients + Modulus - 1) % Modulus
    BY <1>b, EntryFields
  <2>3. \/ Goto(p, "open") /\ entries' = [entries EXCEPT ![1] = e1]
        \/ Goto(p, "idle") /\ entries' = [entries EXCEPT ![1] = e2]
    BY <1>6, <2>1 DEF OpenDbFile
  <2> HIDE DEF e1, e2
  <2>4. CASE Goto(p, "open") /\ entries' = [entries EXCEPT ![1] = e1]
    <3>1. entries'[1] = e1 BY <1>d, <2>2, <2>4
    <3> QED BY <1>1, <2>1, <2>2, <2>4, <3>1
  <2>5. CASE Goto(p, "idle") /\ entries' = [entries EXCEPT ![1] = e2]
    <3>1. entries'[1] = e2 BY <1>d, <2>2, <2>5
    <3> QED BY <1>2, <2>1, <2>2, <2>5, <3>1
  <2> QED BY <2>3, <2>4, <2>5
<1>7. ASSUME NEW p \in Procs PROVE ~OpenDbFirst(p) /\ ~OpenDbRegister(p)
  BY <1>a DEF OpenDbFirst, OpenDbRegister
<1>8. ASSUME NEW p \in Procs, CreateDb(p) \/ Disconnect(p) PROVE Goal
  <2> DEFINE e == DropClient(entries[1])
  <2>1. e \in Entry /\ e.clients = (entries[1].clients + Modulus - 1) % Modulus
    BY <1>b, EntryFields
  <2>2. entries' = [entries EXCEPT ![1] = e] /\ reg' = reg BY <1>8, <1>a DEF CreateDb, Disconnect
  <2> HIDE DEF e
  <2>3. entries'[1] = e BY <1>d, <2>1, <2>2
  <2>4. p \in Connected /\ \E l \in {"closing", "failed"} : Goto(p, l)
    BY <1>8 DEF CreateDb, Disconnect, Connected
  <2> QED BY <1>2, <2>1, <2>2, <2>3, <2>4
<1>9. ASSUME NEW p \in Procs, CloseHandle(p) PROVE Goal
  BY <1>1, <1>9 DEF CloseHandle, Connected
<1>10. ASSUME NEW p \in Procs, CloseDbLookup(p) \/ CloseDbDrained(p) PROVE Goal
  BY <1>1, <1>10 DEF CloseDbLookup, CloseDbDrained, Connected
<1>11. ASSUME NEW p \in Procs, CloseDbGate(p) PROVE Goal
  <2> DEFINE e == GetLock(entries[1])
  <2>1. ref[p] = 1 /\ p \notin Connected BY <1>11, <1>c DEF CloseDbGate, AtEntry, Connected
  <2>2. e \in Entry /\ e.clients = entries[1].clients BY <1>b, EntryFields
  <2>3. entries' = [entries EXCEPT ![1] = e] /\ reg' = reg BY <1>11, <2>1 DEF CloseDbGate
  <2> HIDE DEF e
  <2>4. entries'[1] = e BY <1>d, <2>2, <2>3
  <2> QED BY <1>1, <1>11, <2>1, <2>2, <2>3, <2>4 DEF CloseDbGate
<1>12. ASSUME NEW p \in Procs, UnlockDb(p) PROVE Goal
  <2> DEFINE e == ReleaseLock(entries[1])
  <2>1. e \in Entry /\ e.clients = entries[1].clients BY <1>b, EntryFields
  <2>2. entries' = [entries EXCEPT ![1] = e] /\ reg' = reg BY <1>12, <1>a DEF UnlockDb
  <2> HIDE DEF e
  <2>3. entries'[1] = e BY <1>d, <2>1, <2>2
  <2> QED BY <1>1, <1>12, <2>1, <2>2, <2>3 DEF UnlockDb, Connected
<1>13. CASE UNCHANGED vars BY <1>13, <1>a, <1>b DEF vars, Goal, Connected, n
<1> QED BY Steps, <1>3, <1>4, <1>5, <1>6, <1>7, <1>8, <1>9, <1>10, <1>11, <1>12, <1>13
        DEF Procs, Goal

\* Who copies has waited until nobody is connected and holds the gate that whoever wants to
\* be has to pass (CloseDb, UnlockDb).
LEMMA CopyStep ==
  ASSUME TypeOK, EntryOK, GateOK, CountExact, CopyOK, [Next]_vars
  PROVE  CopyOK'
<1>0. kind' = kind
  BY Steps DEF vars, Start, Report, OpenDbTimeout, OpenDbLookup, OpenDbGate, OpenDbFile, OpenDbFirst,
     OpenDbRegister, CreateDb, Disconnect, CloseHandle, CloseDbLookup, CloseDbGate, CloseDbDrained,
     UnlockDb
<1> SUFFICES ASSUME kind # "added", NEW p \in Procs, pc'[p] = "copying"
             PROVE  Connected' = {}
  BY <1>0 DEF CopyOK
<1>1. ASSUME NEW q \in Procs, CloseDbDrained(q) PROVE Connected' = {}
  <2>1. kind = "backup" BY <1>1, DbAccessAssumption DEF CloseDbDrained, EntryOK, Copying, TypeOK
  <2>2. ref[q] \in 0 .. 1 /\ ref[q] # 0 /\ reg = 1
    BY <1>1, <2>1 DEF CloseDbDrained, EntryOK, AtEntry, TypeOK
  <2>3. Cardinality(Connected) = 0 BY <1>1, <2>1, <2>2 DEF CloseDbDrained, CountExact
  <2>4. Connected = {} BY <2>3, ConnectedFinite, FS_EmptySet
  <2>5. Connected' = Connected \ {q} BY <1>1, ConnectedMoves DEF CloseDbDrained, PCs
  <2> QED BY <2>4, <2>5
<1>2. CASE pc[p] = "copying"
  <2>1. kind = "backup" BY <1>2, DbAccessAssumption DEF EntryOK, Copying, TypeOK
  <2>2. Connected = {} BY <1>2 DEF CopyOK
  <2>3. ASSUME NEW q \in Procs, OpenDbGate(q) PROVE FALSE
    <3>1. ref[q] \in 0 .. 1 /\ ref[q] # 0 /\ ref[p] \in 0 .. 1 /\ ref[p] # 0
      BY <1>2, <2>1, <2>3 DEF OpenDbGate, EntryOK, AtEntry, TypeOK
    <3>2. ref[q] = ref[p] BY <3>1
    <3>3. ~entries[ref[p]].free BY <1>2 DEF GateOK, HoldsGate
    <3> QED BY <2>3, <3>2, <3>3 DEF OpenDbGate
  <2>4. ASSUME NEW q \in Procs, NEW l \in PCs \ {"opening", "open"}, Goto(q, l) PROVE Connected' = {}
    <3>1. Connected' = Connected \ {q} BY <2>4, ConnectedMoves
    <3> QED BY <2>2, <3>1
  <2>5. ASSUME NEW q \in Procs,
               \/ Start(q) \/ Report(q) \/ OpenDbTimeout(q) \/ OpenDbLookup(q) \/ OpenDbFirst(q)
               \/ CreateDb(q) \/ Disconnect(q) \/ CloseHandle(q) \/ CloseDbLookup(q) \/ CloseDbGate(q)
               \/ UnlockDb(q)
        PROVE  Connected' = {}
    <3>1. \E l \in PCs \ {"opening", "open"} : Goto(q, l)
      BY <2>5 DEF PCs, Start, Report, OpenDbTimeout, OpenDbLookup, OpenDbFirst, CreateDb, Disconnect,
         CloseHandle, CloseDbLookup, CloseDbGate, UnlockDb
    <3> QED BY <2>4, <3>1
  <2>6. ASSUME NEW q \in Procs PROVE ~OpenDbFile(q) /\ ~OpenDbRegister(q)
    BY <2>1, <2>2 DEF OpenDbFile, OpenDbRegister, Connected, EntryOK
  <2>7. CASE UNCHANGED vars BY <2>2, <2>7 DEF vars, Connected
  <2> QED BY Steps, <1>1, <2>3, <2>5, <2>6, <2>7 DEF Procs
<1>3. CASE pc[p] # "copying"
  <2>1. ASSUME NEW q \in Procs, NEW l \in PCs \ {"copying"}, Goto(q, l) PROVE FALSE
    BY <1>3, <2>1, Moved
  <2>2. ASSUME NEW q \in Procs,
               \/ Start(q) \/ Report(q) \/ OpenDbTimeout(q) \/ OpenDbLookup(q) \/ OpenDbGate(q)
               \/ OpenDbFile(q) \/ OpenDbFirst(q) \/ OpenDbRegister(q) \/ CreateDb(q) \/ Disconnect(q)
               \/ CloseHandle(q) \/ CloseDbLookup(q) \/ CloseDbGate(q) \/ UnlockDb(q)
        PROVE  FALSE
    <3>1. \E l \in PCs \ {"copying"} : Goto(q, l)
      BY <2>2 DEF PCs, Start, Report, OpenDbTimeout, OpenDbLookup, OpenDbGate, OpenDbFile, OpenDbFirst,
         OpenDbRegister, CreateDb, Disconnect, CloseHandle, CloseDbLookup, CloseDbGate, UnlockDb
    <3> QED BY <2>1, <3>1
  <2>3. ~UNCHANGED vars BY <1>3 DEF vars
  <2> QED BY Steps, <1>1, <2>2, <2>3 DEF Procs
<1> QED BY <1>2, <1>3

-----------------------------------------------------------------------------
(* Theorems. *)

\* The invariant holds at start-up.
LEMMA InvInit == ASSUME Init PROVE Inv
<1> USE DEF Init
<1>1. \A p \in Procs : pc[p] = "idle" OBVIOUS
<1>2. IdleEntry \in Entry /\ IdleEntry.clients = 0 BY ModulusAssumption DEF IdleEntry, Entry
<1>3. entries \in Seq(Entry) /\ reg \in 0 .. Len(entries)
  <2>1. CASE entries = <<IdleEntry>> /\ reg = 1 BY <1>2, <2>1
  <2>2. CASE entries = <<>> /\ reg = 0 BY <2>2
  <2> QED BY <2>1, <2>2
<1>4. TypeOK BY <1>3 DEF TypeOK, PCs
<1>5. EntryOK BY <1>1 DEF EntryOK, AtEntry, Entered, Copying
<1>6. GateOK BY <1>1 DEF GateOK, GateExclusive, HoldsGate
<1>7. Connected = {} BY <1>1 DEF Connected
<1>8. CountExact BY <1>2, <1>7, FS_EmptySet DEF CountExact
<1>9. CopyOK BY <1>7 DEF CopyOK
<1> QED BY <1>4, <1>5, <1>6, <1>8, <1>9 DEF Inv

\* Every step of OpenDb, DisconnectFromDb, CloseDb, UnlockDb and CreateDb keeps it.
LEMMA InvStep == ASSUME Inv, [Next]_vars PROVE Inv'
  BY TypeStep, EntryStep, GateStep, CountStep, CopyStep DEF Inv

\* The invariant holds throughout.
LEMMA InvHolds == Spec => []Inv
  BY InvInit, InvStep, PTL DEF Spec

\* However many jobs and report handlers open and leave a database that was known at
\* start-up, the number CloseDb() polls is the number of those connected: it neither drifts
\* over error paths nor wraps (OpenDb, DisconnectFromDb, CloseDb).
THEOREM ClientsAreCounted == Spec => []CountExact
<1>1. Inv => CountExact BY DEF Inv
<1> QED BY <1>1, InvHolds, PTL

\* A job that copies the database file is alone with it, for every database but one whose
\* backup was added to the running daemon, where the first two who open it may install an
\* entry each (OpenDb, CloseDb, UnlockDb).
THEOREM CopiesAreExclusive ==
  ASSUME "added" \notin Kinds
  PROVE  Spec => []CopyExclusive
<1>1. ASSUME Inv PROVE CopyExclusive
  BY <1>1 DEF Inv, CopyOK, CopyExclusive, TypeOK, Procs
<1> QED BY <1>1, InvHolds, PTL

\* Under the same condition the gate of an entry is held by one goroutine at a time,
\* although UnlockDb() opens the gate of whatever entry the map holds by then.
THEOREM GatesAreExclusive ==
  ASSUME "added" \notin Kinds
  PROVE  Spec => []GateExclusive
<1>1. ASSUME Inv PROVE GateExclusive BY <1>1 DEF Inv, GateOK, TypeOK
<1> QED BY <1>1, InvHolds, PTL
=============================================================================
