------------------------------ MODULE DbEntry -------------------------------
(***************************************************************************)
(* The entry a database name has in the map DbOpenAllowed                  *)
(* (shared/structs_dbops.go): a gate, which is the one-slot lock of        *)
(* utils/lock.go, and a counter of connected clients, an unsigned 32 bit   *)
(* integer that is only changed by atomic additions.                       *)
(***************************************************************************)
EXTENDS Integers

CONSTANT Modulus  \* the counter is an integer modulo this (2^32 in the code)

ASSUME ModulusAssumption == Modulus \in Nat \ {0}

Entry == [free : BOOLEAN, clients : 0 .. Modulus - 1]

GetLock(e) == [e EXCEPT !.free = FALSE]

\* Releasing a released lock is a no-op.
ReleaseLock(e) == [e EXCEPT !.free = TRUE]

AddClient(e) == [e EXCEPT !.clients = (@ + 1) % Modulus]

\* Mutated form: the decrement is not the wrapping one of atomic.AddUint32.
DropClient_NoWrap(e) == [e EXCEPT !.clients = @ - 1]

\* Adding ^uint32(0) is subtracting one, and wraps at zero.
DropClient(e) == [e EXCEPT !.clients = (@ + Modulus - 1) % Modulus]

\* A name without clients whose gate is open.
IdleEntry == [free |-> TRUE, clients |-> 0]
=============================================================================
