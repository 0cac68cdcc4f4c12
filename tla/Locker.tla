------------------------------- MODULE Locker -------------------------------
(***************************************************************************)
(* src/src/locker.js: the one lock of the box process.  It is held for an  *)
(* operation, not by an owner: whoever asks again for the operation that   *)
(* holds it, through recursiveLock, gets in and makes it one deeper.       *)
(*                                                                         *)
(* A lock is a record; the functions of the prototype are operators from   *)
(* lock to lock, with the condition of their early return or throw beside  *)
(* them.  The 'unlocked' event every unlock emits is modelled where its    *)
(* only listener is, in TaskManager.                                       *)
(***************************************************************************)
EXTENDS Naturals

OP_BOX_UPDATE  == "box_update"
OP_FULL_BACKUP == "full_backup"
OP_APPTASK     == "apptask"
OP_MIGRATE     == "migrate"

Operations == {OP_BOX_UPDATE, OP_FULL_BACKUP, OP_APPTASK, OP_MIGRATE}

\* The operations taken with lock(), which never nests.
ExclusiveOperations == Operations \ {OP_APPTASK}

NoOperation == "null"

Locks == [operation : Operations \cup {NoOperation}, depth : Nat]

Unlocked == [operation |-> NoOperation, depth |-> 0]

\* Mutant: lock() does not look whether anybody has it.
CanLockAlways(l) == TRUE

(***************************************************************************)
(* lock() returns an Error, and changes nothing, when any operation holds  *)
(* the lock: even the one that asks.                                       *)
(***************************************************************************)
CanLock(l) == l.operation = NoOperation

Lock(l, op) == [operation |-> op, depth |-> l.depth + 1]

(***************************************************************************)
(* recursiveLock() goes one deeper when the same operation holds the lock  *)
(* and otherwise is lock().                                                *)
(***************************************************************************)
CanRecursiveLock(l, op) == l.operation = op \/ CanLock(l)

\* The lock after n calls of recursiveLock in a row, each of which succeeds.
RecursiveLock(l, op, n) ==
    [operation |-> IF n = 0 THEN l.operation ELSE op, depth |-> l.depth + n]

(***************************************************************************)
(* unlock() throws on another operation than the holder's, "because this   *)
(* is a programming error"; the lock is free again at depth 0.             *)
(***************************************************************************)
UnlockThrows(l, op) == l.operation # op

Unlock(l, op) ==
    IF l.depth = 1 THEN Unlocked ELSE [l EXCEPT !.depth = @ - 1]
=============================================================================
