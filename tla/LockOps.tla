------------------------------ MODULE LockOps ------------------------------
(***************************************************************************)
(* What the callers of rwlock.c rely on, as operators on a lock value.  A  *)
(* lock value records, for every thread, how many shared holds it has, and *)
(* the set of threads that hold it exclusively.  The module SharedLock     *)
(* gives the specification these operators make up, RWLock shows that the  *)
(* monitor of rwlock.c implements it, and Storage uses the operators for   *)
(* its index locks and file locks.                                         *)
(***************************************************************************)
EXTENDS Naturals

\* A lock nobody holds: what rwlock_new() and rwlock_build() leave behind.
NewLock(T) == [rd |-> [t \in T |-> 0], wr |-> {}]

LockType(T) == [rd: [T -> Nat], wr: SUBSET T]

\* rwlock_rdlock() may return: no writer is inside.
CanShare(l) == l.wr = {}

\* rwlock_wrlock() may return: nobody is inside.
CanOwn(l) == l.wr = {} /\ \A t \in DOMAIN l.rd : l.rd[t] = 0

Share(l, t)   == [rd |-> [l.rd EXCEPT ![t] = @ + 1], wr |-> l.wr]
Unshare(l, t) == [rd |-> [l.rd EXCEPT ![t] = IF @ > 0 THEN @ - 1 ELSE 0], wr |-> l.wr]
Own(l, t)     == [rd |-> l.rd, wr |-> l.wr \cup {t}]
Disown(l, t)  == [rd |-> l.rd, wr |-> l.wr \ {t}]
=============================================================================
