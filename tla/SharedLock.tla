----------------------------- MODULE SharedLock -----------------------------
(***************************************************************************)
(* The abstract specification of a readers-writer lock: what rwlock.h      *)
(* promises, with no queue lengths, no mutex and no condition variable.    *)
(* RWLock refines it; Storage takes its lock steps from the same LockOps.  *)
(***************************************************************************)
EXTENDS LockOps

CONSTANT Threads

VARIABLE lock

Init == lock = NewLock(Threads)

AcquireShared(t) ==
    /\ CanShare(lock)
    /\ lock.rd[t] = 0
    /\ lock' = Share(lock, t)

ReleaseShared(t) ==
    /\ lock.rd[t] > 0
    /\ lock' = Unshare(lock, t)

AcquireExclusive(t) ==
    /\ CanOwn(lock)
    /\ lock' = Own(lock, t)

ReleaseExclusive(t) ==
    /\ t \in lock.wr
    /\ lock' = Disown(lock, t)

Next ==
    \E t \in Threads :
        \/ AcquireShared(t)
        \/ ReleaseShared(t)
        \/ AcquireExclusive(t)
        \/ ReleaseExclusive(t)

Spec == Init /\ [][Next]_lock
=============================================================================
