------------------------------- MODULE RWLock -------------------------------
(***************************************************************************)
(* The readers-writer lock of src/rwlock.c, a monitor: one mutex, one      *)
(* condition variable and three queue lengths.  Every function holds the   *)
(* mutex from its first to its last line, except while it sleeps in        *)
(* pthread_cond_wait(), so an action is one stretch of code between two    *)
(* moments at which the mutex is free: from the entry of a function to its *)
(* return or its wait, and from a wakeup to the return or the next wait.   *)
(***************************************************************************)
EXTENDS Naturals, FiniteSets

CONSTANT Threads        \* the threads that share the lock

ASSUME ThreadsAssumption == IsFiniteSet(Threads)

VARIABLES
    read_queue_len,         \* struct rwlock_t
    write_queue_len,
    tobe_write_queue_len,
    cond,                   \* threads asleep in pthread_cond_wait(&condition)
    pc                      \* where each thread is with respect to the lock

vars == <<read_queue_len, write_queue_len, tobe_write_queue_len, cond, pc>>

At(place) == {t \in Threads : pc[t] = place}

-----------------------------------------------------------------------------
\* rwlock_new() and rwlock_build(): all three lengths are zero.
rwlock_build ==
    /\ read_queue_len = 0
    /\ write_queue_len = 0
    /\ tobe_write_queue_len = 0

Init ==
    /\ rwlock_build
    /\ cond = {}
    /\ pc = [t \in Threads |-> "out"]

\* pthread_cond_broadcast() if the caller's condition holds.
Broadcast(needed) == cond' = IF needed THEN {} ELSE cond

\* The loop "while (write_queue_len > 0) pthread_cond_wait" of rwlock_rdlock():
\* t sleeps, or leaves the loop and returns with the shared lock.
RdLoop(t) ==
    \/ /\ write_queue_len > 0
       /\ cond' = cond \cup {t}
       /\ pc' = [pc EXCEPT ![t] = "rdwait"]
    \/ /\ write_queue_len = 0
       /\ pc' = [pc EXCEPT ![t] = "reading"]
       /\ UNCHANGED cond

\* The defect "join the queue of readers only once let in".
RdlockCountsLate(t) ==
    /\ pc[t] = "out"
    /\ RdLoop(t)
    /\ read_queue_len' = IF write_queue_len = 0 THEN read_queue_len + 1 ELSE read_queue_len
    /\ UNCHANGED <<write_queue_len, tobe_write_queue_len>>

\* A reader that has not been let in yet is already counted in read_queue_len.
rdlock(t) ==
    /\ pc[t] = "out"
    /\ read_queue_len' = read_queue_len + 1
    /\ RdLoop(t)
    /\ UNCHANGED <<write_queue_len, tobe_write_queue_len>>

\* A reader returns from pthread_cond_wait() and tests the condition again.
RdWake(t) ==
    /\ pc[t] = "rdwait" /\ t \notin cond
    /\ RdLoop(t)
    /\ UNCHANGED <<read_queue_len, write_queue_len, tobe_write_queue_len>>

\* The defect "wake nobody when the last reader leaves".
UnrdlockSilent(t) ==
    /\ pc[t] = "reading"
    /\ read_queue_len' = read_queue_len - 1
    /\ pc' = [pc EXCEPT ![t] = "out"]
    /\ UNCHANGED <<write_queue_len, tobe_write_queue_len, cond>>

unrdlock(t) ==
    /\ pc[t] = "reading"
    /\ read_queue_len' = read_queue_len - 1
    /\ Broadcast(read_queue_len' = 0 /\ tobe_write_queue_len > 0)
    /\ pc' = [pc EXCEPT ![t] = "out"]
    /\ UNCHANGED <<write_queue_len, tobe_write_queue_len>>

\* The defect "a writer does not look for another writer".
WrLoopIgnoresWriter(t, tobe) ==
    \/ /\ read_queue_len > 0
       /\ cond' = cond \cup {t}
       /\ pc' = [pc EXCEPT ![t] = "wrwait"]
       /\ tobe_write_queue_len' = tobe
       /\ UNCHANGED write_queue_len
    \/ /\ read_queue_len = 0
       /\ tobe_write_queue_len' = tobe - 1
       /\ write_queue_len' = write_queue_len + 1
       /\ pc' = [pc EXCEPT ![t] = "writing"]
       /\ UNCHANGED cond

\* The loop of rwlock_wrlock(), entered with tobe_write_queue_len = tobe, and
\* the two assignments after it.
WrLoop(t, tobe) ==
    \/ /\ read_queue_len > 0 \/ write_queue_len > 0
       /\ cond' = cond \cup {t}
       /\ pc' = [pc EXCEPT ![t] = "wrwait"]
       /\ tobe_write_queue_len' = tobe
       /\ UNCHANGED write_queue_len
    \/ /\ read_queue_len = 0 /\ write_queue_len = 0
       /\ tobe_write_queue_len' = tobe - 1
       /\ write_queue_len' = write_queue_len + 1
       /\ pc' = [pc EXCEPT ![t] = "writing"]
       /\ UNCHANGED cond

wrlock(t) ==
    /\ pc[t] = "out"
    /\ WrLoop(t, tobe_write_queue_len + 1)
    /\ UNCHANGED read_queue_len

\* The defect "count the writer again each time it wakes up".
WrWakeRecounts(t) ==
    /\ pc[t] = "wrwait" /\ t \notin cond
    /\ WrLoop(t, tobe_write_queue_len + 1)
    /\ UNCHANGED read_queue_len

WrWake(t) ==
    /\ pc[t] = "wrwait" /\ t \notin cond
    /\ WrLoop(t, tobe_write_queue_len)
    /\ UNCHANGED read_queue_len

\* The defect "a leaving writer looks for waiting writers only".
UnwrlockForgetsReaders(t) ==
    /\ pc[t] = "writing"
    /\ write_queue_len' = write_queue_len - 1
    /\ Broadcast(tobe_write_queue_len > 0)
    /\ pc' = [pc EXCEPT ![t] = "out"]
    /\ UNCHANGED <<read_queue_len, tobe_write_queue_len>>

unwrlock(t) ==
    /\ pc[t] = "writing"
    /\ write_queue_len' = write_queue_len - 1
    /\ Broadcast(read_queue_len > 0 \/ tobe_write_queue_len > 0)
    /\ pc' = [pc EXCEPT ![t] = "out"]
    /\ UNCHANGED <<read_queue_len, tobe_write_queue_len>>

\* pthread_cond_wait() may return although nobody has signalled.
SpuriousWakeup(t) ==
    /\ t \in cond
    /\ cond' = cond \ {t}
    /\ UNCHANGED <<read_queue_len, write_queue_len, tobe_write_queue_len, pc>>

Next ==
    \E t \in Threads :
        \/ rdlock(t) \/ RdWake(t) \/ unrdlock(t)
        \/ wrlock(t) \/ WrWake(t) \/ unwrlock(t)
        \/ SpuriousWakeup(t)

Spec == Init /\ [][Next]_vars

\* A thread that has been woken gets the mutex, and a holder of the lock gets
\* to its unlock; nobody has to ask for the lock.
Fairness ==
    \A t \in Threads :
        WF_vars(RdWake(t)) /\ WF_vars(WrWake(t)) /\ WF_vars(unrdlock(t)) /\ WF_vars(unwrlock(t))

FairSpec == Spec /\ Fairness

-----------------------------------------------------------------------------
Places == {"out", "rdwait", "reading", "wrwait", "writing"}

\* The lengths are naturals although each is decremented without a test: no
\* size_t ever wraps below zero.  Only waiting threads sleep.
TypeOK ==
    /\ read_queue_len \in Nat
    /\ write_queue_len \in Nat
    /\ tobe_write_queue_len \in Nat
    /\ cond \subseteq Threads
    /\ pc \in [Threads -> Places]

\* Mutual exclusion: between the return of rwlock_wrlock() and the call of
\* rwlock_unwrlock() no other thread is between a lock and its unlock.
MutualExclusion ==
    \A t \in At("writing") : \A u \in Threads \ {t} : pc[u] \notin {"reading", "writing"}

\* The lengths mean what rwlock.h:26-28 says, whatever wakeups happen: those
\* now reading or to be read, those now writing, those to be write.
CountersExact ==
    /\ read_queue_len = Cardinality(At("rdwait") \cup At("reading"))
    /\ write_queue_len = Cardinality(At("writing"))
    /\ tobe_write_queue_len = Cardinality(At("wrwait"))

\* No lost wakeup: a thread sleeps only while someone who will broadcast on
\* leaving is inside, or is bound to be (a reader already counted).
NoLostWakeup ==
    \A t \in cond :
        \/ pc[t] = "rdwait" /\ write_queue_len > 0
        \/ pc[t] = "wrwait" /\ (read_queue_len > 0 \/ write_queue_len > 0)

\* "read-write lock with priority for read" (rwlock.h:20): a writer never
\* enters while a reader, asleep or just woken, waits to be let in.
ReaderPriority ==
    [][At("rdwait") # {} => At("writing")' \subseteq At("writing")]_vars

\* A reader is always let in, however many writers compete with it.
ReadersGetIn == \A t \in Threads : pc[t] = "rdwait" ~> pc[t] = "reading"

\* Writers may starve under a stream of readers, but only then: once readers
\* stop coming, a waiting writer is followed by a writer inside.
WritersGetInWithoutReaders ==
    <>[][\A t \in Threads : ~ rdlock(t)]_vars
        => (At("wrwait") # {} ~> At("writing") # {})

\* Nobody waits for ever: readers are let in whoever competes with them, and
\* writers once readers stop coming.
WaitersGetIn == ReadersGetIn /\ WritersGetInWithoutReaders

-----------------------------------------------------------------------------
\* The monitor implements SharedLock: a thread holds the lock from the return
\* of rwlock_rdlock() or rwlock_wrlock() to the call of the unlock.
lockBar ==
    [rd |-> [t \in Threads |-> IF pc[t] = "reading" THEN 1 ELSE 0], wr |-> At("writing")]

Abs == INSTANCE SharedLock WITH lock <- lockBar

\* rwlock.c refines the abstract readers-writer lock.
RefinesSharedLock == Abs!Spec
=============================================================================
