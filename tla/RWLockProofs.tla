---------------------------- MODULE RWLockProofs ----------------------------
(***************************************************************************)
(* Proofs about the monitor of src/rwlock.c, for every finite set of       *)
(* threads: its counters are exact, it excludes, it loses no wakeup, it    *)
(* gives readers priority, and it implements SharedLock.                   *)
(***************************************************************************)
EXTENDS RWLock, FiniteSetTheorems, TLAPS

Readers == At("rdwait") \cup At("reading")

\* The inductive invariant.  Mutual exclusion rests on the counters being
\* exact (a writer goes by read_queue_len = 0 = write_queue_len), and the
\* absence of lost wakeups on both.
IInv == TypeOK /\ CountersExact /\ MutualExclusion /\ NoLostWakeup

\* What the proofs use about the size of sets of threads.
LEMMA ThreadSets ==
    ASSUME NEW S \in SUBSET Threads
    PROVE  /\ Cardinality(S) \in Nat
           /\ Cardinality(S) = 0 <=> S = {}
           /\ \A t \in Threads \ S : Cardinality(S \cup {t}) = Cardinality(S) + 1
           /\ \A t \in S : Cardinality(S \ {t}) = Cardinality(S) - 1
<1>1. IsFiniteSet(S)
  BY ThreadsAssumption, FS_Subset
<1>2. Cardinality(S) \in Nat
  BY <1>1, FS_CardinalityType
<1>3. Cardinality(S) = 0 <=> S = {}
  BY <1>1, FS_EmptySet
<1>4. \A t \in Threads \ S : Cardinality(S \cup {t}) = Cardinality(S) + 1
  BY <1>1, FS_AddElement
<1>5. \A t \in S : Cardinality(S \ {t}) = Cardinality(S) - 1
  BY <1>1, FS_RemoveElement
<1> QED
  BY <1>2, <1>3, <1>4, <1>5

\* What the invariant says in terms of sets instead of counters.
LEMMA CountersAsSets ==
    ASSUME IInv
    PROVE  /\ write_queue_len = 0 <=> At("writing") = {}
           /\ write_queue_len > 0 <=> At("writing") # {}
           /\ read_queue_len = 0 <=> Readers = {}
           /\ read_queue_len > 0 <=> Readers # {}
           /\ tobe_write_queue_len > 0 <=> At("wrwait") # {}
<1>1. At("writing") \in SUBSET Threads /\ Readers \in SUBSET Threads /\ At("wrwait") \in SUBSET Threads
  BY DEF At, Readers
<1>2. /\ Cardinality(At("writing")) \in Nat /\ Cardinality(Readers) \in Nat
      /\ Cardinality(At("wrwait")) \in Nat
      /\ Cardinality(At("writing")) = 0 <=> At("writing") = {}
      /\ Cardinality(Readers) = 0 <=> Readers = {}
      /\ Cardinality(At("wrwait")) = 0 <=> At("wrwait") = {}
  BY <1>1, ThreadSets
<1> QED
  BY <1>2 DEF IInv, CountersExact, Readers

\* A step that moves one thread moves it between the sets and nothing else.
LEMMA Moves ==
    ASSUME TypeOK, NEW t \in Threads, NEW p \in Places, NEW q \in Places, pc[t] = p, p # q,
           pc' = [pc EXCEPT ![t] = q]
    PROVE  /\ pc' \in [Threads -> Places]
           /\ t \in At(p) /\ t \notin At(q)
           /\ At(p)' = At(p) \ {t}
           /\ At(q)' = At(q) \cup {t}
           /\ \A r \in Places \ {p, q} : t \notin At(r) /\ At(r)' = At(r)
<1> USE DEF At, TypeOK
<1>1. pc' \in [Threads -> Places] /\ t \in At(p) /\ t \notin At(q)
  OBVIOUS
<1>2. At(p)' = At(p) \ {t}
  OBVIOUS
<1>3. At(q)' = At(q) \cup {t}
  OBVIOUS
<1>4. ASSUME NEW r \in Places \ {p, q} PROVE t \notin At(r) /\ At(r)' = At(r)
  OBVIOUS
<1> QED
  BY <1>1, <1>2, <1>3, <1>4

\* A new lock satisfies the inductive invariant.
LEMMA InitIInv == Init => IInv
<1> SUFFICES ASSUME Init PROVE IInv
  OBVIOUS
<1> USE DEF Init, rwlock_build
<1>1. TypeOK
  BY DEF TypeOK, Places
<1>2. \A p \in Places \ {"out"} : At(p) = {}
  BY DEF At, Places
<1>3. CountersExact
  BY <1>2, FS_EmptySet DEF CountersExact, Places
<1>4. MutualExclusion /\ NoLostWakeup
  BY <1>2 DEF MutualExclusion, NoLostWakeup, Places
<1> QED
  BY <1>1, <1>3, <1>4 DEF IInv

-----------------------------------------------------------------------------
\* A reader that arrives, or wakes up, and finds no writer inside.
LEMMA ReaderEnters ==
    ASSUME IInv, NEW t \in Threads, write_queue_len = 0, UNCHANGED <<write_queue_len, cond>>,
           pc[t] \in {"out", "rdwait"}, pc' = [pc EXCEPT ![t] = "reading"], t \notin cond,
           read_queue_len' = IF pc[t] = "out" THEN read_queue_len + 1 ELSE read_queue_len,
           UNCHANGED tobe_write_queue_len
    PROVE  IInv'
<1> USE DEF IInv, Places
<1>1. /\ pc' \in [Threads -> Places]
      /\ At("reading")' = At("reading") \cup {t}
      /\ At("rdwait")' = At("rdwait") \ {t}
      /\ At("writing")' = At("writing") /\ At("wrwait")' = At("wrwait")
  <2>1. CASE pc[t] = "out"
    BY <2>1, Moves, t \notin At("rdwait"), ZenonT(60) DEF At
  <2>2. CASE pc[t] = "rdwait"
    BY <2>2, Moves
  <2> QED
    BY <2>1, <2>2
<1>2. TypeOK'
  BY <1>1 DEF TypeOK
<1>3. CountersExact'
  <2>1. read_queue_len' = Cardinality(Readers')
    <3>1. CASE pc[t] = "out"
      <4>1. t \notin Readers /\ Readers' = Readers \cup {t}
        BY <3>1, <1>1 DEF Readers, At
      <4>2. Readers \in SUBSET Threads
        BY DEF Readers, At
      <4> QED
        BY <4>1, <4>2, <3>1, ThreadSets, ZenonT(60) DEF CountersExact, Readers
    <3>2. CASE pc[t] = "rdwait"
      <4>1. Readers' = Readers
        BY <3>2, <1>1 DEF Readers, At
      <4> QED
        BY <4>1, <3>2 DEF CountersExact, Readers
    <3> QED
      BY <3>1, <3>2
  <2> QED
    BY <2>1, <1>1 DEF CountersExact, Readers
<1>4. MutualExclusion'
  BY <1>1, CountersAsSets DEF MutualExclusion
<1>5. NoLostWakeup'
  <2>1. \A u \in cond : u # t /\ pc'[u] = pc[u]
    BY DEF TypeOK
  <2>2. read_queue_len' >= read_queue_len
    BY DEF TypeOK
  <2> QED
    BY <2>1, <2>2 DEF NoLostWakeup, TypeOK
<1> QED
  BY <1>2, <1>3, <1>4, <1>5

\* A reader that arrives, or wakes up, and finds a writer inside.
LEMMA ReaderSleeps ==
    ASSUME IInv, NEW t \in Threads, write_queue_len > 0, UNCHANGED write_queue_len,
           cond' = cond \cup {t},
           pc[t] \in {"out", "rdwait"}, pc' = [pc EXCEPT ![t] = "rdwait"],
           read_queue_len' = IF pc[t] = "out" THEN read_queue_len + 1 ELSE read_queue_len,
           UNCHANGED tobe_write_queue_len
    PROVE  IInv'
<1> USE DEF IInv, Places
<1>1. /\ pc' \in [Threads -> Places]
      /\ At("reading")' = At("reading")
      /\ At("rdwait")' = At("rdwait") \cup {t}
      /\ At("writing")' = At("writing") /\ At("wrwait")' = At("wrwait")
  <2>1. CASE pc[t] = "out"
    BY <2>1, Moves
  <2>2. CASE pc[t] = "rdwait"
    <3>1. pc' = pc /\ t \in At("rdwait")
      BY <2>2 DEF TypeOK, At
    <3> QED
      BY <3>1 DEF TypeOK, At
  <2> QED
    BY <2>1, <2>2
<1>2. TypeOK'
  BY <1>1 DEF TypeOK
<1>3. CountersExact'
  <2>1. read_queue_len' = Cardinality(Readers')
    <3>1. CASE pc[t] = "out"
      <4>1. t \notin Readers /\ Readers' = Readers \cup {t}
        BY <3>1, <1>1 DEF Readers, At
      <4>2. Readers \in SUBSET Threads
        BY DEF Readers, At
      <4> QED
        BY <4>1, <4>2, <3>1, ThreadSets DEF CountersExact, Readers
    <3>2. CASE pc[t] = "rdwait"
      <4>1. Readers' = Readers
        BY <3>2, <1>1 DEF Readers, At
      <4> QED
        BY <4>1, <3>2 DEF CountersExact, Readers
    <3> QED
      BY <3>1, <3>2
  <2> QED
    BY <2>1, <1>1 DEF CountersExact, Readers
<1>4. MutualExclusion'
  BY <1>1 DEF MutualExclusion, At, TypeOK
<1>5. NoLostWakeup'
  <2>1. \A u \in cond' : pc'[u] = IF u = t THEN "rdwait" ELSE pc[u]
    BY DEF TypeOK
  <2>2. read_queue_len' >= read_queue_len
    BY DEF TypeOK
  <2> QED
    BY <2>1, <2>2 DEF NoLostWakeup, TypeOK
<1> QED
  BY <1>2, <1>3, <1>4, <1>5

\* rwlock_unrdlock() preserves the inductive invariant.
LEMMA UnrdlockIInv ==
    ASSUME IInv, NEW t \in Threads, unrdlock(t)
    PROVE  IInv'
<1> USE DEF IInv, Places
<1>1. /\ pc' \in [Threads -> Places]
      /\ At("reading")' = At("reading") \ {t}
      /\ At("rdwait")' = At("rdwait") /\ At("writing")' = At("writing") /\ At("wrwait")' = At("wrwait")
      /\ t \in At("reading")
  BY Moves DEF unrdlock
<1>2. Readers' = Readers \ {t} /\ t \in Readers /\ Readers \in SUBSET Threads
  BY <1>1 DEF Readers, At
<1>3. read_queue_len' = Cardinality(Readers')
  BY <1>2, ThreadSets DEF CountersExact, Readers, unrdlock
<1>4. read_queue_len' \in Nat
  BY <1>3, <1>2, ThreadSets
<1>5. TypeOK'
  BY <1>1, <1>4 DEF TypeOK, Broadcast, unrdlock
<1>6. CountersExact'
  BY <1>3, <1>1 DEF CountersExact, Readers, unrdlock
<1>7. MutualExclusion'
  BY <1>1 DEF MutualExclusion, At, TypeOK
<1>8. NoLostWakeup'
  <2>1. SUFFICES ASSUME cond' # {} PROVE NoLostWakeup'
    BY DEF NoLostWakeup
  <2>2. cond' = cond /\ ~ (read_queue_len' = 0 /\ tobe_write_queue_len > 0)
    BY <2>1 DEF Broadcast, unrdlock
  <2>3. ASSUME NEW u \in cond
        PROVE  \/ pc'[u] = "rdwait" /\ write_queue_len' > 0
               \/ pc'[u] = "wrwait" /\ (read_queue_len' > 0 \/ write_queue_len' > 0)
    <3>1. pc'[u] = pc[u]
      BY DEF NoLostWakeup, TypeOK, unrdlock
    <3>2. pc[u] = "wrwait" => read_queue_len' > 0
      <4>1. pc[u] = "wrwait" => tobe_write_queue_len > 0
        BY CountersAsSets DEF At, TypeOK
      <4> QED
        BY <4>1, <2>2, <1>4
    <3> QED
      BY <3>1, <3>2 DEF NoLostWakeup, unrdlock
  <2> QED
    BY <2>2, <2>3 DEF NoLostWakeup
<1> QED
  BY <1>5, <1>6, <1>7, <1>8

\* A writer that arrives, or wakes up, and finds someone inside or a reader
\* counted: tobe is the value it gives tobe_write_queue_len.
LEMMA WriterSleeps ==
    ASSUME IInv, NEW t \in Threads, read_queue_len > 0 \/ write_queue_len > 0,
           cond' = cond \cup {t}, UNCHANGED <<read_queue_len, write_queue_len>>,
           pc[t] \in {"out", "wrwait"}, pc' = [pc EXCEPT ![t] = "wrwait"],
           tobe_write_queue_len' = IF pc[t] = "out" THEN tobe_write_queue_len + 1
                                   ELSE tobe_write_queue_len
    PROVE  IInv'
<1> USE DEF IInv, Places
<1>1. /\ pc' \in [Threads -> Places]
      /\ At("reading")' = At("reading") /\ At("rdwait")' = At("rdwait")
      /\ At("writing")' = At("writing")
      /\ At("wrwait")' = At("wrwait") \cup {t}
      /\ pc[t] = "out" <=> t \notin At("wrwait")
  <2>1. CASE pc[t] = "out"
    BY <2>1, Moves
  <2>2. CASE pc[t] = "wrwait"
    <3>1. pc' = pc /\ t \in At("wrwait")
      BY <2>2 DEF TypeOK, At
    <3> QED
      BY <3>1 DEF TypeOK, At
  <2> QED
    BY <2>1, <2>2
<1>2. TypeOK'
  BY <1>1 DEF TypeOK
<1>3. CountersExact'
  <2>1. At("wrwait") \in SUBSET Threads
    BY DEF At
  <2>2. tobe_write_queue_len' = Cardinality(At("wrwait")')
    <3>1. CASE pc[t] = "out"
      BY <3>1, <1>1, <2>1, ThreadSets DEF CountersExact
    <3>2. CASE pc[t] = "wrwait"
      <4>1. At("wrwait")' = At("wrwait")
        BY <3>2, <1>1
      <4> QED
        BY <4>1, <3>2 DEF CountersExact
    <3> QED
      BY <3>1, <3>2
  <2> QED
    BY <2>2, <1>1 DEF CountersExact
<1>4. MutualExclusion'
  BY <1>1 DEF MutualExclusion, At, TypeOK
<1>5. NoLostWakeup'
  <2>1. \A u \in cond' : pc'[u] = IF u = t THEN "wrwait" ELSE pc[u]
    BY DEF TypeOK
  <2> QED
    BY <2>1 DEF NoLostWakeup
<1> QED
  BY <1>2, <1>3, <1>4, <1>5

\* A writer that arrives, or wakes up, and finds nobody inside and no reader.
LEMMA WriterEnters ==
    ASSUME IInv, NEW t \in Threads, read_queue_len = 0, write_queue_len = 0,
           UNCHANGED <<cond, read_queue_len>>, write_queue_len' = write_queue_len + 1,
           pc[t] \in {"out", "wrwait"}, pc' = [pc EXCEPT ![t] = "writing"],
           tobe_write_queue_len' = IF pc[t] = "out" THEN tobe_write_queue_len
                                   ELSE tobe_write_queue_len - 1
    PROVE  IInv'
<1> USE DEF IInv, Places
<1>1. /\ pc' \in [Threads -> Places]
      /\ At("reading")' = At("reading") /\ At("rdwait")' = At("rdwait")
      /\ At("writing")' = At("writing") \cup {t}
      /\ At("wrwait")' = At("wrwait") \ {t}
      /\ pc[t] = "out" <=> t \notin At("wrwait")
  <2>1. CASE pc[t] = "out"
    BY <2>1, Moves, t \notin At("wrwait") DEF At
  <2>2. CASE pc[t] = "wrwait"
    BY <2>2, Moves
  <2> QED
    BY <2>1, <2>2
<1>2. At("wrwait") \in SUBSET Threads /\ At("writing") \in SUBSET Threads
  BY DEF At
<1>3. At("reading") = {} /\ At("rdwait") = {} /\ At("writing") = {}
  BY CountersAsSets DEF Readers
<1>4. tobe_write_queue_len' = Cardinality(At("wrwait")')
  <2>1. CASE pc[t] = "out"
    <3>1. At("wrwait")' = At("wrwait")
      BY <2>1, <1>1
    <3> QED
      BY <3>1, <2>1 DEF CountersExact
  <2>2. CASE pc[t] = "wrwait"
    BY <2>2, <1>1, <1>2, ThreadSets DEF CountersExact
  <2> QED
    BY <2>1, <2>2
<1>5. tobe_write_queue_len' \in Nat
  <2>1. At("wrwait")' \in SUBSET Threads
    BY <1>1, <1>2
  <2> QED
    BY <2>1, <1>4, ThreadSets
<1>6. TypeOK'
  BY <1>1, <1>5 DEF TypeOK
<1>7. CountersExact'
  <2>1. write_queue_len' = Cardinality(At("writing")')
    <3>1. t \notin At("writing")
      BY <1>3
    <3> QED
      BY <3>1, <1>1, <1>2, ThreadSets DEF CountersExact
  <2> QED
    BY <2>1, <1>1, <1>4 DEF CountersExact
<1>8. MutualExclusion'
  <2>1. At("writing")' = {t} /\ At("reading")' = {}
    BY <1>1, <1>3
  <2> QED
    BY <2>1, <1>1 DEF MutualExclusion, At
<1>9. NoLostWakeup'
  <2>1. cond = {}
    BY DEF NoLostWakeup
  <2> QED
    BY <2>1 DEF NoLostWakeup
<1> QED
  BY <1>6, <1>7, <1>8, <1>9

\* rwlock_unwrlock() preserves the inductive invariant.
LEMMA UnwrlockIInv ==
    ASSUME IInv, NEW t \in Threads, unwrlock(t)
    PROVE  IInv'
<1> USE DEF IInv, Places
<1>1. /\ pc' \in [Threads -> Places]
      /\ At("writing")' = At("writing") \ {t}
      /\ At("rdwait")' = At("rdwait") /\ At("reading")' = At("reading") /\ At("wrwait")' = At("wrwait")
      /\ t \in At("writing")
  BY Moves DEF unwrlock
<1>2. At("writing") \in SUBSET Threads
  BY DEF At
<1>3. write_queue_len' = Cardinality(At("writing")')
  BY <1>1, <1>2, ThreadSets DEF CountersExact, unwrlock
<1>4. write_queue_len' \in Nat
  <2>1. At("writing")' \in SUBSET Threads
    BY <1>1, <1>2
  <2> QED
    BY <2>1, <1>3, ThreadSets
<1>5. TypeOK'
  BY <1>1, <1>4 DEF TypeOK, Broadcast, unwrlock
<1>6. CountersExact'
  BY <1>3, <1>1 DEF CountersExact, unwrlock
<1>7. MutualExclusion'
  BY <1>1 DEF MutualExclusion, At, TypeOK
<1>8. NoLostWakeup'
  <2>1. ASSUME NEW u \in cond PROVE read_queue_len > 0 \/ tobe_write_queue_len > 0
    BY CountersAsSets DEF NoLostWakeup, At, Readers, TypeOK
  <2>2. cond' = {}
    BY <2>1 DEF Broadcast, unwrlock
  <2> QED
    BY <2>2 DEF NoLostWakeup
<1> QED
  BY <1>5, <1>6, <1>7, <1>8

\* Every step of the monitor preserves the inductive invariant.
LEMMA NextIInv == IInv /\ [Next]_vars => IInv'
<1> SUFFICES ASSUME IInv, [Next]_vars PROVE IInv'
  OBVIOUS
<1>0. IInv => TypeOK
  BY DEF IInv
<1>1. ASSUME NEW t \in Threads, rdlock(t) PROVE IInv'
  <2>1. t \notin cond
    BY <1>1 DEF rdlock, IInv, NoLostWakeup
  <2>2. CASE write_queue_len > 0
    BY <1>0, <1>1, <2>2, ReaderSleeps DEF rdlock, RdLoop, TypeOK
  <2>3. CASE write_queue_len = 0
    BY <1>0, <1>1, <2>1, <2>3, ReaderEnters DEF rdlock, RdLoop, TypeOK
  <2> QED
    BY <1>1, <2>2, <2>3 DEF rdlock, RdLoop
<1>2. ASSUME NEW t \in Threads, RdWake(t) PROVE IInv'
  BY <1>2, ReaderEnters, ReaderSleeps DEF RdWake, RdLoop
<1>3. ASSUME NEW t \in Threads, unrdlock(t) PROVE IInv'
  BY <1>3, UnrdlockIInv
<1>4. ASSUME NEW t \in Threads, wrlock(t) PROVE IInv'
  <2>1. tobe_write_queue_len + 1 - 1 = tobe_write_queue_len
    BY <1>0 DEF TypeOK
  <2>2. CASE read_queue_len > 0 \/ write_queue_len > 0
    <3>1. ~ (read_queue_len = 0 /\ write_queue_len = 0)
      BY <2>2
    <3> QED
      BY <1>4, <2>2, <3>1, WriterSleeps DEF wrlock, WrLoop
  <2>3. CASE read_queue_len = 0 /\ write_queue_len = 0
    <3>1. /\ UNCHANGED <<cond, read_queue_len>> /\ write_queue_len' = write_queue_len + 1
          /\ pc[t] = "out" /\ pc' = [pc EXCEPT ![t] = "writing"]
          /\ tobe_write_queue_len' = tobe_write_queue_len
      BY <1>0, <1>4, <2>1, <2>3 DEF wrlock, WrLoop, TypeOK
    <3> QED
      BY <3>1, <2>3, WriterEnters
  <2> QED
    BY <1>4, <2>2, <2>3 DEF wrlock, WrLoop
<1>5. ASSUME NEW t \in Threads, WrWake(t) PROVE IInv'
  BY <1>5, WriterEnters, WriterSleeps DEF WrWake, WrLoop
<1>6. ASSUME NEW t \in Threads, unwrlock(t) PROVE IInv'
  BY <1>6, UnwrlockIInv
<1>7. ASSUME NEW t \in Threads, SpuriousWakeup(t) PROVE IInv'
  BY <1>7 DEF SpuriousWakeup, IInv, TypeOK, CountersExact, MutualExclusion, NoLostWakeup, At
<1>8. CASE UNCHANGED vars
  BY <1>8 DEF vars, IInv, TypeOK, CountersExact, MutualExclusion, NoLostWakeup, At
<1> QED
  BY <1>1, <1>2, <1>3, <1>4, <1>5, <1>6, <1>7, <1>8 DEF Next

-----------------------------------------------------------------------------
\* The queue lengths of rwlock.c never wrap, are exact, exclude, and no
\* wakeup is lost, for any number of threads.
THEOREM SpecIInv == Spec => []IInv
<1> QED
  BY InitIInv, NextIInv, PTL DEF Spec

\* The lengths stay natural numbers: no decrement of rwlock.c takes a size_t
\* below zero.
THEOREM TypeCorrect == Spec => []TypeOK
<1>1. IInv => TypeOK
  BY DEF IInv
<1> QED
  BY SpecIInv, <1>1, PTL

\* A thread that holds the write lock holds it alone.
THEOREM Exclusion == Spec => []MutualExclusion
<1>1. IInv => MutualExclusion
  BY DEF IInv
<1> QED
  BY SpecIInv, <1>1, PTL

\* rwlock.h's description of the three lengths holds at every moment.
THEOREM ExactCounters == Spec => []CountersExact
<1>1. IInv => CountersExact
  BY DEF IInv
<1> QED
  BY SpecIInv, <1>1, PTL

\* The broadcasts of unrdlock and unwrlock are enough: no thread sleeps with
\* nobody left to wake it.
THEOREM NoWakeupLost == Spec => []NoLostWakeup
<1>1. IInv => NoLostWakeup
  BY DEF IInv
<1> QED
  BY SpecIInv, <1>1, PTL

\* No writer overtakes a reader that waits.
THEOREM ReadersFirst == Spec => ReaderPriority
<1>1. IInv /\ [Next]_vars => [At("rdwait") # {} => At("writing")' \subseteq At("writing")]_vars
  <2> SUFFICES ASSUME IInv, Next, At("rdwait") # {}
               PROVE  At("writing")' \subseteq At("writing")
    OBVIOUS
  <2>1. TypeOK /\ read_queue_len > 0
    BY CountersAsSets DEF IInv, Readers
  <2>2. PICK t \in Threads : rdlock(t) \/ RdWake(t) \/ unrdlock(t) \/ wrlock(t) \/ WrWake(t)
                             \/ unwrlock(t) \/ SpuriousWakeup(t)
    BY DEF Next
  <2>3. \A u \in Threads \ {t} : pc'[u] = pc[u]
    BY <2>1, <2>2 DEF TypeOK, rdlock, RdWake, RdLoop, unrdlock, wrlock, WrWake, WrLoop, unwrlock,
                      SpuriousWakeup
  <2>4. pc'[t] = "writing" => pc[t] = "writing"
    BY <2>1, <2>2 DEF TypeOK, rdlock, RdWake, RdLoop, unrdlock, wrlock, WrWake, WrLoop, unwrlock,
                      SpuriousWakeup
  <2> QED
    BY <2>3, <2>4 DEF At
<1> QED
  BY SpecIInv, <1>1, PTL DEF Spec, ReaderPriority

-----------------------------------------------------------------------------
\* The mapping to SharedLock, thread by thread.
LEMMA BarInit == Init => Abs!Init
  BY DEF Init, Abs!Init, Abs!NewLock, lockBar, At

\* A step of the monitor is a step of SharedLock, or changes no holder.
LEMMA BarNext ==
    ASSUME IInv, [Next]_vars
    PROVE  [Abs!Next]_lockBar
<1> USE DEF IInv
<1>1. CASE UNCHANGED vars
  BY <1>1 DEF vars, lockBar, At
<1>2. ASSUME NEW t \in Threads, pc[t] # "reading", pc' = [pc EXCEPT ![t] = "reading"],
             write_queue_len = 0
      PROVE  Abs!AcquireShared(t)
  <2>1. At("writing") = {} /\ At("writing")' = {}
    BY <1>2, CountersAsSets DEF At, TypeOK
  <2>2. lockBar'.rd = [lockBar.rd EXCEPT ![t] = 1]
    BY <1>2 DEF lockBar, TypeOK
  <2>5. lockBar.rd[t] = 0 /\ 0 + 1 = 1
    BY <1>2 DEF lockBar
  <2>3. lockBar' = [rd |-> lockBar'.rd, wr |-> At("writing")'] /\ lockBar.wr = At("writing")
    BY DEF lockBar
  <2>4. lockBar' = Abs!Share(lockBar, t)
    BY <2>1, <2>2, <2>3, <2>5 DEF Abs!Share
  <2> QED
    BY <2>1, <2>5, <2>3, <2>4 DEF Abs!AcquireShared, Abs!CanShare
<1>3. ASSUME NEW t \in Threads, unrdlock(t) PROVE Abs!ReleaseShared(t)
  <2>1. At("writing")' = At("writing")
    BY <1>3 DEF At, TypeOK, unrdlock
  <2>2. lockBar'.rd = [lockBar.rd EXCEPT ![t] = 0] /\ lockBar.rd[t] = 1
    BY <1>3 DEF lockBar, TypeOK, unrdlock
  <2>3. lockBar' = [rd |-> lockBar'.rd, wr |-> At("writing")'] /\ lockBar.wr = At("writing")
    BY DEF lockBar
  <2>4. (IF lockBar.rd[t] > 0 THEN lockBar.rd[t] - 1 ELSE 0) = 0 /\ lockBar.rd[t] > 0
    BY <2>2
  <2>5. lockBar' = Abs!Unshare(lockBar, t)
    BY <2>1, <2>2, <2>3, <2>4 DEF Abs!Unshare
  <2> QED
    BY <2>4, <2>5 DEF Abs!ReleaseShared
<1>4. ASSUME NEW t \in Threads, pc[t] # "reading", pc' = [pc EXCEPT ![t] = "writing"],
             read_queue_len = 0, write_queue_len = 0
      PROVE  Abs!AcquireExclusive(t)
  <2>1. At("writing") = {} /\ At("reading") = {}
    BY <1>4, CountersAsSets DEF Readers
  <2>2. At("writing")' = At("writing") \cup {t}
    BY <1>4 DEF At, TypeOK
  <2>3. lockBar'.rd = lockBar.rd
    BY <1>4 DEF lockBar, TypeOK
  <2>4. \A u \in Threads : pc[u] # "reading"
    BY <2>1 DEF At
  <2> QED
    BY <2>1, <2>2, <2>3, <2>4 DEF Abs!AcquireExclusive, Abs!CanOwn, Abs!Own, lockBar
<1>5. ASSUME NEW t \in Threads, unwrlock(t) PROVE Abs!ReleaseExclusive(t)
  <2>1. At("writing")' = At("writing") \ {t} /\ t \in At("writing")
    BY <1>5 DEF At, TypeOK, unwrlock
  <2>2. lockBar'.rd = lockBar.rd
    BY <1>5 DEF lockBar, TypeOK, unwrlock
  <2> QED
    BY <2>1, <2>2 DEF Abs!ReleaseExclusive, Abs!Disown, lockBar
<1>6. ASSUME NEW t \in Threads, NEW p \in {"rdwait", "wrwait"}, pc[t] \in {"out", p},
             pc' = [pc EXCEPT ![t] = p]
      PROVE  lockBar' = lockBar
  <2>1. At("writing")' = At("writing")
    BY <1>6 DEF At, TypeOK
  <2>2. \A u \in Threads : pc'[u] = "reading" <=> pc[u] = "reading"
    BY <1>6 DEF TypeOK
  <2> QED
    BY <2>1, <2>2 DEF lockBar
<1>7. ASSUME NEW t \in Threads, SpuriousWakeup(t) PROVE lockBar' = lockBar
  BY <1>7 DEF SpuriousWakeup, lockBar, At
<1>8. ASSUME NEW t \in Threads, rdlock(t) \/ RdWake(t)
      PROVE  Abs!AcquireShared(t) \/ lockBar' = lockBar
  BY <1>2, <1>6, <1>8 DEF rdlock, RdWake, RdLoop
<1>9. ASSUME NEW t \in Threads, wrlock(t) \/ WrWake(t)
      PROVE  Abs!AcquireExclusive(t) \/ lockBar' = lockBar
  BY <1>4, <1>6, <1>9 DEF wrlock, WrWake, WrLoop
<1> QED
  BY <1>1, <1>3, <1>5, <1>7, <1>8, <1>9 DEF Next, Abs!Next

\* rwlock.c implements the abstract readers-writer lock.
THEOREM Refinement == Spec => RefinesSharedLock
<1> QED
  BY BarInit, BarNext, SpecIInv, PTL DEF Spec, RefinesSharedLock, Abs!Spec
=============================================================================
