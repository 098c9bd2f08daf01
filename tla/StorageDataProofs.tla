------------------------- MODULE StorageDataProofs -------------------------
(***************************************************************************)
(* Proofs about the data that Storage keeps: what is in the block of a     *)
(* record, and what a find_block() reads, for any finite set of workers    *)
(* and any buckets, keys, values, block sizes and bounds.  They need the   *)
(* writes of data and of index entries to succeed; all else may fail.      *)
(* The last part shows that Storage implements KVStore.                    *)
(***************************************************************************)
EXTENDS StorageProofs, WellFoundedInduction

\* pwrite() of a block and insert_record() succeed.
WritesSucceed == "pwrite" \notin Faults /\ "put" \notin Faults

-----------------------------------------------------------------------------
(* The inductive invariant.                                                *)

\* Nobody shares a lock that somebody owns.
Apart(l) == l.wr = {} \/ \A u \in Workers : l.rd[u] = 0
LocksApart ==
    /\ \A b \in Buckets : Apart(index_lock[b])
    /\ \A f \in Files : Apart(file_lock[f])

\* A worker that reads holds a shared lock, of the index or of the file, and
\* one that writes a block owns the file.
WritingNew == {"append_reuse", "append_grow"}
Locked(w) ==
    /\ pc[w] = "find_file" => index_lock[req[w].bucket].rd[w] > 0
    /\ pc[w] = "find_read" => file_lock[iv[w].block_id].rd[w] > 0
    /\ pc[w] = "modify_write" => file_lock[iv[w].block_id].wr = {w}
    /\ pc[w] \in WritingNew => file_lock[new_iv[w].block_id].wr = {w}
AllLocked == \A w \in Workers : Locked(w)

LockInv == LocksApart /\ AllLocked

\* The index entry e was computed from the data d, which fits the block.
Describes(e, d) ==
    /\ d \in Data /\ e.crc32 = d
    /\ e.data_size = DataSize[d] /\ DataSize[d] <= block_size_array[e.block_id]

EntriesDescribe ==
    \A b \in Buckets, k \in Keys : index[b][k] # None => Describes(index[b][k], index[b][k].crc32)

\* What a worker knows about the entry in its locals and about its block.
Knows(w) ==
    /\ pc[w] \in {"find_file", "modify", "modify_write", "delete_record"} =>
         Record(w) # None /\ Record(w) = iv[w]
    /\ pc[w] \in {"modify", "modify_write"} => Fits(w, iv[w].block_id)
    /\ pc[w] = "modify_put" =>
         Describes(iv[w], req[w].data) /\ content[iv[w].block_id][iv[w].offset] = req[w].data
    /\ pc[w] \in UsingNew => Describes(new_iv[w], req[w].data)
    /\ pc[w] = "append_put" => content[new_iv[w].block_id][new_iv[w].offset] = req[w].data
    /\ pc[w] = "find_read" => content[iv[w].block_id][iv[w].offset] = iv[w].crc32
AllKnow == \A w \in Workers : Knows(w)

\* The block of a record that is not being rewritten holds its data.
Intact ==
    \A b \in Buckets, k \in Keys :
        index[b][k] # None /\ (\A w \in Workers : ~ Rewriting(w, b, k)) =>
            content[index[b][k].block_id][index[b][k].offset] = index[b][k].crc32

\* A failed assertion stops the process, in the middle of whatever writes.
NoAbort == \A w \in Workers : pc[w] # "abort"
AbortTogether == NoAbort \/ \A w \in Workers : pc[w] = "abort"
DataInv == NoAbort => EntriesDescribe /\ AllKnow /\ Intact

-----------------------------------------------------------------------------
(* The locks that readers and writers rely on.                             *)

\* What one call of rwlock.c by w makes of a lock.
LockMove(l, m, w) ==
    \/ CanShare(l) /\ m = Share(l, w)
    \/ m = Unshare(l, w)
    \/ CanOwn(l) /\ m = Own(l, w)
    \/ m = Disown(l, w)
OneLockMoves(K, t, t2, w) ==
    t2 = t \/ \E k \in K : \E m : LockMove(t[k], m, w) /\ t2 = [t EXCEPT ![k] = m]

\* A lock operation of w keeps readers and writers apart, and leaves every
\* other thread's hold as it is.
LEMMA LockMoveEffect ==
    ASSUME NEW l \in LockType(Workers), NEW w \in Workers, NEW m, LockMove(l, m, w), Apart(l)
    PROVE  /\ Apart(m)
           /\ \A u \in Workers : u # w =>
                m.rd[u] = l.rd[u] /\ (l.wr = {u} => m.wr = {u})
<1>1. CASE CanShare(l) /\ m = Share(l, w)
  BY <1>1, LockOpsEffect DEF CanShare, Apart
<1>2. CASE m = Unshare(l, w)
  <2>1. m.wr = l.wr /\ m.rd = [l.rd EXCEPT ![w] = IF @ > 0 THEN @ - 1 ELSE 0] /\ l.rd \in [Workers -> Nat]
    BY <1>2 DEF Unshare, LockType
  <2> QED
    BY <2>1 DEF Apart
<1>3. CASE CanOwn(l) /\ m = Own(l, w)
  <2>1. \A u \in Workers : l.rd[u] = 0
    BY <1>3 DEF CanOwn, LockType
  <2>2. l.wr = {} /\ m.rd = l.rd
    BY <1>3, LockOpsEffect DEF CanOwn
  <2> QED
    BY <2>1, <2>2 DEF Apart
<1>4. CASE m = Disown(l, w)
  <2>1. m.wr = l.wr \ {w} /\ m.rd = l.rd
    BY <1>4, LockOpsEffect
  <2> QED
    BY <2>1 DEF Apart
<1> QED
  BY <1>1, <1>2, <1>3, <1>4 DEF LockMove

\* The same for a table of locks of which at most one moves.
LEMMA OneLockMovesEffect ==
    ASSUME NEW K, NEW t \in [K -> LockType(Workers)], NEW t2, NEW w \in Workers,
           OneLockMoves(K, t, t2, w), \A k \in K : Apart(t[k])
    PROVE  \A k \in K :
             /\ Apart(t2[k])
             /\ \A u \in Workers : u # w =>
                  t2[k].rd[u] = t[k].rd[u] /\ (t[k].wr = {u} => t2[k].wr = {u})
<1>1. CASE t2 = t
  BY <1>1
<1>2. CASE t2 # t
  <2>0. PICK j \in K : \E m : LockMove(t[j], m, w) /\ t2 = [t EXCEPT ![j] = m]
    BY <1>2 DEF OneLockMoves
  <2>1. PICK m : LockMove(t[j], m, w) /\ t2 = [t EXCEPT ![j] = m]
    BY <2>0
  <2>2. t[j] \in LockType(Workers) /\ \A k \in K : t2[k] = IF k = j THEN m ELSE t[k]
    BY <2>1
  <2> QED
    BY <2>1, <2>2, LockMoveEffect
<1> QED
  BY <1>1, <1>2

\* A step of a worker moves at most one index lock and one file lock.
LEMMA StepsMoveLocks ==
    ASSUME TypeInv, NEW w \in Workers, Steps(w)
    PROVE  /\ OneLockMoves(Buckets, index_lock, index_lock', w)
           /\ OneLockMoves(Files, file_lock, file_lock', w)
<1>1. pc[w] \notin {"idle", "abort"} => req[w].bucket \in Buckets
  BY RequestOfCall
<1>2. pc[w] \in UsingIv => iv[w].block_id \in Files
  BY DEF TypeInv, CallsOK, Entry
<1>3. pc[w] \in UsingNew => new_iv[w].block_id \in Files
  BY DEF TypeInv, CallsOK, Entry
<1>4. pc[w] = "append" => NewBlock(w) \in Files
  BY DEF TypeInv, CallsOK
<1>5. CASE FindRecord(w)
  BY <1>1, <1>5 DEF FindRecord, OneLockMoves, LockMove, ShareIndex, UnshareIndex, OwnIndex, DisownIndex, UsingIv, UsingNew
<1>6. CASE FindNoMemory(w)
  BY <1>1, <1>6 DEF FindNoMemory, OneLockMoves, LockMove, ShareIndex, UnshareIndex, OwnIndex, DisownIndex, UsingIv, UsingNew
<1>7. CASE FindLockFile(w)
  BY <1>1, <1>2, <1>7 DEF FindLockFile, OneLockMoves, LockMove, ShareIndex, UnshareIndex, OwnIndex, DisownIndex, UsingIv, UsingNew
<1>8. CASE FindRead(w)
  BY <1>1, <1>2, <1>8 DEF FindRead, OneLockMoves, LockMove, ShareIndex, UnshareIndex, OwnIndex, DisownIndex, UsingIv, UsingNew
<1>9. CASE ModifyStart(w)
  BY <1>1, <1>2, <1>9 DEF ModifyStart, OneLockMoves, LockMove, ShareIndex, UnshareIndex, OwnIndex, DisownIndex, UsingIv, UsingNew
<1>10. CASE ModifyWrite(w)
  BY <1>1, <1>2, <1>10 DEF ModifyWrite, OneLockMoves, LockMove, ShareIndex, UnshareIndex, OwnIndex, DisownIndex, UsingIv, UsingNew
<1>11. CASE ReuseSlot(w)
  BY <1>1, <1>4, <1>11 DEF ReuseSlot, OneLockMoves, LockMove, ShareIndex, UnshareIndex, OwnIndex, DisownIndex, UsingIv, UsingNew
<1>12. CASE GrowFile(w)
  BY <1>1, <1>4, <1>12 DEF GrowFile, OneLockMoves, LockMove, ShareIndex, UnshareIndex, OwnIndex, DisownIndex, UsingIv, UsingNew
<1>13. CASE AppendWrite(w)
  BY <1>1, <1>3, <1>13 DEF AppendWrite, OneLockMoves, LockMove, ShareIndex, UnshareIndex, OwnIndex, DisownIndex, UsingIv, UsingNew
<1>14. CASE UpdateFound(w)
  BY <1>1, <1>14 DEF UpdateFound, OneLockMoves, LockMove, ShareIndex, UnshareIndex, OwnIndex, DisownIndex, UsingIv, UsingNew
<1>15. CASE UpdateNotFound(w)
  BY <1>1, <1>15 DEF UpdateNotFound, OneLockMoves, LockMove, ShareIndex, UnshareIndex, OwnIndex, DisownIndex, UsingIv, UsingNew
<1>16. CASE DeleteFound(w)
  BY <1>1, <1>16 DEF DeleteFound, OneLockMoves, LockMove, ShareIndex, UnshareIndex, OwnIndex, DisownIndex, UsingIv, UsingNew
<1>17. CASE DeleteNotFound(w)
  BY <1>1, <1>17 DEF DeleteNotFound, OneLockMoves, LockMove, ShareIndex, UnshareIndex, OwnIndex, DisownIndex, UsingIv, UsingNew
<1>18. CASE LookupFails(w)
  BY <1>1, <1>18 DEF LookupFails, OneLockMoves, LockMove, ShareIndex, UnshareIndex, OwnIndex, DisownIndex, UsingIv, UsingNew
<1>19. CASE UnlockIndex(w)
  BY <1>1, <1>19 DEF UnlockIndex, OneLockMoves, LockMove, ShareIndex, UnshareIndex, OwnIndex, DisownIndex, UsingIv, UsingNew
<1>20. CASE FindNothing(w) \/ ModifyPut(w) \/ AppendPut(w) \/ DeleteRecord(w) \/ FreeSlot(w) \/ LeakSlot(w) \/ DeleteSyncHeader(w) \/ DeleteSyncSlot(w) \/ Return(w) \/ Call(w)
  BY <1>20 DEF OneLockMoves, FindNothing, ModifyPut, AppendPut, DeleteRecord, FreeSlot, LeakSlot, DeleteSyncHeader, DeleteSyncSlot, Return, Call
<1> QED
  BY <1>5, <1>6, <1>7, <1>8, <1>9, <1>10, <1>11, <1>12, <1>13, <1>14, <1>15, <1>16, <1>17, <1>18, <1>19, <1>20 DEF Steps

\* The worker that moves holds the lock that its new place needs.
LEMMA MoverLocked ==
    ASSUME TypeInv, LockInv, NEW w \in Workers, Steps(w)
    PROVE  Locked(w)'
<1>0. index_lock \in [Buckets -> LockType(Workers)] /\ file_lock \in [Files -> LockType(Workers)]
  BY DEF TypeInv, TypeOK
<1>1. /\ pc \in [Workers -> Places] /\ iv \in [Workers -> Entry \cup {NoEntry}]
      /\ new_iv \in [Workers -> Entry \cup {NoEntry}]
  BY DEF TypeInv, TypeOK
<1>2. CASE FindRecord(w)
  <2>1. pc'[w] = "find_file" /\ req' = req /\ req[w].bucket \in Buckets
    BY <1>1, <1>2, RequestOfCall DEF FindRecord, Goto
  <2>2. index_lock' = [index_lock EXCEPT ![req[w].bucket] = Share(@, w)]
    BY <1>2 DEF FindRecord, ShareIndex
  <2>3. \A b \in Buckets, u \in Workers : index_lock'[b].rd[u] =
           IF b = req[w].bucket /\ u = w THEN index_lock[b].rd[u] + 1 ELSE index_lock[b].rd[u]
    BY <1>0, <2>1, <2>2, ShareEffect
  <2>4. index_lock[req[w].bucket].rd[w] \in Nat
    BY <1>0, <2>1 DEF LockType
  <2> QED
    BY <2>1, <2>3, <2>4 DEF Locked, WritingNew
<1>3. CASE FindLockFile(w)
  <2>1. pc'[w] = "find_read" /\ iv' = iv /\ iv[w].block_id \in Files
    BY <1>1, <1>3 DEF FindLockFile, Goto, locals, TypeInv, CallsOK, UsingIv, Entry
  <2>2. file_lock' = [file_lock EXCEPT ![iv[w].block_id] = Share(@, w)]
    BY <1>3 DEF FindLockFile
  <2>3. file_lock'[iv[w].block_id].rd[w] = file_lock[iv[w].block_id].rd[w] + 1
    BY <1>0, <2>1, <2>2, ShareEffect
  <2>4. file_lock[iv[w].block_id].rd[w] \in Nat
    BY <1>0, <2>1 DEF LockType
  <2> QED
    BY <2>1, <2>3, <2>4 DEF Locked, WritingNew
<1>4. CASE ModifyStart(w) \/ ReuseSlot(w) \/ GrowFile(w)
  <2>1. PICK f \in Files :
          /\ CanOwn(file_lock[f]) /\ file_lock' = [file_lock EXCEPT ![f] = Own(@, w)]
          /\ \/ pc'[w] = "modify_write" /\ iv'[w].block_id = f
             \/ pc'[w] \in WritingNew /\ new_iv'[w].block_id = f
    <3>1. CASE ModifyStart(w)
      BY <1>1, <3>1 DEF ModifyStart, Goto, locals, TypeInv, CallsOK, UsingIv, Entry
    <3>2. CASE ReuseSlot(w)
      BY <1>1, <3>2 DEF ReuseSlot, NewValue, Goto, TypeInv, CallsOK, WritingNew
    <3>3. CASE GrowFile(w)
      BY <1>1, <3>3 DEF GrowFile, NewValue, Goto, TypeInv, CallsOK, WritingNew
    <3> QED
      BY <1>4, <3>1, <3>2, <3>3
  <2>2. \A g \in Files :
          file_lock'[g].rd = file_lock[g].rd /\ file_lock'[g].wr = IF g = f THEN {w} ELSE file_lock[g].wr
    <3>1. CanOwn(file_lock[f]) /\ file_lock' = [file_lock EXCEPT ![f] = Own(@, w)]
      BY <2>1
    <3> QED
      BY <1>0, <3>1, OwnEffect
  <2> QED
    BY <2>1, <2>2 DEF Locked, WritingNew
<1>5. CASE ~(FindRecord(w) \/ FindLockFile(w) \/ ModifyStart(w) \/ ReuseSlot(w) \/ GrowFile(w))
  <2> SUFFICES pc'[w] \notin {"find_file", "find_read", "modify_write", "append_reuse", "append_grow"}
    BY DEF Locked, WritingNew
  <2> USE <1>1 DEF Goto
  <2>1. ~Call(w) \/ pc'[w] \in {"find", "update", "delete"}
    BY RequestFields DEF Call
  <2>2. ~DeleteRecord(w) \/ pc'[w] \in {"delete_slot", "unlock"}
    BY DEF DeleteRecord
  <2>3. ~(LeakSlot(w) \/ DeleteSyncSlot(w)) \/ pc'[w] \in {"unlock", "append"}
    BY DEF LeakSlot, DeleteSyncSlot, AfterDelete
  <2>4. ~(UpdateFound(w) \/ UpdateNotFound(w)) \/ pc'[w] \in {"modify", "delete_record", "unlock", "append"}
    BY DEF UpdateFound, UpdateNotFound
  <2>5. \/ Call(w) \/ DeleteRecord(w) \/ LeakSlot(w) \/ DeleteSyncSlot(w) \/ UpdateFound(w) \/ UpdateNotFound(w)
        \/ pc'[w] \in {"done", "idle", "unlock", "modify_put", "append_put", "delete_header",
                       "delete_sync_slot", "delete_record"}
    BY <1>5 DEF Steps, FindNothing, FindNoMemory, FindRead, ModifyWrite, ModifyPut, AppendWrite,
       AppendPut, FreeSlot, DeleteSyncHeader, DeleteFound, DeleteNotFound, LookupFails,
       UnlockIndex, Return
  <2> QED
    BY <2>1, <2>2, <2>3, <2>4, <2>5
<1> QED
  BY <1>2, <1>3, <1>4, <1>5

\* Readers and writers stay apart, and everyone keeps the lock its place needs.
LEMMA LockStep ==
    ASSUME TypeInv, LockInv, NEW w \in Workers, Steps(w)
    PROVE  LockInv'
<1>1. index_lock \in [Buckets -> LockType(Workers)] /\ file_lock \in [Files -> LockType(Workers)]
  BY DEF TypeInv, TypeOK
<1>2. \A b \in Buckets :
        /\ Apart(index_lock'[b])
        /\ \A u \in Workers : u # w => index_lock'[b].rd[u] = index_lock[b].rd[u]
  <2>1. OneLockMoves(Buckets, index_lock, index_lock', w)
    BY StepsMoveLocks
  <2> QED
    BY <1>1, <2>1, OneLockMovesEffect DEF LockInv, LocksApart
<1>3. \A f \in Files :
        /\ Apart(file_lock'[f])
        /\ \A u \in Workers : u # w =>
             file_lock'[f].rd[u] = file_lock[f].rd[u] /\ (file_lock[f].wr = {u} => file_lock'[f].wr = {u})
  <2>1. OneLockMoves(Files, file_lock, file_lock', w)
    BY StepsMoveLocks
  <2> QED
    BY <1>1, <2>1, OneLockMovesEffect DEF LockInv, LocksApart
<1>4. LocksApart'
  BY <1>2, <1>3 DEF LocksApart, Apart
<1>5. ASSUME NEW u \in Workers, u # w PROVE Locked(u)'
  <2>1. SamePlace(u) /\ Locked(u)
    BY <1>5, OthersStay DEF LockInv, AllLocked
  <2>2. pc[u] = "find_file" => req[u].bucket \in Buckets
    BY RequestOfCall
  <2>3. pc[u] \in {"find_read", "modify_write"} => iv[u].block_id \in Files
    BY DEF TypeInv, CallsOK, UsingIv, Entry
  <2>4. pc[u] \in WritingNew => new_iv[u].block_id \in Files
    BY DEF TypeInv, CallsOK, UsingNew, WritingNew, Entry
  <2> QED
    BY <1>2, <1>3, <1>5, <2>1, <2>2, <2>3, <2>4 DEF Locked, SamePlace
<1>6. AllLocked'
  BY <1>5, MoverLocked DEF AllLocked
<1> QED
  BY <1>4, <1>6 DEF LockInv

-----------------------------------------------------------------------------
(* Which blocks a step writes.                                             *)

\* w writes the block (f, s): nobody reads the file, and the block is that of
\* the record that w rewrites, or one that w has taken for a new record.
Writes(w, f, s) ==
    /\ \A u \in Workers : file_lock[f].rd[u] = 0
    /\ \/ /\ Live(f, s, req[w].bucket, req[w].key)
          /\ pc[w] \in Owning /\ pc'[w] \in {"modify_write", "modify_put"} /\ req'[w] = req[w]
       \/ Held(f, s, w)'

\* Only the content of one block changes.
LEMMA OneBlock ==
    ASSUME TypeInv, NEW g \in Files, NEW r \in Slots, NEW c,
           content' = [content EXCEPT ![g][r] = c], NEW f \in Files, NEW s \in Slots
    PROVE  content'[f][s] = content[f][s] \/ (f = g /\ s = r)
  BY DEF TypeInv, TypeOK

\* A block whose content changes is one that the worker writes.
LEMMA ContentChange ==
    ASSUME TypeInv, SlotInv, LockInv, NEW w \in Workers, Steps(w),
           NEW f \in Files, NEW s \in Slots
    PROVE  content'[f][s] = content[f][s] \/ Writes(w, f, s)
<1>0. pc \in [Workers -> Places] /\ iv \in [Workers -> Entry \cup {NoEntry}]
      /\ new_iv \in [Workers -> Entry \cup {NoEntry}]
  BY DEF TypeInv, TypeOK
<1>a. ASSUME NEW g \in Files, file_lock[g].wr = {w} PROVE \A u \in Workers : file_lock[g].rd[u] = 0
  BY <1>a DEF LockInv, LocksApart, Apart
<1>b. ASSUME NEW g \in Files, CanOwn(file_lock[g]) PROVE \A u \in Workers : file_lock[g].rd[u] = 0
  BY <1>b DEF CanOwn, TypeInv, TypeOK, LockType
<1>1. CASE ModifyStart(w) \/ ModifyWrite(w)
  <2>1. pc[w] \in {"modify", "modify_write"} /\ iv[w].block_id \in Files /\ iv[w].offset \in Slots
    BY <1>1 DEF ModifyStart, ModifyWrite, TypeInv, CallsOK, UsingIv, Entry
  <2>2. \E c : content' = [content EXCEPT ![iv[w].block_id][iv[w].offset] = c]
    BY <1>1 DEF ModifyStart, ModifyWrite
  <2>3. content'[f][s] = content[f][s] \/ (f = iv[w].block_id /\ s = iv[w].offset)
    BY <2>1, <2>2, OneBlock
  <2>4. Live(iv[w].block_id, iv[w].offset, req[w].bucket, req[w].key)
    BY <2>1 DEF SlotInv, IvCurrent, Editing, Current, Record, Live
  <2>5. pc[w] \in Owning /\ pc'[w] \in {"modify_write", "modify_put"} /\ req'[w] = req[w]
    BY <1>0, <1>1, <2>1 DEF ModifyStart, ModifyWrite, Goto, Owning
  <2>6. CanOwn(file_lock[iv[w].block_id]) \/ file_lock[iv[w].block_id].wr = {w}
    BY <1>1 DEF ModifyStart, ModifyWrite, LockInv, AllLocked, Locked
  <2> QED
    BY <1>a, <1>b, <2>1, <2>3, <2>4, <2>5, <2>6 DEF Writes
<1>2. CASE ReuseSlot(w)
  <2>1. PICK g \in Files : g = NewBlock(w) /\ CanOwn(file_lock[g])
    BY <1>2 DEF ReuseSlot, TypeInv, CallsOK
  <2>2. free_slots_offset[g][free_slots_cnt[g] - 1] \in Slots
    <3>1. free_slots_cnt[g] \in 0 .. MAX_FREE_SLOTS /\ free_slots_cnt[g] # 0 /\ MAX_FREE_SLOTS \in Nat
      BY <1>2, <2>1, StorageAssumption DEF ReuseSlot, TypeInv, TypeOK
    <3>2. free_slots_cnt[g] - 1 \in Positions /\ free_slots_cnt[g] - 1 < free_slots_cnt[g]
      BY <3>1 DEF Positions
    <3> QED
      BY <3>2 DEF TypeInv, OffsetsOK
  <2>3. PICK r \in Slots : r = free_slots_offset[g][free_slots_cnt[g] - 1]
    BY <2>2
  <2>4. /\ content' = [content EXCEPT ![g][r] = Torn] /\ pc'[w] = "append_reuse"
        /\ new_iv'[w].block_id = g /\ new_iv'[w].offset = r
    BY <1>0, <1>2, <2>1, <2>3 DEF ReuseSlot, Goto, NewValue
  <2>5. content'[f][s] = content[f][s] \/ (f = g /\ s = r)
    BY <2>4, OneBlock
  <2>6. Held(g, r, w)'
    BY <2>4 DEF Held
  <2> QED
    BY <1>b, <2>1, <2>5, <2>6 DEF Writes
<1>3. CASE GrowFile(w)
  <2>1. PICK g \in Files : g = NewBlock(w) /\ CanOwn(file_lock[g])
    BY <1>3 DEF GrowFile, TypeInv, CallsOK
  <2>2. PICK r \in Slots : r = block_cnt[g] + 1
    BY <1>3, <2>1 DEF GrowFile
  <2>3. /\ content' = [content EXCEPT ![g][r] = Torn] /\ pc'[w] = "append_grow"
        /\ new_iv'[w].block_id = g /\ new_iv'[w].offset = r
    BY <1>0, <1>3, <2>1, <2>2 DEF GrowFile, Goto, NewValue
  <2>4. content'[f][s] = content[f][s] \/ (f = g /\ s = r)
    BY <2>3, OneBlock
  <2>5. Held(g, r, w)'
    BY <2>3 DEF Held
  <2> QED
    BY <1>b, <2>1, <2>4, <2>5 DEF Writes
<1>4. CASE AppendWrite(w)
  <2>1. PICK g \in Files, r \in Slots : g = new_iv[w].block_id /\ r = new_iv[w].offset
    BY <1>4 DEF AppendWrite, TypeInv, CallsOK, UsingNew, Entry
  <2>2. content' = content \/ content' = [content EXCEPT ![g][r] = req[w].data]
    BY <1>4, <2>1 DEF AppendWrite
  <2>3. content'[f][s] = content[f][s] \/ (f = g /\ s = r)
    BY <2>2, OneBlock
  <2>4. Held(g, r, w)'
    BY <1>0, <1>4, <2>1 DEF AppendWrite, Goto, Held, locals
  <2>5. file_lock[g].wr = {w}
    BY <1>4, <2>1 DEF AppendWrite, LockInv, AllLocked, Locked, WritingNew
  <2> QED
    BY <1>a, <2>3, <2>4, <2>5 DEF Writes
<1>5. CASE ~(ModifyStart(w) \/ ModifyWrite(w) \/ ReuseSlot(w) \/ GrowFile(w) \/ AppendWrite(w))
  <2>1. UNCHANGED content
    BY <1>5 DEF Steps, filevars, FindRecord, FindNothing, FindNoMemory, FindLockFile, FindRead,
       ModifyPut, AppendPut, DeleteRecord, FreeSlot, LeakSlot, DeleteSyncHeader, DeleteSyncSlot,
       UpdateFound, UpdateNotFound, DeleteFound, DeleteNotFound, LookupFails, UnlockIndex, Return, Call
  <2> QED
    BY <2>1
<1> QED
  BY <1>1, <1>2, <1>3, <1>4, <1>5

\* A step leaves the block of a record alone, unless the step rewrites it.
LEMMA LiveBlockStays ==
    ASSUME TypeInv, SlotInv, SlotInv', LockInv, NEW w \in Workers, Steps(w),
           NEW b \in Buckets, NEW k \in Keys, index[b][k] # None, index'[b][k] = index[b][k]
    PROVE  \/ content'[index[b][k].block_id][index[b][k].offset]
                 = content[index[b][k].block_id][index[b][k].offset]
           \/ b = req[w].bucket /\ k = req[w].key /\ pc[w] \in Owning /\ Rewriting(w, b, k)'
<1>1. PICK f \in Files, s \in Slots : f = index[b][k].block_id /\ s = index[b][k].offset
  BY DEF TypeInv, TypeOK, OffsetsOK, Entry
<1>2. Live(f, s, b, k) /\ Live(f, s, b, k)'
  BY <1>1 DEF Live
<1>3. CASE content'[f][s] = content[f][s]
  BY <1>1, <1>3
<1>4. CASE Writes(w, f, s)
  <2>1. ~Held(f, s, w)'
    BY <1>1, <1>2 DEF SlotInv, NoSharedSlot
  <2>2. /\ Live(f, s, req[w].bucket, req[w].key) /\ pc[w] \in Owning
        /\ pc'[w] \in {"modify_write", "modify_put"} /\ req'[w] = req[w]
    BY <1>4, <2>1 DEF Writes
  <2>3. req[w].bucket \in Buckets /\ req[w].key \in Keys
    BY <2>2, RequestOfCall DEF Owning, UsingNew, Deleting
  <2>4. b = req[w].bucket /\ k = req[w].key
    BY <1>1, <1>2, <2>2, <2>3 DEF SlotInv, NoSharedSlot
  <2> QED
    BY <2>2, <2>4 DEF Rewriting
<1> QED
  BY <1>1, <1>3, <1>4, ContentChange

-----------------------------------------------------------------------------
(* Every block keeps the data of its record.                               *)

\* What a step makes of an index entry.
LEMMA IndexBecomes ==
    ASSUME TypeInv, NEW w \in Workers, Steps(w), NEW b \in Buckets, NEW k \in Keys
    PROVE  \/ index'[b][k] = index[b][k]
           \/ /\ b = req[w].bucket /\ k = req[w].key
              /\ \/ ModifyPut(w) /\ index'[b][k] = iv[w]
                 \/ AppendPut(w) /\ index'[b][k] = new_iv[w]
                 \/ DeleteRecord(w) /\ index'[b][k] = None
<1>0. index \in [Buckets -> [Keys -> Entry \cup {None}]]
  BY DEF TypeInv, TypeOK
<1>1. CASE ModifyPut(w)
  <2>1. index' = [index EXCEPT ![req[w].bucket][req[w].key] = iv[w]] \/ index' = index
    BY <1>1 DEF ModifyPut
  <2> QED
    BY <1>0, <1>1, <2>1
<1>2. CASE AppendPut(w)
  <2>1. index' = [index EXCEPT ![req[w].bucket][req[w].key] = new_iv[w]] \/ index' = index
    BY <1>2 DEF AppendPut
  <2> QED
    BY <1>0, <1>2, <2>1
<1>3. CASE DeleteRecord(w)
  <2>1. index' = [index EXCEPT ![req[w].bucket][req[w].key] = None] \/ index' = index
    BY <1>3 DEF DeleteRecord
  <2> QED
    BY <1>0, <1>3, <2>1
<1>4. CASE ~(ModifyPut(w) \/ AppendPut(w) \/ DeleteRecord(w))
  <2>1. UNCHANGED index
    BY <1>4 DEF Steps, indexvars, FindRecord, FindNothing, FindNoMemory, FindLockFile, FindRead,
       ModifyStart, ModifyWrite, ReuseSlot, GrowFile, AppendWrite, FreeSlot, LeakSlot,
       DeleteSyncHeader, DeleteSyncSlot, UpdateFound, UpdateNotFound, DeleteFound,
       DeleteNotFound, LookupFails, UnlockIndex, Return, Call
  <2> QED
    BY <2>1
<1> QED
  BY <1>1, <1>2, <1>3, <1>4

\* The index entries describe data that fits its block.
LEMMA EntriesStep ==
    ASSUME TypeInv, EntriesDescribe, AllKnow, NEW w \in Workers, Steps(w)
    PROVE  EntriesDescribe'
<1> SUFFICES ASSUME NEW b \in Buckets, NEW k \in Keys, index'[b][k] # None
             PROVE  Describes(index'[b][k], index'[b][k].crc32)
  BY DEF EntriesDescribe, Describes
<1>1. CASE index'[b][k] = index[b][k]
  BY <1>1 DEF EntriesDescribe
<1>2. CASE ModifyPut(w) /\ index'[b][k] = iv[w]
  BY <1>2 DEF ModifyPut, AllKnow, Knows, Describes
<1>3. CASE AppendPut(w) /\ index'[b][k] = new_iv[w]
  BY <1>3 DEF AppendPut, AllKnow, Knows, Describes, UsingNew
<1> QED
  BY <1>1, <1>2, <1>3, IndexBecomes

\* The block of a record holds its data, unless the record is being rewritten.
LEMMA IntactStep ==
    ASSUME WritesSucceed, TypeInv, SlotInv, SlotInv', LockInv, AllKnow, Intact,
           NEW w \in Workers, Steps(w)
    PROVE  Intact'
<1> SUFFICES ASSUME NEW b \in Buckets, NEW k \in Keys, index'[b][k] # None,
                    \A u \in Workers : ~Rewriting(u, b, k)'
             PROVE  content'[index'[b][k].block_id][index'[b][k].offset] = index'[b][k].crc32
  BY DEF Intact
<1>1. CASE ModifyPut(w) /\ b = req[w].bucket /\ k = req[w].key
  <2>1. index' = [index EXCEPT ![b][k] = iv[w]]
    BY <1>1 DEF ModifyPut, MayFail, WritesSucceed
  <2>2. index'[b][k] = iv[w]
    BY <2>1 DEF TypeInv, TypeOK
  <2>3. UNCHANGED content
    BY <1>1 DEF ModifyPut, filevars
  <2> QED
    BY <1>1, <2>2, <2>3 DEF ModifyPut, AllKnow, Knows, Describes
<1>2. CASE AppendPut(w) /\ index'[b][k] = new_iv[w]
  <2>1. UNCHANGED content
    BY <1>2 DEF AppendPut, filevars
  <2> QED
    BY <1>2, <2>1 DEF AppendPut, AllKnow, Knows, Describes, UsingNew
<1>3. CASE index'[b][k] = index[b][k] /\ ~(ModifyPut(w) /\ b = req[w].bucket /\ k = req[w].key)
  <2>1. \A u \in Workers : ~Rewriting(u, b, k)
    <3> SUFFICES ASSUME NEW u \in Workers, Rewriting(u, b, k) PROVE FALSE
      OBVIOUS
    <3>1. CASE u # w
      <4>1. SamePlace(u)
        BY <3>1, OthersStay
      <4> QED
        BY <4>1 DEF Rewriting, SamePlace
    <3>2. CASE u = w
      <4>1. pc[w] \in {"modify_write", "modify_put"} /\ b = req[w].bucket /\ k = req[w].key
        BY <3>2 DEF Rewriting
      <4>2. ModifyWrite(w)
        BY <1>3, <4>1 DEF Steps, FindRecord, FindNothing, FindNoMemory, FindLockFile, FindRead, ModifyStart,
           ReuseSlot, GrowFile, AppendWrite, AppendPut, DeleteRecord, FreeSlot, LeakSlot,
           DeleteSyncHeader, DeleteSyncSlot, UpdateFound, UpdateNotFound, DeleteFound,
           DeleteNotFound, LookupFails, UnlockIndex, Return, Call
      <4>3. pc'[w] = "modify_put" /\ req' = req
        BY <4>2 DEF ModifyWrite, Goto, TypeInv, TypeOK
      <4> QED
        BY <4>1, <4>3 DEF Rewriting
    <3> QED
      BY <3>1, <3>2
  <2>2. content[index[b][k].block_id][index[b][k].offset] = index[b][k].crc32
    BY <1>3, <2>1 DEF Intact
  <2>3. content'[index[b][k].block_id][index[b][k].offset] = content[index[b][k].block_id][index[b][k].offset]
    BY <1>3, LiveBlockStays
  <2> QED
    BY <1>3, <2>2, <2>3
<1> QED
  BY <1>1, <1>2, <1>3, IndexBecomes

\* A step of w takes nothing from what another worker knows.
LEMMA OthersKnow ==
    ASSUME TypeInv, SlotInv, SlotInv', LockInv, AllKnow, NEW w \in Workers, Steps(w),
           NEW u \in Workers, u # w
    PROVE  Knows(u)'
<1>1. SamePlace(u) /\ Knows(u)
  BY OthersStay DEF AllKnow
<1>2. pc[u] \notin {"idle", "abort"} => req[u].bucket \in Buckets /\ req[u].key \in Keys
  BY RequestOfCall
<1>3. pc[u] \in {"find_file"} \cup Owning => Record(u)' = Record(u)
  <2> SUFFICES ASSUME pc[u] \in {"find_file"} \cup Owning PROVE Record(u)' = Record(u)
    OBVIOUS
  <2>1. req[u].bucket \in Buckets /\ req[u].key \in Keys
    BY <1>2 DEF Owning, UsingNew, Deleting
  <2>2. CASE pc[u] \in Owning
    BY <1>1, <2>1, <2>2, IndexChange, OwnersApart DEF SamePlace, Record, SlotInv
  <2>3. CASE pc[u] = "find_file"
    <3>1. index_lock[req[u].bucket].rd[u] > 0
      BY <2>3 DEF LockInv, AllLocked, Locked
    <3>2. index_lock[req[u].bucket].wr = {}
      BY <2>1, <3>1 DEF LockInv, LocksApart, Apart
    <3>3. ~(pc[w] \in Owning /\ req[u].bucket = req[w].bucket)
      BY <3>2 DEF SlotInv, Exclusive
    <3> QED
      BY <1>1, <2>1, <3>3, IndexChange DEF SamePlace, Record
  <2> QED
    BY <2>2, <2>3
<1>4. pc[u] = "modify_put" =>
        content'[iv[u].block_id][iv[u].offset] = content[iv[u].block_id][iv[u].offset]
  <2> SUFFICES ASSUME pc[u] = "modify_put"
               PROVE  content'[iv[u].block_id][iv[u].offset] = content[iv[u].block_id][iv[u].offset]
    OBVIOUS
  <2>1. Current(u) /\ pc[u] \in Owning /\ req[u].bucket \in Buckets /\ req[u].key \in Keys
    BY <1>2 DEF SlotInv, IvCurrent, Editing, Owning
  <2>2. Record(u)' = Record(u) /\ req'[u] = req[u]
    BY <1>1, <1>3, <2>1 DEF SamePlace
  <2>3. ~(pc[w] \in Owning /\ req[u].bucket = req[w].bucket)
    BY <2>1, OwnersApart DEF SlotInv
  <2> QED
    BY <2>1, <2>2, <2>3, LiveBlockStays DEF Current, Record
<1>5. pc[u] = "append_put" =>
        content'[new_iv[u].block_id][new_iv[u].offset] = content[new_iv[u].block_id][new_iv[u].offset]
  <2> SUFFICES ASSUME pc[u] = "append_put"
               PROVE  content'[new_iv[u].block_id][new_iv[u].offset] = content[new_iv[u].block_id][new_iv[u].offset]
    OBVIOUS
  <2>1. PICK f \in Files, s \in Slots : f = new_iv[u].block_id /\ s = new_iv[u].offset
    BY DEF TypeInv, CallsOK, UsingNew, Entry
  <2>2. Held(f, s, u) /\ Held(f, s, u)'
    BY <1>1, <2>1 DEF Held, SamePlace
  <2>3. ~Held(f, s, w)'
    BY <2>2 DEF SlotInv, NoSharedSlot
  <2>4. pc[w] \in Owning => ~Live(f, s, req[w].bucket, req[w].key)
    BY <2>2, RequestOfCall DEF SlotInv, NoSharedSlot, Owning, UsingNew, Deleting
  <2> QED
    BY <2>1, <2>3, <2>4, ContentChange DEF Writes
<1>6. pc[u] = "find_read" =>
        content'[iv[u].block_id][iv[u].offset] = content[iv[u].block_id][iv[u].offset]
  <2> SUFFICES ASSUME pc[u] = "find_read"
               PROVE  content'[iv[u].block_id][iv[u].offset] = content[iv[u].block_id][iv[u].offset]
    OBVIOUS
  <2>1. PICK f \in Files, s \in Slots : f = iv[u].block_id /\ s = iv[u].offset
    BY DEF TypeInv, CallsOK, UsingIv, Entry
  <2>2. file_lock[f].rd[u] > 0
    BY <2>1 DEF LockInv, AllLocked, Locked
  <2> QED
    BY <2>1, <2>2, ContentChange DEF Writes
<1> QED
  BY <1>1, <1>3, <1>4, <1>5, <1>6 DEF Knows, SamePlace, Fits, Owning, UsingNew, Deleting

\* Where the steps that teach a worker nothing lead.
LEMMA ForgetfulSteps ==
    ASSUME TypeInv, NEW w \in Workers, Steps(w),
           ~(FindRecord(w) \/ FindLockFile(w) \/ UpdateFound(w) \/ DeleteFound(w) \/ ModifyStart(w)
             \/ ModifyWrite(w) \/ ReuseSlot(w) \/ GrowFile(w) \/ AppendWrite(w))
    PROVE  pc'[w] \in {"done", "idle", "unlock", "find", "update", "delete", "delete_slot",
                       "delete_header", "delete_sync_slot", "append"}
<1> USE DEF Goto, TypeInv, TypeOK
<1>1. ~Call(w) \/ pc'[w] \in {"find", "update", "delete"}
  BY RequestFields DEF Call
<1>2. ~DeleteRecord(w) \/ pc'[w] \in {"delete_slot", "unlock"}
  BY DEF DeleteRecord
<1>3. ~(LeakSlot(w) \/ DeleteSyncSlot(w)) \/ pc'[w] \in {"unlock", "append"}
  BY DEF LeakSlot, DeleteSyncSlot, AfterDelete
<1>4. ~UpdateNotFound(w) \/ pc'[w] \in {"unlock", "append"}
  BY DEF UpdateNotFound
<1>5. \/ Call(w) \/ DeleteRecord(w) \/ LeakSlot(w) \/ DeleteSyncSlot(w) \/ UpdateNotFound(w)
      \/ pc'[w] \in {"done", "idle", "unlock", "delete_header", "delete_sync_slot"}
  BY DEF Steps, FindNothing, FindNoMemory, FindRead, ModifyPut, AppendPut, FreeSlot, DeleteSyncHeader,
     DeleteNotFound, LookupFails, UnlockIndex, Return
<1> QED
  BY <1>1, <1>2, <1>3, <1>4, <1>5

\* What the worker that moves knows in its new place.
LEMMA MoverKnows ==
    ASSUME WritesSucceed, TypeInv, SlotInv, LockInv, EntriesDescribe, AllKnow, Intact,
           NEW w \in Workers, Steps(w)
    PROVE  Knows(w)'
<1>0. /\ pc \in [Workers -> Places] /\ iv \in [Workers -> Entry \cup {NoEntry}]
      /\ new_iv \in [Workers -> Entry \cup {NoEntry}] /\ content \in [Files -> [Slots -> Data \cup {None, Torn}]]
  BY DEF TypeInv, TypeOK
<1>k. Knows(w)
  BY DEF AllKnow
<1>1. CASE FindRecord(w)
  <2>1. pc'[w] = "find_file" /\ Record(w) # None /\ iv'[w] = Record(w) /\ Record(w)' = Record(w)
    BY <1>0, <1>1 DEF FindRecord, Goto, Record, indexvars
  <2> QED
    BY <2>1 DEF Knows, UsingNew
<1>2. CASE FindLockFile(w)
  <2>1. pc[w] = "find_file" /\ pc'[w] = "find_read" /\ UNCHANGED <<iv, content>>
    BY <1>0, <1>2 DEF FindLockFile, Goto, locals, filevars
  <2>2. Record(w) # None /\ Record(w) = iv[w]
    BY <1>k, <2>1 DEF Knows
  <2>3. req[w].bucket \in Buckets /\ req[w].key \in Keys
    BY <2>1, RequestOfCall
  <2>4. index_lock[req[w].bucket].wr = {}
    BY <2>1, <2>3 DEF LockInv, LocksApart, Apart, AllLocked, Locked
  <2>5. \A u \in Workers : ~Rewriting(u, req[w].bucket, req[w].key)
    BY <2>4 DEF SlotInv, Exclusive, Rewriting, Owning
  <2>6. content[iv[w].block_id][iv[w].offset] = iv[w].crc32
    BY <2>2, <2>3, <2>5 DEF Intact, Record
  <2> QED
    BY <2>1, <2>6 DEF Knows, UsingNew
<1>3. CASE UpdateFound(w) \/ DeleteFound(w)
  <2>1. /\ Record(w) # None /\ iv'[w] = Record(w) /\ Record(w)' = Record(w) /\ req'[w] = req[w]
        /\ pc'[w] \in {"modify", "delete_record"} /\ (pc'[w] = "modify" => Fits(w, Record(w).block_id))
    BY <1>0, <1>3 DEF UpdateFound, DeleteFound, Goto, Record, indexvars
  <2> QED
    BY <2>1 DEF Knows, UsingNew, Fits
<1>4. CASE ModifyStart(w)
  <2>1. /\ pc[w] = "modify" /\ pc'[w] = "modify_write" /\ UNCHANGED <<iv, req>>
        /\ Record(w)' = Record(w)
    BY <1>0, <1>4 DEF ModifyStart, Goto, Record, indexvars, locals
  <2> QED
    BY <1>k, <2>1 DEF Knows, UsingNew, Fits
<1>5. CASE ModifyWrite(w)
  <2>1. pc[w] = "modify_write" /\ pc'[w] = "modify_put" /\ UNCHANGED req
    BY <1>0, <1>5 DEF ModifyWrite, Goto
  <2>2. iv[w].block_id \in Files /\ iv[w].offset \in Slots
    BY <2>1 DEF TypeInv, CallsOK, UsingIv, Entry
  <2>3. req[w].data \in Data
    BY <2>1, RequestOfCall DEF TypeInv, CallsOK, Setting
  <2>4. /\ iv'[w].crc32 = req[w].data /\ iv'[w].data_size = DataSize[req[w].data]
        /\ iv'[w].block_id = iv[w].block_id /\ iv'[w].offset = iv[w].offset
    BY <1>0, <1>5 DEF ModifyWrite
  <2>5. content'[iv[w].block_id][iv[w].offset] = req[w].data
    BY <1>0, <1>5, <2>2 DEF ModifyWrite
  <2>6. Fits(w, iv[w].block_id)
    BY <1>k, <2>1 DEF Knows
  <2> QED
    BY <2>1, <2>3, <2>4, <2>5, <2>6 DEF Knows, UsingNew, Fits, Describes
<1>6. CASE ReuseSlot(w) \/ GrowFile(w)
  <2>1. /\ pc[w] = "append" /\ pc'[w] \in WritingNew /\ req'[w] = req[w] /\ Fits(w, NewBlock(w))
        /\ \E r : new_iv'[w] = NewValue(w, r)
    BY <1>0, <1>6 DEF ReuseSlot, GrowFile, Goto, WritingNew
  <2>2. req[w].data \in Data
    BY <2>1, RequestOfCall DEF TypeInv, CallsOK, Setting
  <2>3. Describes(new_iv'[w], req[w].data)
    BY <2>1, <2>2 DEF Describes, NewValue, Fits
  <2> QED
    BY <2>1, <2>3 DEF Knows, WritingNew, Describes
<1>7. CASE AppendWrite(w)
  <2>1. pc[w] \in WritingNew /\ pc'[w] = "append_put" /\ UNCHANGED <<req, new_iv>>
    BY <1>0, <1>7 DEF AppendWrite, Goto, WritingNew, locals
  <2>2. new_iv[w].block_id \in Files /\ new_iv[w].offset \in Slots
    BY <2>1 DEF TypeInv, CallsOK, UsingNew, WritingNew, Entry
  <2>3. content' = [content EXCEPT ![new_iv[w].block_id][new_iv[w].offset] = req[w].data]
    BY <1>7 DEF AppendWrite, MayFail, WritesSucceed
  <2>4. content'[new_iv[w].block_id][new_iv[w].offset] = req[w].data
    BY <1>0, <2>2, <2>3
  <2>5. Describes(new_iv[w], req[w].data)
    BY <1>k, <2>1 DEF Knows, UsingNew, WritingNew
  <2> QED
    BY <2>1, <2>4, <2>5 DEF Knows, Describes
<1>8. CASE ~(FindRecord(w) \/ FindLockFile(w) \/ UpdateFound(w) \/ DeleteFound(w) \/ ModifyStart(w)
             \/ ModifyWrite(w) \/ ReuseSlot(w) \/ GrowFile(w) \/ AppendWrite(w))
  <2>1. pc'[w] \in {"done", "idle", "unlock", "find", "update", "delete", "delete_slot",
                    "delete_header", "delete_sync_slot", "append"}
    BY <1>8, ForgetfulSteps
  <2> QED
    BY <2>1 DEF Knows, UsingNew
<1> QED
  BY <1>1, <1>2, <1>3, <1>4, <1>5, <1>6, <1>7, <1>8

-----------------------------------------------------------------------------
(* The choice of a block.                                                  *)

\* Every non-empty set of natural numbers has a least element.
LEMMA LeastNumber ==
    ASSUME NEW S \in SUBSET Nat, S # {}
    PROVE  \E m \in S : \A k \in S : m <= k
<1>1. PICK m \in S : \A k \in S : ~ (<<k, m>> \in OpToRel(<, Nat))
  BY WFMin, NatLessThanWellFounded, Zenon
<1>2. \A k \in S : ~ (k < m)
  BY <1>1, Zenon DEF OpToRel
<1> QED
  BY <1>2

\* Powers of two grow: 2^n counts the subsets of 1 .. n.
LEMMA PowersGrow ==
    /\ \A n \in Nat : 2^n \in Nat /\ 2^n > 0
    /\ \A m, n \in Nat : m <= n => 2^m <= 2^n
<1>1. ASSUME NEW n \in Nat
      PROVE  /\ IsFiniteSet(SUBSET (1 .. n)) /\ Cardinality(SUBSET (1 .. n)) = 2^n
             /\ 2^n \in Nat /\ 2^n > 0
  <2>1. IsFiniteSet(1 .. n) /\ Cardinality(1 .. n) = n
    BY FS_Interval
  <2>2. IsFiniteSet(SUBSET (1 .. n)) /\ Cardinality(SUBSET (1 .. n)) = 2^n
    BY <2>1, FS_SUBSET
  <2>3. Cardinality(SUBSET (1 .. n)) \in Nat /\ Cardinality(SUBSET (1 .. n)) # 0
    BY <2>2, FS_CardinalityType, FS_EmptySet
  <2> QED
    BY <2>2, <2>3
<1>2. ASSUME NEW m \in Nat, NEW n \in Nat, m <= n PROVE 2^m <= 2^n
  <2>1. SUBSET (1 .. m) \subseteq SUBSET (1 .. n)
    BY <1>2
  <2>2. Cardinality(SUBSET (1 .. m)) <= Cardinality(SUBSET (1 .. n))
    BY <1>1, <2>1, FS_Subset
  <2> QED
    BY <1>1, <2>2
<1> QED
  BY <1>1, <1>2

\* The block sizes grow with the number of the file.
LEMMA BlockSizesGrow ==
    /\ \A i \in Nat : PowerOf2Size(i) \in Nat
    /\ \A i, j \in Nat : i <= j => PowerOf2Size(i) <= PowerOf2Size(j)
<1>1. BEGINNING_SIZE \in Nat
  BY BlockSizesAssumption
<1>2. ASSUME NEW p \in Nat, NEW q \in Nat, p <= q
      PROVE  BEGINNING_SIZE * p \in Nat /\ BEGINNING_SIZE * p <= BEGINNING_SIZE * q
  BY <1>1, <1>2
<1> QED
  BY <1>2, PowersGrow DEF PowerOf2Size

\* The conversion (int)data_size keeps a size that an int can hold.
LEMMA IntKeepsSize ==
    ASSUME NEW n \in Nat, n <= INT_MAX
    PROVE  ToInt(n) = n
<1>1. INT_MAX \in Nat /\ n < 2 * (INT_MAX + 1)
  BY BlockSizesAssumption
<1>2. n % (2 * (INT_MAX + 1)) = n
  BY <1>1
<1> QED
  BY <1>2, BlockSizesAssumption DEF ToInt

\* For every size that an int can hold, calc_block_size() and find_block_file()
\* choose a file with the smallest blocks that are large enough, and none only
\* if no block is.  The assertion of append_block() relies on it.
THEOREM SmallestBlockChosen ==
    ASSUME NEW n \in Nat, n <= INT_MAX
    PROVE  IF \E f \in Files : n <= block_size_array[f]
           THEN /\ NewBlockId(n) \in Files
                /\ n <= block_size_array[NewBlockId(n)]
                /\ \A f \in Files : n <= block_size_array[f] =>
                     block_size_array[NewBlockId(n)] <= block_size_array[f]
           ELSE NewBlockId(n) = -1
<1> DEFINE fit == {i \in 0 .. MAX_BLOCK_CNT - 1 : PowerOf2Size(i) >= n}
<1>0. Files \subseteq 0 .. MAX_BLOCK_CNT - 1 /\ Files \subseteq Nat /\ fit \subseteq Nat
  BY NewBlockIdType, BlockSizesAssumption DEF Files
<1>1. \A f \in Files : block_size_array[f] = PowerOf2Size(f) /\ PowerOf2Size(f) \in Nat
  BY <1>0, BlockSizesGrow DEF block_size_array
<1>2. \A f \in Files : n <= block_size_array[f] => f \in fit
  BY <1>0, <1>1
<1>3. CASE fit = {}
  <2>1. calc_block_size(n) = -1
    BY <1>3, IntKeepsSize DEF calc_block_size
  <2>2. NewBlockId(n) = -1
    BY <1>1, <2>1 DEF NewBlockId, find_block_file
  <2> QED
    BY <1>2, <1>3, <2>2
<1>4. CASE fit # {}
  <2>1. PICK i \in fit : \A k \in fit : i <= k
    BY <1>0, <1>4, LeastNumber
  <2>2. calc_block_size(n) = PowerOf2Size(i)
    <3>1. i = CHOOSE l \in fit : \A k \in fit : l <= k
      BY <1>0, <2>1
    <3> QED
      BY <1>4, <3>1, IntKeepsSize DEF calc_block_size
  <2>3. PowerOf2Size(i) >= n /\ i \in 0 .. MAX_BLOCK_CNT - 1 /\ PowerOf2Size(i) \in Nat
    BY <1>0, BlockSizesGrow
  <2>4. \A k \in fit : PowerOf2Size(i) <= PowerOf2Size(k)
    BY <1>0, <2>1, BlockSizesGrow
  <2>5. CASE \E f \in Files : PowerOf2Size(i) = block_size_array[f]
    <3>1. NewBlockId(n) \in Files /\ block_size_array[NewBlockId(n)] = PowerOf2Size(i)
      BY <2>2, <2>5 DEF NewBlockId, find_block_file
    <3> QED
      BY <1>1, <1>2, <2>3, <2>4, <3>1
  <2>6. CASE ~ \E f \in Files : PowerOf2Size(i) = block_size_array[f]
    <3>1. NewBlockId(n) = -1
      BY <2>2, <2>6 DEF NewBlockId, find_block_file
    <3>2. ASSUME NEW f \in Files, n <= block_size_array[f] PROVE FALSE
      <4>1. PowerOf2Size(i) <= PowerOf2Size(f) /\ PowerOf2Size(f) \in Nat
        BY <1>1, <1>2, <2>4, <3>2
      <4>2. PowerOf2Size(f) <= Limit /\ Limit \in Nat
        BY BlockSizesAssumption DEF Files, Limit
      <4>3. i \in Files
        BY <2>3, <4>1, <4>2 DEF Files
      <4> QED
        BY <1>1, <2>6, <4>3
    <3> QED
      BY <3>1, <3>2
  <2> QED
    BY <2>5, <2>6
<1> QED
  BY <1>3, <1>4

-----------------------------------------------------------------------------
(* The invariant and the theorems.                                         *)

\* All that is known of a reachable state.
StoreInv == TypeInv /\ SlotInv /\ LockInv /\ AbortTogether /\ DataInv

\* No step of a worker but a failed assertion aborts it.
LEMMA StepsRun ==
    ASSUME TypeInv, NEW w \in Workers, Steps(w)
    PROVE  pc[w] # "abort" /\ pc'[w] # "abort"
<1>1. pc[w] # "abort"
  BY DEF Steps, FindRecord, FindNothing, FindNoMemory, FindLockFile, FindRead, ModifyStart,
     ModifyWrite, ModifyPut, ReuseSlot, GrowFile, AppendWrite, AppendPut, DeleteRecord, FreeSlot,
     LeakSlot, DeleteSyncHeader, DeleteSyncSlot, UpdateFound, UpdateNotFound, DeleteFound,
     DeleteNotFound, LookupFails, UnlockIndex, Return, Call
<1>2. pc'[w] # "abort"
  <2>1. CASE \/ FindRecord(w) \/ FindLockFile(w) \/ UpdateFound(w) \/ DeleteFound(w) \/ ModifyStart(w)
             \/ ModifyWrite(w) \/ ReuseSlot(w) \/ GrowFile(w) \/ AppendWrite(w)
    BY <2>1 DEF FindRecord, FindLockFile, UpdateFound, DeleteFound, ModifyStart, ModifyWrite, ReuseSlot,
       GrowFile, AppendWrite, Goto, TypeInv, TypeOK
  <2> QED
    BY <2>1, ForgetfulSteps
<1> QED
  BY <1>1, <1>2

\* An empty storage.
LEMMA StoreInit == Init => StoreInv
<1> SUFFICES ASSUME Init PROVE StoreInv
  OBVIOUS
<1>1. \A w \in Workers : pc[w] = "idle"
  BY DEF Init
<1>2. LockInv
  BY <1>1 DEF Init, NewLock, LockInv, LocksApart, Apart, AllLocked, Locked, WritingNew
<1>3. DataInv
  BY <1>1 DEF Init, DataInv, EntriesDescribe, AllKnow, Knows, Intact, UsingNew
<1> QED
  BY <1>1, <1>2, <1>3, TypeInit, SlotInit DEF StoreInv, AbortTogether, NoAbort

\* Every step of a process whose data and index writes succeed keeps it.
LEMMA StoreStep ==
    ASSUME WritesSucceed, StoreInv, [Next]_vars
    PROVE  StoreInv'
<1>0. TypeInv' /\ SlotInv'
  BY TypeStep, SlotStep DEF StoreInv
<1>1. ASSUME NEW w \in Workers, Steps(w) PROVE StoreInv'
  <2>1. LockInv'
    BY <1>1, LockStep DEF StoreInv
  <2>2. ASSUME NoAbort' PROVE (EntriesDescribe /\ AllKnow /\ Intact)'
    <3>2. NoAbort
      BY <1>1, <2>2, StepsRun, OthersStay DEF NoAbort, SamePlace, StoreInv
    <3>3. EntriesDescribe /\ AllKnow /\ Intact
      BY <3>2 DEF StoreInv, DataInv
    <3>4. EntriesDescribe'
      BY <1>1, <3>3, EntriesStep DEF StoreInv
    <3>5. Intact'
      BY <1>0, <1>1, <3>3, IntactStep DEF StoreInv
    <3>6. AllKnow'
      <4> SUFFICES ASSUME NEW u \in Workers PROVE Knows(u)'
        BY DEF AllKnow
      <4>1. CASE u = w
        BY <1>1, <3>3, <4>1, MoverKnows DEF StoreInv
      <4>2. CASE u # w
        BY <1>0, <1>1, <3>3, <4>2, OthersKnow DEF StoreInv
      <4> QED
        BY <4>1, <4>2
    <3> QED
      BY <3>4, <3>5, <3>6
  <2>3. AbortTogether'
    <3>1. pc[w] # "abort" /\ pc'[w] # "abort" /\ \A u \in Workers : u # w => pc'[u] = pc[u]
      BY <1>1, StepsRun, OthersStay DEF SamePlace, StoreInv
    <3> QED
      BY <3>1 DEF StoreInv, AbortTogether, NoAbort
  <2> QED
    BY <1>0, <2>1, <2>2, <2>3 DEF StoreInv, DataInv
<1>2. CASE Abort
  <2>1. UNCHANGED <<index_lock, file_lock>> /\ \A u \in Workers : pc'[u] = "abort"
    BY <1>2 DEF Abort
  <2>2. LockInv'
    BY <2>1 DEF StoreInv, LockInv, LocksApart, Apart, AllLocked, Locked, WritingNew
  <2>3. DataInv'
    <3>1. CASE Workers = {}
      <4>1. UNCHANGED <<index, content>>
        BY <1>2 DEF Abort, indexvars, filevars
      <4> QED
        BY <3>1, <4>1 DEF StoreInv, DataInv, NoAbort, EntriesDescribe, AllKnow, Intact, Describes
    <3>2. CASE Workers # {}
      BY <2>1, <3>2 DEF DataInv, NoAbort
    <3> QED
      BY <3>1, <3>2
  <2> QED
    BY <1>0, <2>1, <2>2, <2>3 DEF StoreInv, AbortTogether
<1>3. CASE (\E f \in Files : sync_storage(f)) \/ UNCHANGED vars
  <2>1. UNCHANGED <<index, content, index_lock, file_lock, pc, req, iv, new_iv>>
    BY <1>3 DEF sync_storage, vars, indexvars, locals
  <2>2. LockInv'
    BY <2>1 DEF StoreInv, LockInv, LocksApart, Apart, AllLocked, Locked
  <2>3. DataInv'
    BY <2>1 DEF StoreInv, DataInv, NoAbort, EntriesDescribe, AllKnow, Knows, Intact, Describes, Record,
       Fits, Rewriting
  <2> QED
    BY <1>0, <2>1, <2>2, <2>3 DEF StoreInv, AbortTogether, NoAbort
<1> QED
  BY <1>1, <1>2, <1>3, WorkSteps DEF Next

\* When writes succeed, a find_block() that has released the index lock and not
\* read the block yet reads the record it looked up, although that record may
\* have been deleted in the meantime and its slot taken by another key.
THEOREM ReadersSeeTheirRecord ==
    ASSUME WritesSucceed
    PROVE  Spec => []ReaderSlotStable
<1>1. StoreInv => ReaderSlotStable
  <2> SUFFICES ASSUME StoreInv, NEW w \in Workers, pc[w] = "find_read"
               PROVE  content[iv[w].block_id][iv[w].offset] = iv[w].crc32
    BY DEF ReaderSlotStable
  <2>1. NoAbort
    BY DEF StoreInv, AbortTogether
  <2> QED
    BY <2>1 DEF StoreInv, DataInv, AllKnow, Knows
<1>2. StoreInv /\ [Next]_vars => StoreInv'
  BY StoreStep
<1> QED
  BY <1>1, <1>2, StoreInit, PTL DEF Spec

\* The sizes that a C int can hold.
SizesFitInt == \A d \in Data : DataSize[d] <= INT_MAX

\* When no value is larger than an int can say and data writes succeed, no
\* assertion of storage.c fails.
LEMMA RunningStep ==
    ASSUME "pwrite" \notin Faults, SizesFitInt, TypeInv, NoAbort, [Next]_vars
    PROVE  NoAbort'
<1>1. ASSUME NEW w \in Workers, Call(w) \/ Work(w) PROVE Steps(w)
  <2>1. ~ModifyAborts(w)
    BY DEF ModifyAborts, MayFail
  <2>2. ~AppendAborts(w)
    <3> SUFFICES ASSUME pc[w] = "append" PROVE Fits(w, NewBlock(w))
      BY DEF AppendAborts
    <3>1. NewBlock(w) \in Files /\ req[w].data \in Data /\ DataSize[req[w].data] \in Nat
      BY RequestOfCall DEF TypeInv, CallsOK, Setting
    <3>2. PICK n \in Nat : n = DataSize[req[w].data] /\ n <= INT_MAX
      BY <3>1 DEF SizesFitInt
    <3>3. NewBlockId(n) \in Files /\ NewBlockId(n) # -1
      BY <3>1, <3>2, NewBlockIdType DEF NewBlock
    <3>4. n <= block_size_array[NewBlockId(n)]
      BY <3>2, <3>3, SmallestBlockChosen
    <3> QED
      BY <3>2, <3>4 DEF Fits, NewBlock
  <2> QED
    BY <1>1, <2>1, <2>2
       DEF Work, find_block, modify_block, append_block, do_delete_block, Update_or_delete, Steps
<1>2. ASSUME NEW w \in Workers, Steps(w) PROVE NoAbort'
  BY <1>2, StepsRun, OthersStay DEF NoAbort, SamePlace
<1>3. CASE (\E f \in Files : sync_storage(f)) \/ UNCHANGED vars
  BY <1>3 DEF sync_storage, vars, NoAbort
<1> QED
  BY <1>1, <1>2, <1>3 DEF Next

\* When writes succeed and sizes fit an int, the block of every record holds
\* the data its index entry was computed from, at the length the entry says,
\* except while the record is being rewritten in place.
THEOREM RecordsIntact ==
    ASSUME WritesSucceed, SizesFitInt
    PROVE  Spec => []IndexedDataIntact
<1>1. StoreInv /\ NoAbort => IndexedDataIntact
  BY DEF StoreInv, DataInv, EntriesDescribe, Intact, IndexedDataIntact, Describes
<1>2. Init => StoreInv /\ NoAbort
  BY StoreInit DEF Init, NoAbort
<1>3. StoreInv /\ NoAbort /\ [Next]_vars => StoreInv' /\ NoAbort'
  BY StoreStep, RunningStep DEF StoreInv, WritesSucceed
<1> QED
  BY <1>1, <1>2, <1>3, PTL DEF Spec

-----------------------------------------------------------------------------
(* The header of a data file, in memory and on disk.                       *)

\* The counters on disk are at most as far from those in memory as the
\* workers that have not written their change yet can account for.
HeaderNear == \A f \in Files : disk_hdr[f] \in RacyHeaders(f, Workers)

\* An entry of the free list is on disk, or its writer has still to write it.
SlotWriter == {"delete_header", "delete_sync_slot"}
SlotPending(f, p) ==
    \E w \in Workers : pc[w] \in SlotWriter /\ iv[w].block_id = f /\ slot_pos[w] = p
SlotsNear ==
    \A f \in Files, p \in Positions :
        p < free_slots_cnt[f] => disk_slots[f][p] = free_slots_offset[f][p] \/ SlotPending(f, p)

\* The numbers that bound RacyHeaders.
LEMMA PendingCounts ==
    ASSUME NEW f
    PROVE  /\ IsFiniteSet(Reusing(f, Workers)) /\ Cardinality(Reusing(f, Workers)) \in Nat
           /\ IsFiniteSet(Growing(f, Workers)) /\ Cardinality(Growing(f, Workers)) \in Nat
           /\ IsFiniteSet(Freeing(f, Workers)) /\ Cardinality(Freeing(f, Workers)) \in Nat
<1>1. Reusing(f, Workers) \in SUBSET Workers /\ Growing(f, Workers) \in SUBSET Workers
      /\ Freeing(f, Workers) \in SUBSET Workers
  BY DEF Reusing, Growing, Freeing
<1>2. IsFiniteSet(Workers)
  BY StorageAssumption
<1> QED
  BY <1>1, <1>2, FS_Subset, FS_CardinalityType

\* The pending changes of the other workers stay as they are.
LEMMA PendingFrame ==
    ASSUME TypeInv, NEW w \in Workers, Steps(w), NEW f
    PROVE  \A u \in Workers : u # w =>
             /\ u \in Reusing(f, Workers)' <=> u \in Reusing(f, Workers)
             /\ u \in Growing(f, Workers)' <=> u \in Growing(f, Workers)
             /\ u \in Freeing(f, Workers)' <=> u \in Freeing(f, Workers)
<1>1. \A u \in Workers : u # w => SamePlace(u)
  BY OthersStay
<1> QED
  BY <1>1 DEF Reusing, Growing, Freeing, SamePlace

\* A change of one counter by one, counted as pending, leaves what is on disk
\* within reach.
LEMMA WiderHeaders ==
    ASSUME TypeInv, NEW f \in Files, NEW w \in Workers,
           block_cnt'[f] \in Int, free_slots_cnt'[f] \in Int,
           w \notin Changing(f, Workers),
           \/ /\ Reusing(f, Workers)' = Reusing(f, Workers) \cup {w}
              /\ UNCHANGED <<Growing(f, Workers), Freeing(f, Workers)>>
              /\ block_cnt'[f] = block_cnt[f] + 1 /\ free_slots_cnt'[f] = free_slots_cnt[f] - 1
           \/ /\ Growing(f, Workers)' = Growing(f, Workers) \cup {w}
              /\ UNCHANGED <<Reusing(f, Workers), Freeing(f, Workers)>>
              /\ block_cnt'[f] = block_cnt[f] + 1 /\ free_slots_cnt'[f] = free_slots_cnt[f]
           \/ /\ Freeing(f, Workers)' = Freeing(f, Workers) \cup {w}
              /\ UNCHANGED <<Reusing(f, Workers), Growing(f, Workers)>>
              /\ block_cnt'[f] = block_cnt[f] - 1 /\ free_slots_cnt'[f] = free_slots_cnt[f] + 1
           \/ /\ UNCHANGED <<Reusing(f, Workers), Growing(f, Workers), Freeing(f, Workers)>>
              /\ block_cnt'[f] = block_cnt[f] /\ free_slots_cnt'[f] = free_slots_cnt[f]
    PROVE  RacyHeaders(f, Workers) \subseteq RacyHeaders(f, Workers)'
<1>1. block_cnt[f] \in Int /\ free_slots_cnt[f] \in Int
  BY DEF TypeInv, TypeOK
<1>2. /\ w \notin Reusing(f, Workers) /\ w \notin Growing(f, Workers) /\ w \notin Freeing(f, Workers)
  BY DEF Changing
<1>3. PICK r \in Nat, g \in Nat, d \in Nat :
        /\ r = Cardinality(Reusing(f, Workers)) /\ g = Cardinality(Growing(f, Workers))
        /\ d = Cardinality(Freeing(f, Workers))
  BY PendingCounts
<1>4. /\ Cardinality(Reusing(f, Workers) \cup {w}) = r + 1
      /\ Cardinality(Growing(f, Workers) \cup {w}) = g + 1
      /\ Cardinality(Freeing(f, Workers) \cup {w}) = d + 1
  BY <1>2, <1>3, PendingCounts, FS_AddElement
<1>5. PICK r2 \in Nat, g2 \in Nat, d2 \in Nat :
        /\ r2 = Cardinality(Reusing(f, Workers)') /\ g2 = Cardinality(Growing(f, Workers)')
        /\ d2 = Cardinality(Freeing(f, Workers)')
        /\ \/ /\ r2 = r + 1 /\ g2 = g /\ d2 = d
              /\ block_cnt'[f] = block_cnt[f] + 1 /\ free_slots_cnt'[f] = free_slots_cnt[f] - 1
           \/ /\ r2 = r /\ g2 = g + 1 /\ d2 = d
              /\ block_cnt'[f] = block_cnt[f] + 1 /\ free_slots_cnt'[f] = free_slots_cnt[f]
           \/ /\ r2 = r /\ g2 = g /\ d2 = d + 1
              /\ block_cnt'[f] = block_cnt[f] - 1 /\ free_slots_cnt'[f] = free_slots_cnt[f] + 1
           \/ /\ r2 = r /\ g2 = g /\ d2 = d
              /\ block_cnt'[f] = block_cnt[f] /\ free_slots_cnt'[f] = free_slots_cnt[f]
  <2>1. /\ Reusing(f, Workers)' \in {Reusing(f, Workers), Reusing(f, Workers) \cup {w}}
        /\ Growing(f, Workers)' \in {Growing(f, Workers), Growing(f, Workers) \cup {w}}
        /\ Freeing(f, Workers)' \in {Freeing(f, Workers), Freeing(f, Workers) \cup {w}}
    OBVIOUS
  <2>2. ASSUME NEW S, NEW T, T \in {S, S \cup {w}}, Cardinality(S) \in Nat,
               Cardinality(S \cup {w}) = Cardinality(S) + 1
        PROVE  Cardinality(T) \in Nat
    <3>1. CASE T = S
      BY <2>2, <3>1
    <3>2. CASE T = S \cup {w}
      BY <2>2, <3>2
    <3> QED
      BY <2>2, <3>1, <3>2
  <2>3. /\ Cardinality(Reusing(f, Workers)') \in Nat /\ Cardinality(Growing(f, Workers)') \in Nat
        /\ Cardinality(Freeing(f, Workers)') \in Nat
    BY <1>3, <1>4, <2>1, <2>2
  <2> QED
    BY <1>3, <1>4, <2>3
<1>6. RacyHeaders(f, Workers) = [block_cnt: block_cnt[f] - r - g .. block_cnt[f] + d,
                                 free_slots_cnt: free_slots_cnt[f] - d .. free_slots_cnt[f] + r]
  BY <1>3 DEF RacyHeaders
<1>7. RacyHeaders(f, Workers)' = [block_cnt: block_cnt'[f] - r2 - g2 .. block_cnt'[f] + d2,
                                  free_slots_cnt: free_slots_cnt'[f] - d2 .. free_slots_cnt'[f] + r2]
  BY <1>5 DEF RacyHeaders
<1>8. /\ block_cnt[f] - r - g .. block_cnt[f] + d \subseteq block_cnt'[f] - r2 - g2 .. block_cnt'[f] + d2
      /\ free_slots_cnt[f] - d .. free_slots_cnt[f] + r
           \subseteq free_slots_cnt'[f] - d2 .. free_slots_cnt'[f] + r2
  BY <1>1, <1>5
<1> QED
  BY <1>6, <1>7, <1>8

\* The header of a file on disk stays near, through every step of a worker.
LEMMA HeaderStep ==
    ASSUME "hwrite" \notin Faults, TypeInv, TypeInv', HeaderNear, NEW w \in Workers, Steps(w)
    PROVE  HeaderNear'
<1> SUFFICES ASSUME NEW f \in Files PROVE disk_hdr'[f] \in RacyHeaders(f, Workers)'
  BY DEF HeaderNear
<1>0. /\ pc \in [Workers -> Places] /\ iv \in [Workers -> Entry \cup {NoEntry}]
      /\ new_iv \in [Workers -> Entry \cup {NoEntry}] /\ block_cnt \in [Files -> Int]
      /\ free_slots_cnt \in [Files -> 0 .. MAX_FREE_SLOTS]
      /\ disk_hdr \in [Files -> [block_cnt: Int, free_slots_cnt: Int]]
      /\ block_cnt'[f] \in Int /\ free_slots_cnt'[f] \in Int
      /\ MAX_FREE_SLOTS \in Nat
  BY StorageAssumption DEF TypeInv, TypeOK
<1>1. disk_hdr[f] \in RacyHeaders(f, Workers)
  BY DEF HeaderNear
<1>2. Reusing(f, Workers)' \subseteq Workers /\ Growing(f, Workers)' \subseteq Workers
      /\ Freeing(f, Workers)' \subseteq Workers
      /\ Reusing(f, Workers) \subseteq Workers /\ Growing(f, Workers) \subseteq Workers
      /\ Freeing(f, Workers) \subseteq Workers
  BY DEF Reusing, Growing, Freeing
<1>a. ASSUME w \notin Changing(f, Workers), w \notin Changing(f, Workers)', disk_hdr'[f] = disk_hdr[f],
             block_cnt'[f] = block_cnt[f], free_slots_cnt'[f] = free_slots_cnt[f]
      PROVE  disk_hdr'[f] \in RacyHeaders(f, Workers)'
  <2>1. UNCHANGED <<Reusing(f, Workers), Growing(f, Workers), Freeing(f, Workers)>>
    BY <1>2, <1>a, PendingFrame DEF Changing
  <2>2. RacyHeaders(f, Workers)' = RacyHeaders(f, Workers)
    BY <1>a, <2>1 DEF RacyHeaders
  <2> QED
    BY <1>1, <1>a, <2>2
<1>3. CASE ReuseSlot(w)
  <2>1. PICK g \in Files : g = NewBlock(w)
    BY <1>3 DEF ReuseSlot, TypeInv, CallsOK
  <2>2. /\ pc[w] = "append" /\ pc'[w] = "append_reuse" /\ new_iv'[w].block_id = g
        /\ disk_hdr' = disk_hdr
        /\ block_cnt' = [block_cnt EXCEPT ![g] = @ + 1]
        /\ free_slots_cnt' = [free_slots_cnt EXCEPT ![g] = free_slots_cnt[g] - 1]
    BY <1>0, <1>3, <2>1 DEF ReuseSlot, NewValue, Goto
  <2>3. w \notin Changing(f, Workers)
    BY <2>2 DEF Changing, Reusing, Growing, Freeing
  <2>4. CASE f # g
    <3>1. w \notin Changing(f, Workers)'
      BY <2>2, <2>4 DEF Changing, Reusing, Growing, Freeing
    <3> QED
      BY <1>0, <1>a, <2>2, <2>3, <2>4, <3>1
  <2>5. CASE f = g
    <3>1. w \in Reusing(f, Workers)' /\ w \notin Growing(f, Workers)' /\ w \notin Freeing(f, Workers)'
      BY <2>2, <2>5 DEF Reusing, Growing, Freeing
    <3>2. /\ Reusing(f, Workers)' = Reusing(f, Workers) \cup {w}
          /\ UNCHANGED <<Growing(f, Workers), Freeing(f, Workers)>>
      BY <1>2, <2>3, <3>1, PendingFrame DEF Changing
    <3>3. block_cnt'[f] = block_cnt[f] + 1 /\ free_slots_cnt'[f] = free_slots_cnt[f] - 1
      BY <1>0, <2>2, <2>5
    <3>4. RacyHeaders(f, Workers) \subseteq RacyHeaders(f, Workers)'
      BY <1>0, <2>3, <3>2, <3>3, WiderHeaders
    <3> QED
      BY <1>1, <2>2, <3>4
  <2> QED
    BY <2>4, <2>5
<1>4. CASE GrowFile(w)
  <2>1. PICK g \in Files : g = NewBlock(w)
    BY <1>4 DEF GrowFile, TypeInv, CallsOK
  <2>2. /\ pc[w] = "append" /\ pc'[w] = "append_grow" /\ new_iv'[w].block_id = g
        /\ disk_hdr' = disk_hdr /\ free_slots_cnt' = free_slots_cnt
        /\ block_cnt' = [block_cnt EXCEPT ![g] = block_cnt[g] + 1]
    BY <1>0, <1>4, <2>1 DEF GrowFile, NewValue, Goto
  <2>3. w \notin Changing(f, Workers)
    BY <2>2 DEF Changing, Reusing, Growing, Freeing
  <2>4. CASE f # g
    <3>1. w \notin Changing(f, Workers)'
      BY <2>2, <2>4 DEF Changing, Reusing, Growing, Freeing
    <3> QED
      BY <1>0, <1>a, <2>2, <2>3, <2>4, <3>1
  <2>5. CASE f = g
    <3>1. w \in Growing(f, Workers)' /\ w \notin Reusing(f, Workers)' /\ w \notin Freeing(f, Workers)'
      BY <2>2, <2>5 DEF Reusing, Growing, Freeing
    <3>2. /\ Growing(f, Workers)' = Growing(f, Workers) \cup {w}
          /\ UNCHANGED <<Reusing(f, Workers), Freeing(f, Workers)>>
      BY <1>2, <2>3, <3>1, PendingFrame DEF Changing
    <3>3. block_cnt'[f] = block_cnt[f] + 1 /\ free_slots_cnt'[f] = free_slots_cnt[f]
      BY <1>0, <2>2, <2>5
    <3>4. RacyHeaders(f, Workers) \subseteq RacyHeaders(f, Workers)'
      BY <1>0, <2>3, <3>2, <3>3, WiderHeaders
    <3> QED
      BY <1>1, <2>2, <3>4
  <2> QED
    BY <2>4, <2>5
<1>5. CASE FreeSlot(w)
  <2>1. PICK g \in Files : g = iv[w].block_id
    BY <1>5 DEF FreeSlot, TypeInv, CallsOK, UsingIv, Entry
  <2>2. /\ pc[w] = "delete_slot" /\ pc'[w] = "delete_header" /\ iv' = iv
        /\ disk_hdr' = disk_hdr
        /\ block_cnt' = [block_cnt EXCEPT ![g] = @ - 1]
        /\ free_slots_cnt' = [free_slots_cnt EXCEPT ![g] = @ + 1]
    BY <1>0, <1>5, <2>1 DEF FreeSlot, Goto
  <2>3. w \notin Changing(f, Workers)
    BY <2>2 DEF Changing, Reusing, Growing, Freeing
  <2>4. CASE f # g
    <3>1. w \notin Changing(f, Workers)'
      BY <2>1, <2>2, <2>4 DEF Changing, Reusing, Growing, Freeing
    <3> QED
      BY <1>0, <1>a, <2>2, <2>3, <2>4, <3>1
  <2>5. CASE f = g
    <3>1. w \in Freeing(f, Workers)' /\ w \notin Reusing(f, Workers)' /\ w \notin Growing(f, Workers)'
      BY <2>1, <2>2, <2>5 DEF Reusing, Growing, Freeing
    <3>2. /\ Freeing(f, Workers)' = Freeing(f, Workers) \cup {w}
          /\ UNCHANGED <<Reusing(f, Workers), Growing(f, Workers)>>
      BY <1>2, <2>3, <3>1, PendingFrame DEF Changing
    <3>3. block_cnt'[f] = block_cnt[f] - 1 /\ free_slots_cnt'[f] = free_slots_cnt[f] + 1
      BY <1>0, <2>2, <2>5
    <3>4. RacyHeaders(f, Workers) \subseteq RacyHeaders(f, Workers)'
      BY <1>0, <2>3, <3>2, <3>3, WiderHeaders
    <3> QED
      BY <1>1, <2>2, <3>4
  <2> QED
    BY <2>4, <2>5
<1>6. CASE AppendWrite(w)
  <2>1. PICK g \in Files : g = new_iv[w].block_id
    BY <1>6 DEF AppendWrite, TypeInv, CallsOK, UsingNew, Entry
  <2>2. /\ pc[w] \in WritingNew /\ pc'[w] = "append_put" /\ new_iv' = new_iv
        /\ disk_hdr' = [disk_hdr EXCEPT ![g] = CurrentHeader(g)]
        /\ UNCHANGED <<block_cnt, free_slots_cnt>>
    BY <1>0, <1>6, <2>1 DEF AppendWrite, Goto, MayFail, locals, WritingNew
  <2>3. CASE f # g
    <3>1. w \notin Changing(f, Workers) /\ w \notin Changing(f, Workers)'
      BY <2>1, <2>2, <2>3 DEF Changing, Reusing, Growing, Freeing, WritingNew
    <3> QED
      BY <1>0, <1>a, <2>2, <2>3, <3>1
  <2>4. CASE f = g
    <3>1. disk_hdr'[f] = CurrentHeader(f)'
      BY <1>0, <2>2, <2>4 DEF CurrentHeader
    <3>2. /\ Cardinality(Reusing(f, Workers)') \in Nat /\ Cardinality(Growing(f, Workers)') \in Nat
          /\ Cardinality(Freeing(f, Workers)') \in Nat
      BY <1>2, StorageAssumption, FS_Subset, FS_CardinalityType
    <3>3. RacyHeaders(f, Workers)' =
            LET more == Cardinality(Freeing(f, Workers)')
                less == Cardinality(Reusing(f, Workers)')
            IN  [block_cnt: block_cnt'[f] - less - Cardinality(Growing(f, Workers)') .. block_cnt'[f] + more,
                 free_slots_cnt: free_slots_cnt'[f] - more .. free_slots_cnt'[f] + less]
      BY DEF RacyHeaders
    <3>4. CurrentHeader(f)' = [block_cnt |-> block_cnt'[f], free_slots_cnt |-> free_slots_cnt'[f]]
      BY DEF CurrentHeader
    <3> QED
      BY <1>0, <3>1, <3>2, <3>3, <3>4
  <2> QED
    BY <2>3, <2>4
<1>7. CASE DeleteSyncHeader(w)
  <2>1. PICK g \in Files : g = iv[w].block_id
    BY <1>7 DEF DeleteSyncHeader, TypeInv, CallsOK, UsingIv, Entry
  <2>2. /\ pc[w] = "delete_header" /\ pc'[w] = "delete_sync_slot" /\ iv' = iv
        /\ UNCHANGED <<block_cnt, free_slots_cnt>>
    BY <1>0, <1>7 DEF DeleteSyncHeader, Goto, locals
  <2>3. PICK h \in RacyHeaders(g, Workers \ {w}) : disk_hdr' = [disk_hdr EXCEPT ![g] = h]
    BY <1>7, <2>1 DEF DeleteSyncHeader, MayFail
  <2>4. w \notin Changing(f, Workers)'
    BY <2>2 DEF Changing, Reusing, Growing, Freeing
  <2>5. CASE f # g
    <3>1. w \notin Changing(f, Workers)
      BY <2>1, <2>2, <2>5 DEF Changing, Reusing, Growing, Freeing
    <3> QED
      BY <1>0, <1>a, <2>2, <2>3, <2>4, <2>5, <3>1
  <2>6. CASE f = g
    <3>1. /\ Reusing(f, Workers)' = Reusing(f, Workers \ {w})
          /\ Growing(f, Workers)' = Growing(f, Workers \ {w})
          /\ Freeing(f, Workers)' = Freeing(f, Workers \ {w})
      <4>1. \A u \in Workers : u # w => SamePlace(u)
        BY OthersStay
      <4> QED
        BY <2>2, <4>1 DEF Reusing, Growing, Freeing, SamePlace
    <3>2. RacyHeaders(f, Workers)' = RacyHeaders(f, Workers \ {w})
      BY <2>2, <3>1 DEF RacyHeaders
    <3> QED
      BY <1>0, <2>3, <2>6, <3>2
  <2> QED
    BY <2>5, <2>6
<1>8. CASE ~(ReuseSlot(w) \/ GrowFile(w) \/ FreeSlot(w) \/ AppendWrite(w) \/ DeleteSyncHeader(w))
  <2>1. UNCHANGED <<disk_hdr, block_cnt, free_slots_cnt>>
    BY <1>8 DEF Steps, filevars, FindRecord, FindNothing, FindNoMemory, FindLockFile, FindRead,
       ModifyStart, ModifyWrite, ModifyPut, AppendPut, DeleteRecord, LeakSlot, DeleteSyncSlot,
       UpdateFound, UpdateNotFound, DeleteFound, DeleteNotFound, LookupFails, UnlockIndex, Return, Call
  <2>2. pc[w] \notin {"append_reuse", "append_grow", "delete_header"}
    BY <1>8 DEF Steps, FindRecord, FindNothing, FindNoMemory, FindLockFile, FindRead,
       ModifyStart, ModifyWrite, ModifyPut, AppendPut, DeleteRecord, LeakSlot, DeleteSyncSlot,
       UpdateFound, UpdateNotFound, DeleteFound, DeleteNotFound, LookupFails, UnlockIndex, Return, Call
  <2>3. pc'[w] \notin {"append_reuse", "append_grow", "delete_header"}
    <3>1. CASE \/ FindRecord(w) \/ FindLockFile(w) \/ UpdateFound(w) \/ DeleteFound(w) \/ ModifyStart(w)
               \/ ModifyWrite(w)
      BY <1>0, <3>1 DEF FindRecord, FindLockFile, UpdateFound, DeleteFound, ModifyStart, ModifyWrite, Goto
    <3>2. ~Call(w) \/ pc'[w] \in {"find", "update", "delete"}
      BY <1>0, RequestFields DEF Call, Goto
    <3>3. ~(LeakSlot(w) \/ DeleteSyncSlot(w)) \/ pc'[w] \in {"unlock", "append"}
      BY <1>0 DEF LeakSlot, DeleteSyncSlot, AfterDelete, Goto
    <3>4. \/ Call(w) \/ LeakSlot(w) \/ DeleteSyncSlot(w) \/ FindRecord(w) \/ FindLockFile(w)
          \/ UpdateFound(w) \/ DeleteFound(w) \/ ModifyStart(w) \/ ModifyWrite(w)
          \/ pc'[w] \in {"done", "idle", "unlock", "append_put", "append", "delete_slot"}
      BY <1>0, <1>8 DEF Steps, FindNothing, FindNoMemory, FindRead, ModifyPut, AppendPut,
         DeleteRecord, UpdateNotFound, DeleteNotFound, LookupFails, UnlockIndex, Return, Goto
    <3> QED
      BY <3>1, <3>2, <3>3, <3>4
  <2>4. w \notin Changing(f, Workers) /\ w \notin Changing(f, Workers)'
    BY <2>2, <2>3 DEF Changing, Reusing, Growing, Freeing
  <2> QED
    BY <1>a, <2>1, <2>4
<1> QED
  BY <1>3, <1>4, <1>5, <1>6, <1>7, <1>8

\* A position of the free list that another worker has to write stays so.
LEMMA PendingStays ==
    ASSUME TypeInv, NEW w \in Workers, Steps(w), NEW u \in Workers, u # w
    PROVE  slot_pos'[u] = slot_pos[u]
<1>1. CASE FreeSlot(w)
  BY <1>1 DEF FreeSlot, TypeInv, TypeOK
<1>2. CASE Return(w)
  BY <1>2 DEF Return, TypeInv, TypeOK
<1>3. CASE ~(FreeSlot(w) \/ Return(w))
  BY <1>3 DEF Steps, locals, FindRecord, FindNothing, FindNoMemory, FindLockFile, FindRead,
     ModifyStart, ModifyWrite, ModifyPut, ReuseSlot, GrowFile, AppendWrite, AppendPut, DeleteRecord,
     LeakSlot, DeleteSyncHeader, DeleteSyncSlot, UpdateFound, UpdateNotFound, DeleteFound,
     DeleteNotFound, LookupFails, UnlockIndex, Call
<1> QED
  BY <1>1, <1>2, <1>3

\* The free list on disk stays near, through every step of a worker.
LEMMA SlotsStep ==
    ASSUME "hwrite" \notin Faults, TypeInv, SlotsNear, NEW w \in Workers, Steps(w)
    PROVE  SlotsNear'
<1> SUFFICES ASSUME NEW f \in Files, NEW p \in Positions, p < free_slots_cnt'[f],
                    disk_slots'[f][p] # free_slots_offset'[f][p]
             PROVE  SlotPending(f, p)'
  BY DEF SlotsNear
<1>0. /\ pc \in [Workers -> Places] /\ iv \in [Workers -> Entry \cup {NoEntry}]
      /\ slot_pos \in [Workers -> Positions]
      /\ free_slots_cnt \in [Files -> 0 .. MAX_FREE_SLOTS]
      /\ free_slots_offset \in [Files -> [Positions -> 0 .. MaxSlot]]
      /\ disk_slots \in [Files -> [Positions -> 0 .. MaxSlot]]
  BY DEF TypeInv, TypeOK
<1>b. MAX_FREE_SLOTS \in Nat /\ \A q \in Positions : q \in Nat /\ q < MAX_FREE_SLOTS
  BY StorageAssumption DEF Positions
<1>1. ASSUME NEW u \in Workers, u # w, pc[u] \in SlotWriter, iv[u].block_id = f, slot_pos[u] = p
      PROVE  SlotPending(f, p)'
  <2>1. SamePlace(u) /\ slot_pos'[u] = slot_pos[u]
    BY <1>1, OthersStay, PendingStays
  <2> QED
    BY <1>1, <2>1 DEF SlotPending, SamePlace
<1>2. ASSUME pc[w] \notin SlotWriter, p < free_slots_cnt[f],
             disk_slots[f][p] # free_slots_offset[f][p]
      PROVE  SlotPending(f, p)'
  BY <1>1, <1>2 DEF SlotsNear, SlotPending
<1>3. CASE ReuseSlot(w)
  <2>1. PICK g \in Files : g = NewBlock(w)
    BY <1>3 DEF ReuseSlot, TypeInv, CallsOK
  <2>2. PICK q \in Positions :
          /\ q = free_slots_cnt[g] - 1 /\ pc[w] \notin SlotWriter /\ disk_slots' = disk_slots
          /\ free_slots_cnt' = [free_slots_cnt EXCEPT ![g] = q]
          /\ free_slots_offset' = [free_slots_offset EXCEPT ![g][q] = 0]
    <3>1. free_slots_cnt[g] \in 0 .. MAX_FREE_SLOTS /\ free_slots_cnt[g] # 0
      BY <1>0, <1>3, <2>1 DEF ReuseSlot
    <3>2. free_slots_cnt[g] - 1 \in Positions
      BY <1>b, <3>1 DEF Positions
    <3> QED
      BY <1>3, <2>1, <3>2 DEF ReuseSlot, SlotWriter
  <2>3. p < free_slots_cnt[f] /\ free_slots_offset'[f][p] = free_slots_offset[f][p]
    BY <1>0, <1>b, <2>2
  <2> QED
    BY <1>2, <2>2, <2>3
<1>4. CASE FreeSlot(w)
  <2>1. PICK g \in Files : g = iv[w].block_id
    BY <1>4 DEF FreeSlot, TypeInv, CallsOK, UsingIv, Entry
  <2>2. PICK q \in Positions :
          /\ q = free_slots_cnt[g] /\ disk_slots' = disk_slots
          /\ pc[w] = "delete_slot" /\ pc'[w] = "delete_header" /\ iv' = iv /\ slot_pos'[w] = q
          /\ free_slots_cnt' = [free_slots_cnt EXCEPT ![g] = q + 1]
          /\ free_slots_offset' = [free_slots_offset EXCEPT ![g][q] = iv[w].offset]
    <3>1. free_slots_cnt[g] \in 0 .. MAX_FREE_SLOTS /\ free_slots_cnt[g] < MAX_FREE_SLOTS
      BY <1>0, <1>4, <2>1 DEF FreeSlot
    <3>2. free_slots_cnt[g] \in Positions
      BY <1>b, <3>1 DEF Positions
    <3> QED
      BY <1>0, <1>4, <2>1, <3>2 DEF FreeSlot, Goto
  <2>3. CASE f = g /\ p = q
    BY <2>1, <2>2, <2>3 DEF SlotPending, SlotWriter
  <2>4. CASE ~(f = g /\ p = q)
    <3>1. free_slots_offset'[f][p] = free_slots_offset[f][p]
      BY <1>0, <2>2, <2>4
    <3>2. p < free_slots_cnt[f]
      <4>1. p \in Nat /\ q \in Nat /\ free_slots_cnt'[f] = IF f = g THEN q + 1 ELSE free_slots_cnt[f]
        BY <1>0, <1>b, <2>2
      <4> QED
        BY <2>2, <2>4, <4>1
    <3> QED
      BY <1>2, <2>2, <3>1, <3>2 DEF SlotWriter
  <2> QED
    BY <2>3, <2>4
<1>5. CASE DeleteSyncHeader(w)
  <2>1. /\ pc[w] \in SlotWriter /\ pc'[w] \in SlotWriter
        /\ UNCHANGED <<iv, slot_pos, disk_slots, free_slots_cnt, free_slots_offset>>
    BY <1>0, <1>5 DEF DeleteSyncHeader, Goto, locals, SlotWriter
  <2>2. PICK u \in Workers : pc[u] \in SlotWriter /\ iv[u].block_id = f /\ slot_pos[u] = p
    BY <2>1 DEF SlotsNear, SlotPending
  <2> QED
    BY <1>1, <2>1, <2>2 DEF SlotPending
<1>6. CASE DeleteSyncSlot(w)
  <2>1. PICK g \in Files : g = iv[w].block_id
    BY <1>6 DEF DeleteSyncSlot, TypeInv, CallsOK, UsingIv, Entry
  <2>2. /\ UNCHANGED <<free_slots_cnt, free_slots_offset>>
        /\ disk_slots' = [disk_slots EXCEPT ![g][slot_pos[w]] = free_slots_offset[g][slot_pos[w]]]
    BY <1>6, <2>1 DEF DeleteSyncSlot, MayFail
  <2>3. ~(f = g /\ p = slot_pos[w]) /\ disk_slots'[f][p] = disk_slots[f][p]
    BY <1>0, <2>2
  <2>4. PICK u \in Workers : pc[u] \in SlotWriter /\ iv[u].block_id = f /\ slot_pos[u] = p
    BY <2>2, <2>3 DEF SlotsNear, SlotPending
  <2> QED
    BY <1>1, <2>1, <2>3, <2>4
<1>7. CASE ~(ReuseSlot(w) \/ FreeSlot(w) \/ DeleteSyncHeader(w) \/ DeleteSyncSlot(w))
  <2>1. UNCHANGED <<disk_slots, free_slots_cnt, free_slots_offset>> /\ pc[w] \notin SlotWriter
    BY <1>7 DEF Steps, filevars, SlotWriter, FindRecord, FindNothing, FindNoMemory, FindLockFile, FindRead,
       ModifyStart, ModifyWrite, ModifyPut, GrowFile, AppendWrite, AppendPut, DeleteRecord, LeakSlot,
       UpdateFound, UpdateNotFound, DeleteFound, DeleteNotFound, LookupFails, UnlockIndex, Return, Call
  <2> QED
    BY <1>2, <2>1
<1> QED
  BY <1>3, <1>4, <1>5, <1>6, <1>7

\* When no write of a data file or its header fails and sizes fit an int, the
\* header on disk is the one in memory as soon as every worker that changed it
\* has written it, whatever the unlocked writes of do_delete_block() and
\* sync_storage() have put there in between.
THEOREM HeadersSettle ==
    ASSUME "hwrite" \notin Faults, "pwrite" \notin Faults, SizesFitInt
    PROVE  Spec => []DiskHeaderSettles
<1> DEFINE Near == TypeInv /\ NoAbort /\ HeaderNear /\ SlotsNear
<1>1. Init => Near
  <2> SUFFICES ASSUME Init PROVE Near
    OBVIOUS
  <2>1. TypeInv
    BY TypeInit
  <2>2. NoAbort /\ SlotsNear
    BY DEF Init, NoAbort, SlotsNear
  <2>3. ASSUME NEW f \in Files PROVE disk_hdr[f] \in RacyHeaders(f, Workers)
    <3>1. disk_hdr[f] = [block_cnt |-> 0, free_slots_cnt |-> 0] /\ block_cnt[f] = 0 /\ free_slots_cnt[f] = 0
      BY DEF Init
    <3> QED
      BY <3>1, PendingCounts DEF RacyHeaders
  <2> QED
    BY <2>1, <2>2, <2>3 DEF HeaderNear
<1>2. Near /\ [Next]_vars => Near'
  <2> SUFFICES ASSUME Near, [Next]_vars PROVE Near'
    OBVIOUS
  <2>1. TypeInv' /\ NoAbort'
    BY TypeStep, RunningStep
  <2>2. ASSUME NEW w \in Workers, Steps(w) PROVE Near'
    BY <2>1, <2>2, HeaderStep, SlotsStep
  <2>3. CASE Abort
    <3>1. Workers = {}
      BY <2>1, <2>3 DEF Abort, NoAbort
    <3>2. UNCHANGED filevars
      BY <2>3 DEF Abort
    <3>3. \A f : Reusing(f, Workers) = {} /\ Growing(f, Workers) = {} /\ Freeing(f, Workers) = {}
             /\ Reusing(f, Workers)' = {} /\ Growing(f, Workers)' = {} /\ Freeing(f, Workers)' = {}
      BY <3>1 DEF Reusing, Growing, Freeing
    <3>4. \A f : RacyHeaders(f, Workers)' = RacyHeaders(f, Workers)
      BY <3>2, <3>3 DEF RacyHeaders, filevars
    <3>5. HeaderNear' /\ SlotsNear'
      BY <3>1, <3>2, <3>4 DEF filevars, HeaderNear, SlotsNear, SlotPending
    <3> QED
      BY <2>1, <3>5
  <2>4. CASE (\E f \in Files : sync_storage(f)) \/ UNCHANGED vars
    <3>1. UNCHANGED <<block_cnt, free_slots_cnt, free_slots_offset, disk_slots, pc, iv, new_iv, slot_pos>>
      BY <2>4 DEF sync_storage, vars, locals
    <3>2. \A f : RacyHeaders(f, Workers)' = RacyHeaders(f, Workers)
      BY <3>1 DEF RacyHeaders, Reusing, Growing, Freeing
    <3>3. \A f \in Files : disk_hdr'[f] = disk_hdr[f] \/ disk_hdr'[f] \in RacyHeaders(f, Workers)
      BY <2>4 DEF sync_storage, vars, TypeInv, TypeOK
    <3>4. HeaderNear'
      BY <3>2, <3>3 DEF HeaderNear
    <3>5. SlotsNear'
      BY <3>1 DEF SlotsNear, SlotPending
    <3> QED
      BY <2>1, <3>4, <3>5
  <2> QED
    BY <2>2, <2>3, <2>4, WorkSteps DEF Next
<1>3. Near => DiskHeaderSettles
  <2> SUFFICES ASSUME Near, NEW f \in Files
               PROVE  /\ Changing(f, Workers) = {} => disk_hdr[f] = CurrentHeader(f)
                      /\ (\A w \in Workers : pc[w] \in SlotWriter => iv[w].block_id # f) =>
                           \A p \in Positions : p < free_slots_cnt[f] =>
                             disk_slots[f][p] = free_slots_offset[f][p]
    BY DEF DiskHeaderSettles, SlotWriter
  <2>1. ASSUME Changing(f, Workers) = {} PROVE disk_hdr[f] = CurrentHeader(f)
    <3>1. /\ Cardinality(Reusing(f, Workers)) = 0 /\ Cardinality(Growing(f, Workers)) = 0
          /\ Cardinality(Freeing(f, Workers)) = 0
      BY <2>1, FS_EmptySet DEF Changing
    <3>2. block_cnt[f] \in Int /\ free_slots_cnt[f] \in Int
      BY DEF TypeInv, TypeOK
    <3>3. disk_hdr[f] \in [block_cnt: {block_cnt[f]}, free_slots_cnt: {free_slots_cnt[f]}]
      BY <3>1, <3>2 DEF HeaderNear, RacyHeaders
    <3> QED
      BY <3>3 DEF CurrentHeader
  <2>2. (\A w \in Workers : pc[w] \in SlotWriter => iv[w].block_id # f) =>
           \A p \in Positions : p < free_slots_cnt[f] => disk_slots[f][p] = free_slots_offset[f][p]
    BY DEF SlotsNear, SlotPending
  <2> QED
    BY <2>1, <2>2
<1> QED
  BY <1>1, <1>2, <1>3, PTL DEF Spec

-----------------------------------------------------------------------------
(* block_cnt of a data file.                                               *)

\* A set that has deleted the old record, or found none, and a del past its
\* del_record() find no record.
Gone == {"append", "delete_slot", "delete_header", "delete_sync_slot"} \cup UsingNew
AbsentRecord == \A w \in Workers : pc[w] \in Gone => Record(w) = None

\* The records in file f, and the workers that have a slot of it in hand,
\* between the free list and the index.
RecordsIn(f) ==
    {bk \in Buckets \X Keys : index[bk[1]][bk[2]] # None /\ index[bk[1]][bk[2]].block_id = f}
InHand(w, f) ==
    \/ pc[w] \in UsingNew /\ new_iv[w].block_id = f
    \/ pc[w] = "delete_slot" /\ iv[w].block_id = f
HandsIn(f) == {w \in Workers : InHand(w, f)}

\* block_cnt counts them all, while the process runs.
Counted == \A f \in Files : block_cnt[f] = Cardinality(RecordsIn(f)) + Cardinality(HandsIn(f))
CountInv == TypeInv /\ SlotInv /\ AbsentRecord /\ (NoAbort => Counted)

\* The storage is of a size that its free lists can take.
FreeListsSuffice ==
    IsFiniteSet(Buckets) /\ IsFiniteSet(Keys) /\ MAX_FREE_SLOTS >= MaxSlot

\* A free list that could hold every slot is never full while a worker has a
\* slot in hand: no slot is leaked.
LEMMA NothingLeaks ==
    ASSUME FreeListsSuffice, TypeInv, SlotInv, NEW w \in Workers
    PROVE  ~LeakSlot(w)
<1> SUFFICES ASSUME LeakSlot(w) PROVE FALSE
  OBVIOUS
<1>1. PICK f \in Files, s \in Slots : f = iv[w].block_id /\ s = iv[w].offset
  BY DEF LeakSlot, TypeInv, CallsOK, UsingIv, Entry
<1>2. Held(f, s, w)
  BY <1>1 DEF LeakSlot, Held
<1>3. MaxSlot \in Nat /\ MAX_FREE_SLOTS \in Nat /\ MAX_FREE_SLOTS >= MaxSlot
  BY StorageAssumption DEF FreeListsSuffice
<1>4. free_slots_cnt[f] >= MaxSlot
  <2>1. free_slots_cnt[f] \in 0 .. MAX_FREE_SLOTS /\ free_slots_cnt[f] >= MAX_FREE_SLOTS
    BY <1>1 DEF LeakSlot, TypeInv, TypeOK
  <2> QED
    BY <1>3, <2>1
<1>5. ASSUME NEW p \in 0 .. MaxSlot - 1
      PROVE  p \in Positions /\ Free(f, free_slots_offset[f][p], p) /\ free_slots_offset[f][p] \in Slots
  <2>1. p \in Positions /\ p < free_slots_cnt[f]
    <3>1. free_slots_cnt[f] \in 0 .. MAX_FREE_SLOTS
      BY <1>1 DEF TypeInv, TypeOK
    <3> QED
      BY <1>3, <1>4, <3>1 DEF Positions
  <2> QED
    BY <1>1, <2>1 DEF Free, TypeInv, OffsetsOK
<1> DEFINE slot == [p \in 0 .. MaxSlot |-> IF p = MaxSlot THEN s ELSE free_slots_offset[f][p]]
<1>6. slot \in [0 .. MaxSlot -> Slots]
  BY <1>3, <1>5
<1>7. /\ IsFiniteSet(0 .. MaxSlot) /\ Cardinality(0 .. MaxSlot) = MaxSlot + 1
      /\ IsFiniteSet(Slots) /\ Cardinality(Slots) = MaxSlot
  BY <1>3, FS_Interval DEF Slots
<1>8. Cardinality(Slots) < Cardinality(0 .. MaxSlot)
  BY <1>3, <1>7
<1>9. PICK x \in 0 .. MaxSlot, y \in 0 .. MaxSlot : x # y /\ slot[x] = slot[y]
  <2> HIDE DEF slot
  <2> QED
    BY <1>6, <1>7, <1>8, FS_PigeonHole, ZenonT(60)
<1>10. CASE x # MaxSlot /\ y # MaxSlot
  <2>1. x \in 0 .. MaxSlot - 1 /\ y \in 0 .. MaxSlot - 1
    BY <1>3, <1>10
  <2>2. free_slots_offset[f][x] = free_slots_offset[f][y]
    BY <1>9, <1>10
  <2> QED
    BY <1>1, <1>5, <1>9, <2>1, <2>2 DEF SlotInv, NoSharedSlot
<1>11. CASE x = MaxSlot \/ y = MaxSlot
  <2>1. PICK p \in 0 .. MaxSlot - 1 : free_slots_offset[f][p] = s
    BY <1>3, <1>9, <1>11
  <2> QED
    BY <1>1, <1>2, <1>5, <2>1 DEF SlotInv, NoSharedSlot
<1> QED
  BY <1>10, <1>11

\* A worker comes to a place where its record is gone, or stays there.
LEMMA AbsentStep ==
    ASSUME TypeInv, SlotInv, AbsentRecord, NEW w \in Workers, Steps(w)
    PROVE  AbsentRecord'
<1> SUFFICES ASSUME NEW u \in Workers, pc'[u] \in Gone PROVE Record(u)' = None
  BY DEF AbsentRecord
<1>0. /\ pc \in [Workers -> Places] /\ req \in [Workers -> Requests \cup {NoRequest}]
      /\ index \in [Buckets -> [Keys -> Entry \cup {None}]]
  BY DEF TypeInv, TypeOK
<1>1. CASE u # w
  <2>1. SamePlace(u) /\ pc[u] \in Gone /\ Record(u) = None
    BY <1>1, OthersStay DEF SamePlace, AbsentRecord
  <2>2. pc[u] \in Owning /\ req[u].bucket \in Buckets /\ req[u].key \in Keys
    BY <2>1, RequestOfCall DEF Gone, Owning, UsingNew, Deleting
  <2> QED
    BY <1>1, <2>1, <2>2, IndexChange, OwnersApart DEF SamePlace, Record, SlotInv
<1>2. CASE u = w
  <2> USE DEF Gone, UsingNew, Goto, Record
  <2>1. CASE DeleteRecord(w)
    <3>1. req[w].bucket \in Buckets /\ req[w].key \in Keys
      BY <2>1, RequestOfCall DEF DeleteRecord
    <3>2. index' = [index EXCEPT ![req[w].bucket][req[w].key] = None] /\ req' = req
      BY <1>0, <1>2, <2>1 DEF DeleteRecord
    <3> QED
      BY <1>0, <1>2, <3>1, <3>2
  <2>2. CASE UpdateNotFound(w)
    BY <1>2, <2>2 DEF UpdateNotFound, indexvars
  <2>3. CASE ReuseSlot(w) \/ GrowFile(w) \/ AppendWrite(w) \/ FreeSlot(w) \/ LeakSlot(w)
             \/ DeleteSyncHeader(w) \/ DeleteSyncSlot(w)
    <3>1. pc[w] \in Gone /\ index' = index /\ req' = req
      BY <2>3 DEF ReuseSlot, GrowFile, AppendWrite, FreeSlot, LeakSlot, DeleteSyncHeader,
         DeleteSyncSlot, indexvars
    <3> QED
      BY <1>2, <3>1 DEF AbsentRecord
  <2>4. CASE Call(w)
    BY <1>0, <1>2, <2>4, RequestFields DEF Call
  <2>5. CASE ~(DeleteRecord(w) \/ UpdateNotFound(w) \/ ReuseSlot(w) \/ GrowFile(w) \/ AppendWrite(w)
              \/ FreeSlot(w) \/ LeakSlot(w) \/ DeleteSyncHeader(w) \/ DeleteSyncSlot(w) \/ Call(w))
    BY <1>0, <1>2, <2>5 DEF Steps, FindRecord, FindNothing, FindNoMemory, FindLockFile, FindRead,
       ModifyStart, ModifyWrite, ModifyPut, AppendPut, UpdateFound, DeleteFound, DeleteNotFound,
       LookupFails, UnlockIndex, Return
  <2> QED
    BY <2>1, <2>2, <2>3, <2>4, <2>5
<1> QED
  BY <1>1, <1>2

\* The sets that are counted are finite.
LEMMA CountedFinite ==
    ASSUME FreeListsSuffice, NEW f
    PROVE  /\ IsFiniteSet(RecordsIn(f)) /\ Cardinality(RecordsIn(f)) \in Nat
           /\ IsFiniteSet(HandsIn(f)) /\ Cardinality(HandsIn(f)) \in Nat
<1>1. RecordsIn(f) \in SUBSET (Buckets \X Keys) /\ HandsIn(f) \in SUBSET Workers
  BY DEF RecordsIn, HandsIn
<1>2. IsFiniteSet(Workers) /\ IsFiniteSet(Buckets \X Keys)
  BY StorageAssumption, FS_Product DEF FreeListsSuffice
<1> QED
  BY <1>1, <1>2, FS_Subset, FS_CardinalityType

\* Only the mover's hand changes.
LEMMA HandsFrame ==
    ASSUME TypeInv, NEW w \in Workers, Steps(w), NEW f
    PROVE  HandsIn(f)' = IF InHand(w, f)' THEN HandsIn(f) \cup {w} ELSE HandsIn(f) \ {w}
<1>1. \A u \in Workers : u # w => (InHand(u, f)' <=> InHand(u, f))
  BY OthersStay DEF SamePlace, InHand
<1> QED
  BY <1>1 DEF HandsIn

\* A record that is put or deleted.
LEMMA RecordsFrame ==
    ASSUME TypeInv, NEW b \in Buckets, NEW k \in Keys, NEW e \in Entry \cup {None},
           index' = [index EXCEPT ![b][k] = e], NEW f
    PROVE  RecordsIn(f)' = IF e # None /\ e.block_id = f THEN RecordsIn(f) \cup {<<b, k>>}
                           ELSE RecordsIn(f) \ {<<b, k>>}
<1>1. index \in [Buckets -> [Keys -> Entry \cup {None}]]
  BY DEF TypeInv, TypeOK
<1>2. \A c \in Buckets, j \in Keys : index'[c][j] = IF c = b /\ j = k THEN e ELSE index[c][j]
  BY <1>1
<1>3. \A bk \in Buckets \X Keys : bk = <<bk[1], bk[2]>> /\ bk[1] \in Buckets /\ bk[2] \in Keys
  OBVIOUS
<1> QED
  BY <1>2, <1>3 DEF RecordsIn

\* Each step that moves a slot moves it from one count to the other.
LEMMA CountedStep ==
    ASSUME "put" \notin Faults, FreeListsSuffice, TypeInv, SlotInv, AbsentRecord, Counted,
           NEW w \in Workers, Steps(w)
    PROVE  Counted'
<1> SUFFICES ASSUME NEW f \in Files
             PROVE  block_cnt'[f] = Cardinality(RecordsIn(f)') + Cardinality(HandsIn(f)')
  BY DEF Counted
<1>0. /\ pc \in [Workers -> Places] /\ iv \in [Workers -> Entry \cup {NoEntry}]
      /\ new_iv \in [Workers -> Entry \cup {NoEntry}] /\ block_cnt \in [Files -> Int]
      /\ index \in [Buckets -> [Keys -> Entry \cup {None}]]
  BY DEF TypeInv, TypeOK
<1>1. PICK m \in Nat, n \in Nat : m = Cardinality(RecordsIn(f)) /\ n = Cardinality(HandsIn(f))
  BY CountedFinite
<1>2. block_cnt[f] = m + n
  BY <1>1 DEF Counted
<1>3. ASSUME NEW x
      PROVE  /\ Cardinality(RecordsIn(f) \cup {x}) = IF x \in RecordsIn(f) THEN m ELSE m + 1
             /\ Cardinality(RecordsIn(f) \ {x}) = IF x \in RecordsIn(f) THEN m - 1 ELSE m
             /\ Cardinality(HandsIn(f) \cup {x}) = IF x \in HandsIn(f) THEN n ELSE n + 1
             /\ Cardinality(HandsIn(f) \ {x}) = IF x \in HandsIn(f) THEN n - 1 ELSE n
  BY <1>1, CountedFinite, FS_AddElement, FS_RemoveElement
<1>4. HandsIn(f)' = IF InHand(w, f)' THEN HandsIn(f) \cup {w} ELSE HandsIn(f) \ {w}
  BY HandsFrame
<1>5. w \in HandsIn(f) <=> InHand(w, f)
  BY DEF HandsIn
<1>a. Cardinality(HandsIn(f)') = IF InHand(w, f) THEN IF InHand(w, f)' THEN n ELSE n - 1
                                 ELSE IF InHand(w, f)' THEN n + 1 ELSE n
  BY <1>3, <1>4, <1>5
<1>6. CASE DeleteRecord(w) \/ AppendPut(w) \/ ModifyPut(w)
  <2>1. PICK b \in Buckets, k \in Keys : b = req[w].bucket /\ k = req[w].key
    BY <1>6, RequestOfCall DEF DeleteRecord, AppendPut, ModifyPut
  <2>2. block_cnt' = block_cnt /\ iv' = iv /\ new_iv' = new_iv
    BY <1>6 DEF DeleteRecord, AppendPut, ModifyPut, filevars, locals
  <2>3. <<b, k>> \in RecordsIn(f) <=> index[b][k] # None /\ index[b][k].block_id = f
    BY DEF RecordsIn
  <2>a. /\ Cardinality(RecordsIn(f) \cup {<<b, k>>}) = IF <<b, k>> \in RecordsIn(f) THEN m ELSE m + 1
        /\ Cardinality(RecordsIn(f) \ {<<b, k>>}) = IF <<b, k>> \in RecordsIn(f) THEN m - 1 ELSE m
    BY <1>3
  <2>4. CASE DeleteRecord(w)
    <3>1. pc[w] = "delete_record" /\ Record(w) # None /\ Record(w).block_id = iv[w].block_id
      BY <2>4 DEF DeleteRecord, SlotInv, IvCurrent, Editing, Current
    <3>2. ~InHand(w, f)
      BY <3>1 DEF InHand, UsingNew
    <3>3. CASE index' = [index EXCEPT ![req[w].bucket][req[w].key] = None] /\ pc'[w] = "delete_slot"
      <4>1. RecordsIn(f)' = RecordsIn(f) \ {<<b, k>>}
        <5>1. index' = [index EXCEPT ![b][k] = None] /\ None \in Entry \cup {None}
          BY <2>1, <3>3
        <5> QED
          BY <5>1, RecordsFrame
      <4>2. InHand(w, f)' <=> iv[w].block_id = f
        BY <2>2, <3>3 DEF InHand, UsingNew
      <4>3. <<b, k>> \in RecordsIn(f) <=> iv[w].block_id = f
        BY <2>1, <2>3, <3>1 DEF Record
      <4> QED
        BY <1>1, <1>2, <1>a, <2>2, <2>a, <3>2, <4>1, <4>2, <4>3
    <3>4. CASE index' = index /\ pc'[w] = "unlock"
      <4>1. RecordsIn(f)' = RecordsIn(f) /\ ~InHand(w, f)'
        BY <3>4 DEF RecordsIn, InHand, UsingNew
      <4> QED
        BY <1>1, <1>2, <1>a, <2>2, <2>a, <3>2, <4>1
    <3> QED
      BY <1>0, <2>4, <3>3, <3>4 DEF DeleteRecord, Goto
  <2>5. CASE AppendPut(w)
    <3>1. /\ pc[w] = "append_put" /\ pc'[w] = "unlock" /\ new_iv[w] \in Entry
          /\ index' = [index EXCEPT ![b][k] = new_iv[w]] /\ Record(w) = None
      BY <1>0, <2>1, <2>5 DEF AppendPut, Goto, MayFail, AbsentRecord, Gone, UsingNew, TypeInv, CallsOK
    <3>2. RecordsIn(f)' = IF new_iv[w].block_id = f THEN RecordsIn(f) \cup {<<b, k>>}
                          ELSE RecordsIn(f) \ {<<b, k>>}
      <4>1. PICK e \in Entry \cup {None} : e = new_iv[w] /\ e # None
        BY <3>1, NoneAssumption
      <4>2. index' = [index EXCEPT ![b][k] = e]
        BY <3>1, <4>1
      <4> QED
        BY <4>1, <4>2, RecordsFrame, ZenonT(60)
    <3>3. <<b, k>> \notin RecordsIn(f)
      BY <2>1, <2>3, <3>1 DEF Record
    <3>4. InHand(w, f) <=> new_iv[w].block_id = f
      BY <3>1 DEF InHand, UsingNew
    <3>5. ~InHand(w, f)'
      BY <3>1 DEF InHand, UsingNew
    <3> QED
      BY <1>1, <1>2, <1>a, <2>2, <2>a, <3>2, <3>3, <3>4, <3>5
  <2>6. CASE ModifyPut(w)
    <3>1. /\ pc[w] = "modify_put" /\ pc'[w] = "unlock" /\ iv[w] \in Entry
          /\ index' = [index EXCEPT ![b][k] = iv[w]]
          /\ Record(w) # None /\ Record(w).block_id = iv[w].block_id
      BY <1>0, <2>1, <2>6
         DEF ModifyPut, Goto, MayFail, SlotInv, IvCurrent, Editing, Current, UsingIv, TypeInv, CallsOK
    <3>2. RecordsIn(f)' = IF iv[w].block_id = f THEN RecordsIn(f) \cup {<<b, k>>}
                          ELSE RecordsIn(f) \ {<<b, k>>}
      <4>1. PICK e \in Entry \cup {None} : e = iv[w] /\ e # None
        BY <3>1, NoneAssumption
      <4>2. index' = [index EXCEPT ![b][k] = e]
        BY <3>1, <4>1
      <4> QED
        BY <4>1, <4>2, RecordsFrame, ZenonT(60)
    <3>3. <<b, k>> \in RecordsIn(f) <=> iv[w].block_id = f
      BY <2>1, <2>3, <3>1 DEF Record
    <3>4. ~InHand(w, f) /\ ~InHand(w, f)'
      BY <3>1 DEF InHand, UsingNew
    <3> QED
      BY <1>1, <1>2, <1>a, <2>2, <2>a, <3>2, <3>3, <3>4
  <2> QED
    BY <1>6, <2>4, <2>5, <2>6
<1>7. CASE ~(DeleteRecord(w) \/ AppendPut(w) \/ ModifyPut(w))
  <2>1. index' = index
    BY <1>7 DEF Steps, indexvars, FindRecord, FindNothing, FindNoMemory, FindLockFile, FindRead,
       ModifyStart, ModifyWrite, ReuseSlot, GrowFile, AppendWrite, FreeSlot, LeakSlot,
       DeleteSyncHeader, DeleteSyncSlot, UpdateFound, UpdateNotFound, DeleteFound,
       DeleteNotFound, LookupFails, UnlockIndex, Return, Call
  <2>2. RecordsIn(f)' = RecordsIn(f)
    BY <2>1 DEF RecordsIn
  <2>3. CASE ReuseSlot(w) \/ GrowFile(w)
    <3>1. PICK g \in Files :
            /\ pc[w] = "append" /\ pc'[w] \in UsingNew /\ new_iv'[w].block_id = g
            /\ block_cnt' = [block_cnt EXCEPT ![g] = block_cnt[g] + 1]
      BY <1>0, <2>3 DEF ReuseSlot, GrowFile, NewValue, Goto, UsingNew, TypeInv, CallsOK
    <3>2. ~InHand(w, f) /\ (InHand(w, f)' <=> f = g)
      BY <3>1 DEF InHand, UsingNew
    <3> QED
      BY <1>0, <1>1, <1>2, <1>a, <2>2, <3>1, <3>2
  <2>4. CASE FreeSlot(w)
    <3>1. PICK g \in Files :
            /\ g = iv[w].block_id /\ pc[w] = "delete_slot" /\ pc'[w] = "delete_header"
            /\ block_cnt' = [block_cnt EXCEPT ![g] = block_cnt[g] - 1]
      BY <1>0, <2>4 DEF FreeSlot, Goto, TypeInv, CallsOK, UsingIv, Entry
    <3>2. ~InHand(w, f)' /\ (InHand(w, f) <=> f = g)
      BY <3>1 DEF InHand, UsingNew
    <3> QED
      BY <1>0, <1>1, <1>2, <1>a, <2>2, <3>1, <3>2
  <2>5. CASE ~(ReuseSlot(w) \/ GrowFile(w) \/ FreeSlot(w))
    <3>1. block_cnt' = block_cnt
      BY <1>7, <2>5 DEF Steps, filevars, FindRecord, FindNothing, FindNoMemory, FindLockFile, FindRead,
         ModifyStart, ModifyWrite, AppendWrite, LeakSlot, DeleteSyncHeader, DeleteSyncSlot,
         UpdateFound, UpdateNotFound, DeleteFound, DeleteNotFound, LookupFails, UnlockIndex, Return, Call
    <3>2. InHand(w, f)' <=> InHand(w, f)
      <4>1. CASE AppendWrite(w)
        BY <1>0, <4>1 DEF AppendWrite, InHand, UsingNew, Goto, locals
      <4>2. CASE ~AppendWrite(w)
        <5>1. pc[w] \notin UsingNew \cup {"delete_slot"}
          BY <1>7, <2>5, <4>2, NothingLeaks DEF Steps, UsingNew, FindRecord, FindNothing, FindNoMemory,
             FindLockFile, FindRead, ModifyStart, ModifyWrite, DeleteSyncHeader, DeleteSyncSlot,
             UpdateFound, UpdateNotFound, DeleteFound, DeleteNotFound, LookupFails, UnlockIndex,
             Return, Call
        <5>2. ~Call(w) \/ pc'[w] \in {"find", "update", "delete"}
          BY <1>0, RequestFields DEF Call, Goto
        <5>3. ~DeleteSyncSlot(w) \/ pc'[w] \in {"unlock", "append"}
          BY <1>0 DEF DeleteSyncSlot, AfterDelete, Goto
        <5>4. \/ Call(w) \/ DeleteSyncSlot(w)
              \/ pc'[w] \in {"find_file", "find_read", "done", "idle", "unlock", "modify", "modify_write",
                             "modify_put", "append", "delete_record", "delete_sync_slot"}
          BY <1>0, <1>7, <2>5, <4>2, NothingLeaks DEF Steps, Goto, FindRecord, FindNothing, FindNoMemory,
             FindLockFile, FindRead, ModifyStart, ModifyWrite, DeleteSyncHeader, UpdateFound,
             UpdateNotFound, DeleteFound, DeleteNotFound, LookupFails, UnlockIndex, Return
        <5>5. pc'[w] \notin UsingNew \cup {"delete_slot"}
          BY <5>2, <5>3, <5>4 DEF UsingNew
        <5> QED
          BY <5>1, <5>5 DEF InHand, UsingNew
      <4> QED
        BY <4>1, <4>2
    <3> QED
      BY <1>1, <1>2, <1>a, <2>2, <3>1, <3>2
  <2> QED
    BY <2>3, <2>4, <2>5
<1> QED
  BY <1>6, <1>7

\* When index entries can be written and no free list can overflow, block_cnt
\* of a data file, which update_block() and delete_block() change at four
\* places under different locks, counts its records whenever nobody is at work.
THEOREM BlocksAreCounted ==
    ASSUME "put" \notin Faults, FreeListsSuffice
    PROVE  Spec => []BlocksCounted
<1>1. Init => CountInv
  <2> SUFFICES ASSUME Init PROVE CountInv
    OBVIOUS
  <2>1. AbsentRecord
    BY DEF Init, AbsentRecord, Gone, UsingNew
  <2>2. ASSUME NEW f \in Files PROVE RecordsIn(f) = {} /\ HandsIn(f) = {} /\ block_cnt[f] = 0
    BY DEF Init, RecordsIn, HandsIn, InHand, UsingNew
  <2>3. Counted
    BY <2>2, FS_EmptySet DEF Counted
  <2> QED
    BY <2>1, <2>3, TypeInit, SlotInit DEF CountInv
<1>2. CountInv /\ [Next]_vars => CountInv'
  <2> SUFFICES ASSUME CountInv, [Next]_vars PROVE CountInv'
    OBVIOUS
  <2>0. TypeInv /\ SlotInv /\ AbsentRecord /\ (NoAbort => Counted)
    BY DEF CountInv
  <2>1. TypeInv' /\ SlotInv'
    BY <2>0, TypeStep, SlotStep
  <2>2. ASSUME NEW w \in Workers, Steps(w) PROVE CountInv'
    <3>1. AbsentRecord'
      BY <2>0, <2>2, AbsentStep
    <3>2. ASSUME NoAbort' PROVE Counted'
      <4>1. NoAbort
        BY <2>0, <2>2, <3>2, StepsRun, OthersStay DEF NoAbort, SamePlace
      <4> QED
        BY <2>0, <2>2, <4>1, CountedStep
    <3> QED
      BY <2>1, <3>1, <3>2 DEF CountInv
  <2>3. ASSUME NEW w \in Workers, Abort PROVE CountInv'
    BY <2>1, <2>3 DEF Abort, CountInv, AbsentRecord, Gone, UsingNew, NoAbort
  <2>4. CASE (\E f \in Files : sync_storage(f)) \/ UNCHANGED vars
    <3>1. UNCHANGED <<index, block_cnt, pc, req, iv, new_iv>>
      BY <2>4 DEF sync_storage, vars, locals, indexvars
    <3>2. AbsentRecord' /\ (NoAbort' => Counted')
      BY <2>0, <3>1 DEF AbsentRecord, Record, NoAbort, Counted, RecordsIn, HandsIn, InHand
    <3> QED
      BY <2>1, <3>2 DEF CountInv
  <2> QED
    BY <2>2, <2>3, <2>4, WorkSteps DEF Next
<1>3. CountInv => BlocksCounted
  <2> SUFFICES ASSUME CountInv, \A w \in Workers : pc[w] = "idle", NEW f \in Files
               PROVE  block_cnt[f] = Cardinality(RecordsIn(f))
    BY DEF BlocksCounted, RecordsIn
  <2>1. NoAbort /\ HandsIn(f) = {}
    BY DEF NoAbort, HandsIn, InHand, UsingNew
  <2>2. Cardinality(HandsIn(f)) = 0 /\ Cardinality(RecordsIn(f)) \in Nat
    BY <2>1, FS_EmptySet, CountedFinite
  <2> QED
    BY <2>1, <2>2 DEF CountInv, Counted
<1> QED
  BY <1>1, <1>2, <1>3, PTL DEF Spec

-----------------------------------------------------------------------------
(* Storage implements KVStore: every call takes effect at one moment.  The *)
(* proof needs the writes, the index and the memory to be there (a failed  *)
(* call returns an error that KVStore does not know) and every value to    *)
(* fit some block; headers and the journal may fail.                       *)

\* Nothing fails that a caller would be told of.
NothingFails == Faults \subseteq {"hwrite", "journal"}

\* Every value has a size that an int can hold and a block that is large enough.
ValuesFit ==
    \A d \in Data :
        DataSize[d] <= INT_MAX /\ \E f \in Files : DataSize[d] <= block_size_array[f]

-----------------------------------------------------------------------------
(* What a worker in a call has promised to its caller.                     *)

MovingPlaces ==
    {"delete_slot", "delete_header", "delete_sync_slot", "append", "append_reuse", "append_grow",
     "append_put"}

\* The result of a call is not set before the call takes effect, find_block()
\* serves gets and delete_block() dels, and a set that has deleted the old
\* record, or found none, finds no record until it puts the new one.
InCall(w) ==
    /\ pc[w] \in {"idle", "find", "update", "delete"} => iv[w] = NoEntry
    /\ pc[w] \notin {"unlock", "done"} => ret[w] = 0
    /\ pc[w] # "done" => out[w] = None
    /\ pc[w] \in {"find", "find_file", "find_read"} => req[w].op = "get"
    /\ pc[w] = "delete" => req[w].op = "del"
    /\ req[w].op = "set" /\ pc[w] \in MovingPlaces => Record(w) = None
CallInv == \A w \in Workers : InCall(w)

-----------------------------------------------------------------------------
(* One step and the calls in progress.                                     *)

\* A step of w changes the results of no other worker.
LEMMA OthersResults ==
    ASSUME TypeInv, NEW w \in Workers, Steps(w), NEW u \in Workers, u # w
    PROVE  ret'[u] = ret[u] /\ out'[u] = out[u]
<1> USE DEF locals, Returns, TypeInv, TypeOK
<1>1. CASE FindRecord(w) \/ FindLockFile(w) \/ ModifyStart(w) \/ ModifyWrite(w) \/ ReuseSlot(w) \/ GrowFile(w) \/ AppendWrite(w) \/ AppendPut(w) \/ FreeSlot(w) \/ DeleteSyncHeader(w) \/ UpdateFound(w) \/ UpdateNotFound(w) \/ DeleteFound(w) \/ UnlockIndex(w) \/ Call(w)
  BY <1>1 DEF FindRecord, FindLockFile, ModifyStart, ModifyWrite, ReuseSlot, GrowFile, AppendWrite, AppendPut, FreeSlot, DeleteSyncHeader, UpdateFound, UpdateNotFound, DeleteFound, UnlockIndex, Call
<1>2. CASE FindNothing(w)
  BY <1>2 DEF FindNothing
<1>3. CASE FindNoMemory(w)
  BY <1>3 DEF FindNoMemory
<1>4. CASE FindRead(w)
  BY <1>4 DEF FindRead
<1>5. CASE ModifyPut(w)
  BY <1>5 DEF ModifyPut
<1>6. CASE DeleteRecord(w)
  BY <1>6 DEF DeleteRecord
<1>7. CASE LeakSlot(w)
  BY <1>7 DEF LeakSlot, AfterDelete
<1>8. CASE DeleteSyncSlot(w)
  BY <1>8 DEF DeleteSyncSlot, AfterDelete
<1>9. CASE DeleteNotFound(w)
  BY <1>9 DEF DeleteNotFound
<1>10. CASE LookupFails(w)
  BY <1>10 DEF LookupFails
<1>11. CASE Return(w)
  BY <1>11 DEF Return
<1> QED
  BY <1>1, <1>2, <1>3, <1>4, <1>5, <1>6, <1>7, <1>8, <1>9, <1>10, <1>11 DEF Steps

\* The worker that moves.
LEMMA MoverInCall ==
    ASSUME TypeInv, AllKnow, CallInv, NothingFails, NEW w \in Workers, Steps(w)
    PROVE  InCall(w)'
<1>0. /\ pc \in [Workers -> Places] /\ iv \in [Workers -> Entry \cup {NoEntry}]
      /\ ret \in [Workers -> {0, -1, -2, -3, -4, DB_NOTFOUND}] /\ out \in [Workers -> Data \cup {None, Torn}]
      /\ req \in [Workers -> Requests \cup {NoRequest}]
  BY DEF TypeInv, TypeOK
<1>k. InCall(w)
  BY DEF CallInv
<1>r. pc[w] \notin {"idle", "abort"} =>
        req[w].op \in {"get", "set", "del"} /\ req[w].bucket \in Buckets /\ req[w].key \in Keys
  BY RequestOfCall
<1> USE <1>0, <1>k DEF InCall, MovingPlaces, Goto, Returns, locals, Record, indexvars
<1>1. CASE FindRecord(w)
  BY <1>1, <1>r DEF FindRecord, MayFail, NothingFails
<1>2. CASE FindNothing(w)
  BY <1>2, <1>r DEF FindNothing, MayFail, NothingFails
<1>3. CASE FindNoMemory(w)
  BY <1>3, <1>r DEF FindNoMemory, MayFail, NothingFails
<1>4. CASE FindLockFile(w)
  BY <1>4, <1>r DEF FindLockFile, MayFail, NothingFails
<1>5. CASE FindRead(w)
  BY <1>5, <1>r DEF FindRead, MayFail, NothingFails
<1>6. CASE ModifyStart(w)
  BY <1>6, <1>r DEF ModifyStart, MayFail, NothingFails
<1>7. CASE ModifyWrite(w)
  BY <1>7, <1>r DEF ModifyWrite, MayFail, NothingFails
<1>8. CASE ModifyPut(w)
  BY <1>8, <1>r DEF ModifyPut, MayFail, NothingFails
<1>9. CASE ReuseSlot(w)
  BY <1>9, <1>r DEF ReuseSlot, MayFail, NothingFails
<1>10. CASE GrowFile(w)
  BY <1>10, <1>r DEF GrowFile, MayFail, NothingFails
<1>11. CASE AppendWrite(w)
  BY <1>11, <1>r DEF AppendWrite, MayFail, NothingFails
<1>12. CASE AppendPut(w)
  BY <1>12, <1>r DEF AppendPut, MayFail, NothingFails
<1>13. CASE DeleteRecord(w)
  <2>1. index' = [index EXCEPT ![req[w].bucket][req[w].key] = None] /\ pc'[w] = "delete_slot" /\ ret' = ret
    BY <1>13 DEF DeleteRecord, MayFail, NothingFails
  <2>2. Record(w)' = None
    BY <1>13, <1>r, <2>1 DEF DeleteRecord, TypeInv, TypeOK
  <2> QED
    BY <1>13, <2>1, <2>2 DEF DeleteRecord
<1>14. CASE FreeSlot(w)
  BY <1>14, <1>r DEF FreeSlot, MayFail, NothingFails
<1>15. CASE LeakSlot(w)
  BY <1>15, <1>r DEF LeakSlot, AfterDelete, MayFail, NothingFails
<1>16. CASE DeleteSyncHeader(w)
  BY <1>16, <1>r DEF DeleteSyncHeader, MayFail, NothingFails
<1>17. CASE DeleteSyncSlot(w)
  BY <1>17, <1>r DEF DeleteSyncSlot, AfterDelete, MayFail, NothingFails
<1>18. CASE UpdateFound(w)
  BY <1>18, <1>r DEF UpdateFound, MayFail, NothingFails
<1>19. CASE UpdateNotFound(w)
  BY <1>19, <1>r DEF UpdateNotFound, MayFail, NothingFails
<1>20. CASE DeleteFound(w)
  BY <1>20, <1>r DEF DeleteFound, MayFail, NothingFails
<1>21. CASE DeleteNotFound(w)
  BY <1>21, <1>r DEF DeleteNotFound, MayFail, NothingFails
<1>22. CASE LookupFails(w)
  BY <1>22, <1>r DEF LookupFails, MayFail, NothingFails
<1>23. CASE UnlockIndex(w)
  BY <1>23, <1>r DEF UnlockIndex, MayFail, NothingFails
<1>24. CASE Return(w)
  BY <1>24 DEF Return
<1>25. CASE Call(w)
  BY <1>25, RequestFields DEF Call
<1> QED
  BY <1>1, <1>2, <1>3, <1>4, <1>5, <1>6, <1>7, <1>8, <1>9, <1>10, <1>11, <1>12, <1>13, <1>14, <1>15, <1>16, <1>17, <1>18, <1>19, <1>20, <1>21, <1>22, <1>23, <1>24, <1>25 DEF Steps

\* A step of w and the calls of the others.
LEMMA OthersInCall ==
    ASSUME TypeInv, SlotInv, CallInv, NEW w \in Workers, Steps(w), NEW u \in Workers, u # w
    PROVE  InCall(u)'
<1>1. SamePlace(u) /\ ret'[u] = ret[u] /\ out'[u] = out[u] /\ InCall(u)
  BY OthersStay, OthersResults DEF CallInv
<1>2. pc[u] \in MovingPlaces => Record(u)' = Record(u)
  <2> SUFFICES ASSUME pc[u] \in MovingPlaces PROVE Record(u)' = Record(u)
    OBVIOUS
  <2>1. pc[u] \in Owning /\ req[u].bucket \in Buckets /\ req[u].key \in Keys
    BY RequestOfCall DEF Owning, UsingNew, Deleting, MovingPlaces
  <2> QED
    BY <1>1, <2>1, IndexChange, OwnersApart DEF SamePlace, Record, SlotInv
<1> QED
  BY <1>1, <1>2 DEF InCall, SamePlace

-----------------------------------------------------------------------------
(* The abstract state.                                                     *)

\* A worker that moves its record has the index lock, so nobody else moves it.
LEMMA OneMover ==
    ASSUME Exclusive, NEW b \in Buckets, NEW k \in Keys,
           NEW u \in Workers, NEW w \in Workers, Moving(u, b, k), Moving(w, b, k)
    PROVE  u = w
<1>1. pc[u] \in Owning /\ pc[w] \in Owning /\ req[u].bucket = req[w].bucket
  BY DEF Moving, Owning, UsingNew, Deleting
<1> QED
  BY <1>1, OwnersApart

\* The value of a key, to the callers.
LEMMA MapValue ==
    ASSUME Exclusive, NEW b \in Buckets, NEW k \in Keys
    PROVE  /\ \A w \in Workers : Moving(w, b, k) => mapBar[b][k] = iv[w].crc32
           /\ (\A w \in Workers : ~Moving(w, b, k)) =>
                mapBar[b][k] = IF index[b][k] = None THEN None ELSE index[b][k].crc32
<1>1. mapBar[b][k] = IF \E w \in Workers : Moving(w, b, k)
                     THEN iv[CHOOSE w \in Workers : Moving(w, b, k)].crc32
                     ELSE IF index[b][k] = None THEN None ELSE index[b][k].crc32
  BY DEF mapBar
<1>2. ASSUME NEW w \in Workers, Moving(w, b, k) PROVE mapBar[b][k] = iv[w].crc32
  <2>1. \E u \in Workers : Moving(u, b, k)
    BY <1>2
  <2>2. (CHOOSE u \in Workers : Moving(u, b, k)) \in Workers
        /\ Moving(CHOOSE u \in Workers : Moving(u, b, k), b, k)
    BY <2>1
  <2>3. (CHOOSE u \in Workers : Moving(u, b, k)) = w
    BY <1>2, <2>2, OneMover
  <2> QED
    BY <1>1, <2>1, <2>3
<1> QED
  BY <1>1, <1>2

\* The same, after a step.
LEMMA NextMapValue ==
    ASSUME Exclusive', NEW b \in Buckets, NEW k \in Keys
    PROVE  /\ \A w \in Workers : Moving(w, b, k)' => mapBar'[b][k] = iv'[w].crc32
           /\ (\A w \in Workers : ~Moving(w, b, k)') =>
                mapBar'[b][k] = IF index'[b][k] = None THEN None ELSE index'[b][k].crc32
<1>1. mapBar'[b][k] = IF \E w \in Workers : Moving(w, b, k)'
                      THEN iv'[CHOOSE w \in Workers : Moving(w, b, k)'].crc32
                      ELSE IF index'[b][k] = None THEN None ELSE index'[b][k].crc32
  BY DEF mapBar
<1>2. ASSUME NEW w \in Workers, Moving(w, b, k)' PROVE mapBar'[b][k] = iv'[w].crc32
  <2>1. \E u \in Workers : Moving(u, b, k)'
    BY <1>2
  <2>2. PICK u \in Workers : u = (CHOOSE v \in Workers : Moving(v, b, k)') /\ Moving(u, b, k)'
    BY <2>1
  <2>3. u = w
    BY <1>2, <2>2 DEF Moving, Exclusive, Owning, UsingNew, Deleting
  <2> QED
    BY <1>1, <2>1, <2>2, <2>3
<1> QED
  BY <1>1, <1>2

\* A key keeps its value if its record and those who move it stay.
LEMMA MapFrame ==
    ASSUME Exclusive, Exclusive', NEW b \in Buckets, NEW k \in Keys, index'[b][k] = index[b][k],
           \A u \in Workers : Moving(u, b, k)' <=> Moving(u, b, k),
           \A u \in Workers : Moving(u, b, k) => iv'[u] = iv[u]
    PROVE  mapBar'[b][k] = mapBar[b][k]
<1>1. CASE \E u \in Workers : Moving(u, b, k)
  <2>1. PICK u \in Workers : Moving(u, b, k)
    BY <1>1
  <2>2. mapBar[b][k] = iv[u].crc32 /\ mapBar'[b][k] = iv'[u].crc32
    BY <2>1, MapValue, NextMapValue
  <2> QED
    BY <2>1, <2>2
<1>2. CASE \A u \in Workers : ~Moving(u, b, k)
  BY <1>2, MapValue, NextMapValue
<1> QED
  BY <1>1, <1>2

\* A call keeps its request until it returns.
LEMMA RequestStays ==
    ASSUME NEW w \in Workers, Steps(w)
    PROVE  Call(w) \/ Return(w) \/ (req' = req /\ pc[w] \notin {"idle", "abort"})
  BY DEF Steps, FindRecord, FindNothing, FindNoMemory, FindLockFile, FindRead, ModifyStart,
     ModifyWrite, ModifyPut, ReuseSlot, GrowFile, AppendWrite, AppendPut, DeleteRecord, FreeSlot,
     LeakSlot, DeleteSyncHeader, DeleteSyncSlot, UpdateFound, UpdateNotFound, DeleteFound,
     DeleteNotFound, LookupFails, UnlockIndex

\* A step of w leaves the value of every key alone but the one it works on.
LEMMA MapElsewhere ==
    ASSUME TypeInv, SlotInv, SlotInv', NEW w \in Workers, Steps(w), NEW b \in Buckets, NEW k \in Keys,
           Call(w) \/ Return(w) \/ b # req[w].bucket \/ k # req[w].key
    PROVE  mapBar'[b][k] = mapBar[b][k]
<1>1. \A u \in Workers : u # w => SamePlace(u)
  BY OthersStay
<1>2. ~Moving(w, b, k) /\ ~Moving(w, b, k)'
  <2>1. CASE Call(w)
    <3>1. pc[w] = "idle" /\ pc'[w] \in {"find", "update", "delete"}
      BY <2>1, RequestFields DEF Call, Goto, TypeInv, TypeOK
    <3> QED
      BY <3>1 DEF Moving
  <2>2. CASE Return(w)
    BY <2>2 DEF Return, Goto, Moving, TypeInv, TypeOK
  <2>3. CASE req' = req /\ (b # req[w].bucket \/ k # req[w].key)
    BY <2>3 DEF Moving
  <2> QED
    BY <2>1, <2>2, <2>3, RequestStays
<1>3. index'[b][k] = index[b][k]
  <2>1. CASE Call(w) \/ Return(w)
    BY <2>1 DEF Call, Return, indexvars
  <2> QED
    BY <2>1, IndexBecomes
<1>4. \A u \in Workers : Moving(u, b, k)' <=> Moving(u, b, k)
  BY <1>1, <1>2 DEF SamePlace, Moving
<1>5. \A u \in Workers : Moving(u, b, k) => iv'[u] = iv[u]
  BY <1>1, <1>2 DEF SamePlace
<1> QED
  BY <1>3, <1>4, <1>5, MapFrame DEF SlotInv

\* Where w works nobody else moves the record.
LEMMA AloneAtKey ==
    ASSUME Exclusive, NEW w \in Workers, pc[w] \in Owning, NEW u \in Workers, u # w
    PROVE  ~Moving(u, req[w].bucket, req[w].key)
  BY OwnersApart DEF Moving, Owning, UsingNew, Deleting

-----------------------------------------------------------------------------
(* From pointwise facts to steps of KVStore.                               *)

\* The status and the result of a worker, after a step of another.
LEMMA BarsOfOthers ==
    ASSUME TypeInv, NEW w \in Workers, Steps(w), NEW u \in Workers, u # w
    PROVE  statusBar'[u] = statusBar[u] /\ resultBar'[u] = resultBar[u] /\ req'[u] = req[u]
<1>1. SamePlace(u) /\ ret'[u] = ret[u] /\ out'[u] = out[u]
  BY OthersStay, OthersResults
<1> QED
  BY <1>1 DEF SamePlace, statusBar, resultBar, Applied

\* A step that the callers do not notice.
LEMMA KVStutters ==
    ASSUME TypeInv, TypeInv', SlotInv, SlotInv', NEW w \in Workers, Steps(w), req' = req,
           statusBar'[w] = statusBar[w], resultBar'[w] = resultBar[w],
           mapBar'[req[w].bucket][req[w].key] = mapBar[req[w].bucket][req[w].key]
    PROVE  UNCHANGED KV!kvvars
<1>1. statusBar' = statusBar
  BY BarsOfOthers DEF statusBar
<1>2. resultBar' = resultBar
  BY BarsOfOthers DEF resultBar
<1>3. \A b \in Buckets, k \in Keys : mapBar'[b][k] = mapBar[b][k]
  BY MapElsewhere
<1>4. mapBar' = mapBar
  BY <1>3 DEF mapBar
<1> QED
  BY <1>1, <1>2, <1>4 DEF KV!kvvars

\* A step with which the call of w takes effect.
LEMMA KVApplies ==
    ASSUME TypeInv, SlotInv, SlotInv', NEW w \in Workers, Steps(w), req' = req,
           NEW b \in Buckets, NEW k \in Keys, b = req[w].bucket, k = req[w].key,
           statusBar[w] = "called", statusBar'[w] = "applied",
           resultBar'[w] =
               [ret   |-> IF req[w].op # "set" /\ mapBar[b][k] = None THEN DB_NOTFOUND ELSE 0,
                value |-> IF req[w].op = "get" THEN mapBar[b][k] ELSE None],
           mapBar'[b][k] = IF req[w].op = "get" THEN mapBar[b][k] ELSE req[w].data
    PROVE  KV!Apply(w)
<1>1. statusBar' = [statusBar EXCEPT ![w] = "applied"]
  BY BarsOfOthers DEF statusBar
<1>2. resultBar' = [resultBar EXCEPT ![w] = KV!Outcome(req[w])]
  <2>1. resultBar'[w] = KV!Outcome(req[w])
    BY DEF KV!Outcome
  <2>2. \A u \in Workers : u # w => resultBar'[u] = resultBar[u]
    BY BarsOfOthers
  <2>3. /\ resultBar' = [u \in Workers |-> resultBar'[u]]
        /\ resultBar = [u \in Workers |-> resultBar[u]]
    BY DEF resultBar
  <2> QED
    BY <2>1, <2>2, <2>3
<1>3. \A c \in Buckets, j \in Keys : c # b \/ j # k => mapBar'[c][j] = mapBar[c][j]
  BY MapElsewhere
<1>4. /\ mapBar' = [c \in Buckets |-> [j \in Keys |-> mapBar'[c][j]]]
      /\ mapBar = [c \in Buckets |-> [j \in Keys |-> mapBar[c][j]]]
  BY DEF mapBar
<1>5. mapBar' = IF req[w].op = "get" THEN mapBar ELSE [mapBar EXCEPT ![b][k] = req[w].data]
  <2>1. CASE req[w].op = "get"
    <3>1. \A c \in Buckets, j \in Keys : mapBar'[c][j] = mapBar[c][j]
      BY <1>3, <2>1
    <3> QED
      BY <1>4, <2>1, <3>1
  <2>2. CASE req[w].op # "get"
    <3>1. \A c \in Buckets, j \in Keys :
            mapBar'[c][j] = IF c = b /\ j = k THEN req[w].data ELSE mapBar[c][j]
      BY <1>3, <2>2
    <3>2. \A c \in Buckets, j \in Keys :
            [mapBar EXCEPT ![b][k] = req[w].data][c][j] = IF c = b /\ j = k THEN req[w].data ELSE mapBar[c][j]
      BY <1>4
    <3>3. [mapBar EXCEPT ![b][k] = req[w].data] =
            [c \in Buckets |-> [j \in Keys |-> [mapBar EXCEPT ![b][k] = req[w].data][c][j]]]
      BY <1>4, ZenonT(60)
    <3> DEFINE M == [mapBar EXCEPT ![b][k] = req[w].data]
    <3>4. \A c \in Buckets, j \in Keys : mapBar'[c][j] = M[c][j]
      BY <3>1, <3>2
    <3>5. M = [c \in Buckets |-> [j \in Keys |-> M[c][j]]]
      BY <3>3
    <3> HIDE DEF M
    <3>6. mapBar' = M
      BY <1>4, <3>4, <3>5
    <3> QED
      BY <2>2, <3>6 DEF M
  <2> QED
    BY <2>1, <2>2
<1> QED
  BY <1>1, <1>2, <1>5 DEF KV!Apply

\* A call begins.
LEMMA CallInvokes ==
    ASSUME TypeInv, TypeInv', SlotInv, SlotInv', CallInv, NEW w \in Workers, Call(w)
    PROVE  KV!Invoke(w)
<1>0. Steps(w)
  BY DEF Steps
<1>1. PICK r \in Requests : req' = [req EXCEPT ![w] = r]
  BY DEF Call
<1>2. pc[w] = "idle" /\ pc'[w] \in {"find", "update", "delete"} /\ UNCHANGED <<ret, out>>
  BY RequestFields DEF Call, Goto, locals, TypeInv, TypeOK
<1>3. statusBar' = [statusBar EXCEPT ![w] = "called"] /\ statusBar[w] = "idle"
  BY <1>0, <1>2, BarsOfOthers DEF statusBar, Applied
<1>4. resultBar' = resultBar
  <2>1. resultBar'[w] = resultBar[w]
    BY <1>2 DEF resultBar
  <2> QED
    BY <1>0, <2>1, BarsOfOthers DEF resultBar
<1>5. mapBar' = mapBar
  <2>1. \A b \in Buckets, k \in Keys : mapBar'[b][k] = mapBar[b][k]
    BY <1>0, MapElsewhere
  <2> QED
    BY <2>1 DEF mapBar
<1> QED
  BY <1>1, <1>3, <1>4, <1>5 DEF KV!Invoke

\* A call returns.
LEMMA ReturnResponds ==
    ASSUME TypeInv, SlotInv, SlotInv', NEW w \in Workers, Return(w)
    PROVE  KV!Respond(w)
<1>0. Steps(w)
  BY DEF Steps
<1>1. /\ pc[w] = "done" /\ pc'[w] = "idle" /\ ret'[w] = 0 /\ out'[w] = None
      /\ req' = [req EXCEPT ![w] = NoRequest]
  BY DEF Return, Goto, Returns, TypeInv, TypeOK
<1>2. statusBar' = [statusBar EXCEPT ![w] = "idle"] /\ statusBar[w] = "applied"
  BY <1>0, <1>1, BarsOfOthers DEF statusBar, Applied
<1>3. resultBar' = [resultBar EXCEPT ![w] = KV!NoResult]
  <2>1. resultBar'[w] = KV!NoResult
    BY <1>1 DEF resultBar, KV!NoResult
  <2>2. \A u \in Workers : u # w => resultBar'[u] = resultBar[u]
    BY <1>0, BarsOfOthers
  <2>3. /\ resultBar' = [u \in Workers |-> resultBar'[u]]
        /\ resultBar = [u \in Workers |-> resultBar[u]]
    BY DEF resultBar
  <2> QED
    BY <2>1, <2>2, <2>3
<1>5. mapBar' = mapBar
  <2>1. \A b \in Buckets, k \in Keys : mapBar'[b][k] = mapBar[b][k]
    BY <1>0, MapElsewhere
  <2> QED
    BY <2>1 DEF mapBar
<1> QED
  BY <1>1, <1>2, <1>3, <1>5 DEF KV!Respond

-----------------------------------------------------------------------------
(* Every step of the storage is a step of KVStore.                         *)

\* The steps that change neither the index nor who moves a record.
LEMMA OwnKeyStays ==
    ASSUME TypeInv, SlotInv, SlotInv', NEW w \in Workers, Steps(w), req' = req, pc[w] \notin {"idle", "abort"},
           index' = index,
           req[w].op = "set" => (pc'[w] \in MovingPlaces <=> pc[w] \in MovingPlaces),
           pc[w] \in MovingPlaces => iv' = iv
    PROVE  mapBar'[req[w].bucket][req[w].key] = mapBar[req[w].bucket][req[w].key]
<1>1. PICK b \in Buckets, k \in Keys : b = req[w].bucket /\ k = req[w].key
  BY RequestOfCall
<1>2. \A u \in Workers : u # w => SamePlace(u)
  BY OthersStay
<1>3. Moving(w, b, k)' <=> Moving(w, b, k)
  BY <1>1 DEF Moving, MovingPlaces
<1>4. \A u \in Workers : Moving(u, b, k)' <=> Moving(u, b, k)
  BY <1>2, <1>3 DEF SamePlace, Moving
<1>5. \A u \in Workers : Moving(u, b, k) => iv'[u] = iv[u]
  BY <1>2 DEF SamePlace, Moving, MovingPlaces
<1>6. mapBar'[b][k] = mapBar[b][k]
  BY <1>4, <1>5, MapFrame DEF SlotInv
<1> QED
  BY <1>1, <1>6

\* The steps between the moment a call takes effect and its return, or before
\* that moment, of which the callers see nothing.
LEMMA QuietSteps ==
    ASSUME TypeInv, TypeInv', SlotInv, SlotInv', AllKnow, CallInv, NothingFails, NEW w \in Workers,
           \/ FindLockFile(w) \/ FindRead(w) \/ UpdateFound(w) \/ DeleteFound(w) \/ UnlockIndex(w)
           \/ ModifyStart(w) \/ ModifyWrite(w)
    PROVE  UNCHANGED KV!kvvars
<1>0. /\ pc \in [Workers -> Places] /\ iv \in [Workers -> Entry \cup {NoEntry}]
      /\ ret \in [Workers -> {0, -1, -2, -3, -4, DB_NOTFOUND}] /\ out \in [Workers -> Data \cup {None, Torn}]
  BY DEF TypeInv, TypeOK
<1>1. Steps(w) /\ UNCHANGED <<index, req>> /\ pc[w] \notin {"idle", "abort"}
  BY DEF Steps, FindLockFile, FindRead, UpdateFound, DeleteFound, UnlockIndex, ModifyStart, ModifyWrite, indexvars
<1>2. pc[w] \notin MovingPlaces /\ pc'[w] \notin MovingPlaces
  BY <1>0 DEF FindLockFile, FindRead, UpdateFound, DeleteFound, UnlockIndex, ModifyStart, ModifyWrite,
     Goto, MovingPlaces
<1>3. mapBar'[req[w].bucket][req[w].key] = mapBar[req[w].bucket][req[w].key]
  BY <1>1, <1>2, OwnKeyStays
<1>4. statusBar'[w] = statusBar[w]
  BY <1>0, <1>1 DEF FindLockFile, FindRead, UpdateFound, DeleteFound, UnlockIndex, ModifyStart,
     ModifyWrite, Goto, statusBar, Applied
<1>5. resultBar'[w] = resultBar[w]
  <2>1. CASE FindRead(w)
    <3>1. content[iv[w].block_id][iv[w].offset] = iv[w].crc32
      BY <2>1 DEF FindRead, AllKnow, Knows
    <3>2. /\ pc[w] = "find_read" /\ pc'[w] = "done" /\ ret' = ret
          /\ out'[w] = content[iv[w].block_id][iv[w].offset]
      BY <1>0, <2>1 DEF FindRead, Goto, MayFail, NothingFails
    <3> QED
      BY <3>1, <3>2 DEF resultBar
  <2>2. CASE FindLockFile(w)
    BY <1>0, <2>2 DEF FindLockFile, Goto, locals, resultBar
  <2>3. CASE UpdateFound(w) \/ DeleteFound(w) \/ UnlockIndex(w) \/ ModifyStart(w) \/ ModifyWrite(w)
    BY <1>0, <2>3 DEF UpdateFound, DeleteFound, UnlockIndex, ModifyStart, ModifyWrite, Goto, locals, resultBar
  <2> QED
    BY <2>1, <2>2, <2>3
<1> QED
  BY <1>1, <1>3, <1>4, <1>5, KVStutters

\* A size that some block can hold finds one.
LEMMA BlockFound ==
    ASSUME TypeInv, ValuesFit, NEW w \in Workers, pc[w] \notin {"idle", "abort"}, req[w].op = "set"
    PROVE  ~(NewBlock(w) < 0)
<1>1. PICK n \in Nat : n = DataSize[req[w].data] /\ n <= INT_MAX /\ \E f \in Files : n <= block_size_array[f]
  BY RequestOfCall DEF ValuesFit
<1>2. NewBlockId(n) \in Files
  BY <1>1, SmallestBlockChosen
<1>3. NewBlockId(n) \in Nat
  BY <1>2, NewBlockIdType
<1> QED
  BY <1>1, <1>3 DEF NewBlock

\* The steps of do_delete_block() and append_block() on their slot.
LEMMA SlotSteps ==
    ASSUME TypeInv, TypeInv', SlotInv, SlotInv', ValuesFit, NEW w \in Workers,
           \/ FreeSlot(w) \/ LeakSlot(w) \/ DeleteSyncHeader(w) \/ DeleteSyncSlot(w)
           \/ ReuseSlot(w) \/ GrowFile(w) \/ AppendWrite(w)
    PROVE  UNCHANGED KV!kvvars
<1>0. pc \in [Workers -> Places]
  BY DEF TypeInv, TypeOK
<1>1. /\ Steps(w) /\ UNCHANGED <<index, req, iv, out>> /\ pc[w] \in MovingPlaces
      /\ pc[w] \notin {"idle", "abort"}
  BY DEF Steps, FreeSlot, LeakSlot, DeleteSyncHeader, DeleteSyncSlot, ReuseSlot, GrowFile, AppendWrite,
     indexvars, locals, MovingPlaces
<1>2. /\ req[w].op \in {"set", "del"}
      /\ pc[w] \notin {"delete_slot", "delete_header", "delete_sync_slot"} => req[w].op = "set"
  BY <1>1 DEF TypeInv, CallsOK, Setting, UsingNew, Deleting, MovingPlaces
<1>3. /\ req[w].op = "set" => pc'[w] \in MovingPlaces
      /\ req[w].op = "del" => pc'[w] \in {"delete_header", "delete_sync_slot", "unlock"}
      /\ ret' = ret
  <2>1. CASE LeakSlot(w) \/ DeleteSyncSlot(w)
    <3>1. AfterDelete(w)
      BY <2>1 DEF LeakSlot, DeleteSyncSlot
    <3>2. req[w].op # "del" => ~(NewBlock(w) < 0)
      BY <1>1, <1>2, BlockFound
    <3> QED
      BY <1>0, <1>2, <3>1, <3>2 DEF AfterDelete, Goto, MovingPlaces
  <2>2. CASE FreeSlot(w) \/ DeleteSyncHeader(w)
    BY <1>0, <2>2 DEF FreeSlot, DeleteSyncHeader, Goto, MovingPlaces, locals
  <2>3. CASE ReuseSlot(w) \/ GrowFile(w) \/ AppendWrite(w)
    <3>1. req[w].op = "set"
      BY <1>2, <2>3 DEF ReuseSlot, GrowFile, AppendWrite
    <3> QED
      BY <1>0, <2>3, <3>1 DEF ReuseSlot, GrowFile, AppendWrite, Goto, MovingPlaces, locals
  <2> QED
    BY <2>1, <2>2, <2>3
<1>4. mapBar'[req[w].bucket][req[w].key] = mapBar[req[w].bucket][req[w].key]
  BY <1>1, <1>3, OwnKeyStays
<1>5. statusBar'[w] = statusBar[w]
  BY <1>1, <1>2, <1>3 DEF statusBar, Applied, MovingPlaces
<1>6. resultBar'[w] = resultBar[w]
  BY <1>1, <1>2, <1>3 DEF resultBar, MovingPlaces
<1> QED
  BY <1>1, <1>4, <1>5, <1>6, KVStutters

\* A set that finds no record starts to move it, from nowhere.
LEMMA NewRecordQuiet ==
    ASSUME TypeInv, TypeInv', SlotInv, SlotInv', ValuesFit, CallInv, NEW w \in Workers, UpdateNotFound(w)
    PROVE  UNCHANGED KV!kvvars
<1>1. PICK b \in Buckets, k \in Keys : b = req[w].bucket /\ k = req[w].key
  BY RequestOfCall DEF UpdateNotFound
<1>2. /\ Steps(w) /\ UNCHANGED <<index, req, iv, ret, out>> /\ pc[w] = "update" /\ req[w].op = "set"
      /\ index[b][k] = None /\ iv[w] = NoEntry
  BY <1>1 DEF Steps, UpdateNotFound, indexvars, locals, Record, TypeInv, CallsOK, Setting, CallInv, InCall
<1>3. pc'[w] = "append"
  BY <1>2, BlockFound DEF UpdateNotFound, Goto, TypeInv, TypeOK
<1>4. \A u \in Workers : ~Moving(u, b, k)
  <2>1. pc'[w] \in Owning /\ req'[w] = req[w]
    BY <1>2, <1>3 DEF Owning
  <2>2. \A u \in Workers : u # w => ~Moving(u, b, k)'
    BY <1>1, <1>2, <2>1 DEF SlotInv, Exclusive, Moving, Owning, UsingNew, Deleting
  <2>3. \A u \in Workers : u # w => ~Moving(u, b, k)
    BY <1>2, <2>2, OthersStay DEF SamePlace, Moving
  <2> QED
    BY <1>2, <2>3 DEF Moving
<1>5. Moving(w, b, k)'
  BY <1>1, <1>2, <1>3 DEF Moving
<1>6. mapBar[b][k] = None
  BY <1>2, <1>4, MapValue DEF SlotInv
<1>7. mapBar'[b][k] = None
  <2>1. mapBar'[b][k] = iv'[w].crc32
    BY <1>5, NextMapValue DEF SlotInv
  <2> QED
    BY <1>2, <2>1 DEF NoEntry
<1>8. statusBar'[w] = statusBar[w] /\ resultBar'[w] = resultBar[w]
  BY <1>2, <1>3 DEF statusBar, resultBar, Applied
<1> QED
  BY <1>1, <1>2, <1>6, <1>7, <1>8, KVStutters

\* A get takes effect when it looks the key up.
LEMMA GetApplies ==
    ASSUME TypeInv, SlotInv, SlotInv', EntriesDescribe, CallInv, NothingFails, NEW w \in Workers,
           FindRecord(w) \/ FindNothing(w)
    PROVE  KV!Apply(w)
<1>0. /\ pc \in [Workers -> Places] /\ iv \in [Workers -> Entry \cup {NoEntry}]
      /\ ret \in [Workers -> {0, -1, -2, -3, -4, DB_NOTFOUND}]
  BY DEF TypeInv, TypeOK
<1>1. PICK b \in Buckets, k \in Keys : b = req[w].bucket /\ k = req[w].key
  BY RequestOfCall DEF FindRecord, FindNothing
<1>2. /\ Steps(w) /\ UNCHANGED <<index, req, out>> /\ pc[w] = "find" /\ req[w].op = "get"
      /\ ret[w] = 0 /\ out[w] = None /\ CanShare(index_lock[b])
  BY <1>1 DEF Steps, FindRecord, FindNothing, ShareIndex, indexvars, CallInv, InCall
<1>3. \A u \in Workers : ~Moving(u, b, k)
  BY <1>2 DEF CanShare, SlotInv, Exclusive, Moving, Owning, UsingNew, Deleting
<1>4. pc'[w] \in {"find_file", "done"}
  BY <1>0 DEF FindRecord, FindNothing, Goto
<1>5. mapBar'[b][k] = mapBar[b][k]
  BY <1>1, <1>2, <1>4, OwnKeyStays DEF MovingPlaces
<1>6. statusBar[w] = "called" /\ statusBar'[w] = "applied"
  BY <1>2, <1>4 DEF statusBar, Applied
<1>7. CASE FindRecord(w)
  <2>1. index[b][k] # None /\ iv'[w] = index[b][k] /\ pc'[w] = "find_file" /\ ret' = ret
    BY <1>0, <1>1, <1>7 DEF FindRecord, Record, Goto
  <2>2. mapBar[b][k] = index[b][k].crc32
    BY <1>3, <2>1, MapValue DEF SlotInv
  <2>3. mapBar[b][k] # None
    BY <2>1, <2>2, StorageAssumption DEF EntriesDescribe, Describes
  <2>4. resultBar'[w] = [ret |-> 0, value |-> mapBar[b][k]]
    BY <1>2, <2>1, <2>2 DEF resultBar
  <2> QED
    BY <1>1, <1>2, <1>5, <1>6, <2>3, <2>4, KVApplies
<1>8. CASE FindNothing(w)
  <2>1. index[b][k] = None /\ pc'[w] = "done" /\ ret'[w] = DB_NOTFOUND
    BY <1>0, <1>1, <1>8 DEF FindNothing, Record, Goto, Returns, MayFail, NothingFails
  <2>2. mapBar[b][k] = None
    BY <1>3, <2>1, MapValue DEF SlotInv
  <2>3. resultBar'[w] = [ret |-> DB_NOTFOUND, value |-> None]
    BY <1>2, <2>1 DEF resultBar
  <2> QED
    BY <1>1, <1>2, <1>5, <1>6, <2>2, <2>3, KVApplies
<1> QED
  BY <1>7, <1>8

\* A del of a key that is not there takes effect when it finds nothing.
LEMMA DeleteNotFoundApplies ==
    ASSUME TypeInv, SlotInv, SlotInv', CallInv, NEW w \in Workers, DeleteNotFound(w)
    PROVE  KV!Apply(w)
<1>1. PICK b \in Buckets, k \in Keys : b = req[w].bucket /\ k = req[w].key
  BY RequestOfCall DEF DeleteNotFound
<1>2. /\ Steps(w) /\ UNCHANGED <<index, req, out>> /\ pc[w] = "delete" /\ req[w].op = "del"
      /\ out[w] = None /\ index[b][k] = None /\ CanOwn(index_lock[b])
  BY <1>1 DEF Steps, DeleteNotFound, OwnIndex, indexvars, Record, CallInv, InCall
<1>3. pc'[w] = "unlock" /\ ret'[w] = DB_NOTFOUND
  BY DEF DeleteNotFound, Goto, Returns, TypeInv, TypeOK
<1>4. req[w].data = None
  <2>1. req[w] \in Requests
    BY <1>2, RequestOfCall
  <2> QED
    BY <1>2, <2>1 DEF Requests
<1>5. \A u \in Workers : ~Moving(u, b, k)
  BY <1>2 DEF CanOwn, SlotInv, Exclusive, Moving, Owning, UsingNew, Deleting
<1>6. mapBar[b][k] = None
  BY <1>2, <1>5, MapValue DEF SlotInv
<1>7. mapBar'[b][k] = mapBar[b][k]
  BY <1>1, <1>2, OwnKeyStays DEF MovingPlaces
<1>8. /\ statusBar[w] = "called" /\ statusBar'[w] = "applied"
      /\ resultBar'[w] = [ret |-> DB_NOTFOUND, value |-> None]
  BY <1>2, <1>3 DEF statusBar, resultBar, Applied
<1> QED
  BY <1>1, <1>2, <1>4, <1>6, <1>7, <1>8, KVApplies

\* del_record(): a del takes effect; a set that outgrows its block starts to
\* move the record, and its callers still see the old value.
LEMMA DeleteRecordRefines ==
    ASSUME TypeInv, TypeInv', SlotInv, SlotInv', EntriesDescribe, AllKnow, CallInv, NothingFails,
           NEW w \in Workers, DeleteRecord(w)
    PROVE  KV!Apply(w) \/ UNCHANGED KV!kvvars
<1>0. pc \in [Workers -> Places] /\ index \in [Buckets -> [Keys -> Entry \cup {None}]]
  BY DEF TypeInv, TypeOK
<1>1. PICK b \in Buckets, k \in Keys : b = req[w].bucket /\ k = req[w].key
  BY RequestOfCall DEF DeleteRecord
<1>2. /\ Steps(w) /\ UNCHANGED <<req, iv, ret, out>> /\ pc[w] = "delete_record" /\ pc'[w] = "delete_slot"
      /\ index' = [index EXCEPT ![b][k] = None]
  BY <1>0, <1>1 DEF Steps, DeleteRecord, MayFail, NothingFails, Goto
<1>3. /\ index[b][k] # None /\ index[b][k] = iv[w] /\ ret[w] = 0 /\ out[w] = None
      /\ req[w].op \in {"set", "del"}
  BY <1>1, <1>2 DEF AllKnow, Knows, Record, CallInv, InCall, TypeInv, CallsOK, Deleting
<1>4. index'[b][k] = None
  BY <1>0, <1>2
<1>5. pc[w] \in Owning /\ pc'[w] \in Owning
  BY <1>2 DEF Owning, Deleting
<1>6. \A u \in Workers : ~Moving(u, b, k)
  BY <1>1, <1>2, <1>5, AloneAtKey DEF SlotInv, Moving
<1>7. mapBar[b][k] = iv[w].crc32 /\ mapBar[b][k] # None
  <2>1. mapBar[b][k] = index[b][k].crc32
    BY <1>3, <1>6, MapValue DEF SlotInv
  <2>2. index[b][k].crc32 \in Data
    BY <1>3 DEF EntriesDescribe, Describes
  <2> QED
    BY <1>3, <2>1, <2>2, StorageAssumption
<1>8. CASE req[w].op = "set"
  <2>1. Moving(w, b, k)'
    BY <1>1, <1>2, <1>8 DEF Moving
  <2>2. mapBar'[b][k] = iv'[w].crc32
    BY <2>1, NextMapValue DEF SlotInv
  <2>3. statusBar'[w] = statusBar[w] /\ resultBar'[w] = resultBar[w]
    BY <1>2, <1>8 DEF statusBar, resultBar, Applied
  <2>4. mapBar'[b][k] = mapBar[b][k]
    BY <1>2, <1>7, <2>2
  <2> QED
    BY <1>1, <1>2, <2>3, <2>4, KVStutters
<1>9. CASE req[w].op = "del"
  <2>1. \A u \in Workers : ~Moving(u, b, k)'
    BY <1>2, <1>6, <1>9, OthersStay DEF Moving, SamePlace
  <2>2. mapBar'[b][k] = None
    BY <1>4, <2>1, NextMapValue DEF SlotInv
  <2>3. req[w].data = None
    <3>1. req[w] \in Requests
      BY <1>2, RequestOfCall
    <3> QED
      BY <1>9, <3>1 DEF Requests
  <2>4. /\ statusBar[w] = "called" /\ statusBar'[w] = "applied"
        /\ resultBar'[w] = [ret |-> 0, value |-> None]
    BY <1>2, <1>3, <1>9 DEF statusBar, resultBar, Applied
  <2> QED
    BY <1>1, <1>2, <1>7, <1>9, <2>2, <2>3, <2>4, KVApplies
<1> QED
  BY <1>3, <1>8, <1>9

\* insert_record(): a set takes effect.
LEMMA SetApplies ==
    ASSUME TypeInv, SlotInv, SlotInv', EntriesDescribe, AllKnow, CallInv, NothingFails,
           NEW w \in Workers, ModifyPut(w) \/ AppendPut(w)
    PROVE  KV!Apply(w)
<1>0. pc \in [Workers -> Places] /\ index \in [Buckets -> [Keys -> Entry \cup {None}]]
  BY DEF TypeInv, TypeOK
<1>1. PICK b \in Buckets, k \in Keys : b = req[w].bucket /\ k = req[w].key
  BY RequestOfCall DEF ModifyPut, AppendPut
<1>2. /\ Steps(w) /\ UNCHANGED <<req, iv, ret, out>> /\ pc[w] \in {"modify_put", "append_put"}
      /\ pc'[w] = "unlock"
  BY <1>0, <1>1 DEF Steps, ModifyPut, AppendPut, MayFail, NothingFails, Goto, locals
<1>3. ret[w] = 0 /\ out[w] = None /\ req[w].op = "set" /\ req[w].data \in Data
  <2>1. req[w].op = "set"
    BY <1>2 DEF TypeInv, CallsOK, Setting, UsingNew
  <2> QED
    BY <1>2, <2>1, RequestOfCall DEF CallInv, InCall
<1>4. index'[b][k].crc32 = req[w].data /\ index'[b][k] # None
  <2>1. CASE ModifyPut(w)
    <3>1. index' = [index EXCEPT ![b][k] = iv[w]] /\ pc[w] = "modify_put"
      BY <1>1, <2>1 DEF ModifyPut, MayFail, NothingFails
    <3>2. index'[b][k] = iv[w]
      BY <1>0, <3>1
    <3>3. iv[w].crc32 = req[w].data /\ iv[w] \in Entry
      BY <3>1 DEF AllKnow, Knows, Describes, TypeInv, CallsOK, UsingIv
    <3> QED
      BY <3>2, <3>3, NoneAssumption
  <2>2. CASE AppendPut(w)
    <3>1. index' = [index EXCEPT ![b][k] = new_iv[w]] /\ pc[w] = "append_put"
      BY <1>1, <2>2 DEF AppendPut, MayFail, NothingFails
    <3>2. index'[b][k] = new_iv[w]
      BY <1>0, <3>1
    <3>3. new_iv[w].crc32 = req[w].data /\ new_iv[w] \in Entry
      BY <3>1 DEF AllKnow, Knows, Describes, TypeInv, CallsOK, UsingNew
    <3> QED
      BY <3>2, <3>3, NoneAssumption
  <2> QED
    BY <2>1, <2>2
<1>5. pc[w] \in Owning
  BY <1>2 DEF Owning, UsingNew
<1>6. \A u \in Workers : ~Moving(u, b, k)'
  <2>1. \A u \in Workers : u # w => ~Moving(u, b, k)
    BY <1>1, <1>5, AloneAtKey DEF SlotInv
  <2> QED
    BY <1>2, <2>1, OthersStay DEF Moving, SamePlace
<1>7. mapBar'[b][k] = req[w].data
  BY <1>4, <1>6, NextMapValue DEF SlotInv
<1>8. /\ statusBar[w] = "called" /\ statusBar'[w] = "applied"
      /\ resultBar'[w] = [ret |-> 0, value |-> None]
  BY <1>2, <1>3 DEF statusBar, resultBar, Applied
<1> QED
  BY <1>1, <1>2, <1>3, <1>7, <1>8, KVApplies

-----------------------------------------------------------------------------
(* The theorem.                                                            *)

\* All that the refinement needs to know of a reachable state.
RefInv == StoreInv /\ NoAbort /\ CallInv

\* The invariant of the refinement holds at the start and through every step.
LEMMA RefInit == Init => RefInv
<1> SUFFICES ASSUME Init PROVE RefInv
  OBVIOUS
<1>1. CallInv
  BY DEF Init, CallInv, InCall, MovingPlaces, NoRequest
<1> QED
  BY <1>1, StoreInit DEF Init, RefInv, NoAbort

\* The hypotheses of the refinement are those of the data invariants.
LEMMA RefAssumptions ==
    /\ NothingFails => WritesSucceed
    /\ ValuesFit => SizesFitInt
  BY DEF NothingFails, WritesSucceed, ValuesFit, SizesFitInt

\* The invariant is inductive.
LEMMA RefStep ==
    ASSUME NothingFails, ValuesFit, RefInv, [Next]_vars
    PROVE  RefInv'
<1>1. StoreInv' /\ NoAbort'
  BY RefAssumptions, StoreStep, RunningStep DEF RefInv, StoreInv, WritesSucceed
<1>2. AllKnow
  BY DEF RefInv, StoreInv, DataInv
<1>3. ASSUME NEW w \in Workers, Steps(w) PROVE CallInv'
  <2> SUFFICES ASSUME NEW u \in Workers PROVE InCall(u)'
    BY DEF CallInv
  <2>1. CASE u = w
    BY <1>2, <1>3, <2>1, MoverInCall DEF RefInv, StoreInv
  <2>2. CASE u # w
    BY <1>3, <2>2, OthersInCall DEF RefInv, StoreInv
  <2> QED
    BY <2>1, <2>2
<1>4. CASE (\E f \in Files : sync_storage(f)) \/ UNCHANGED vars
  <2>1. UNCHANGED <<index, pc, req, iv, ret, out>>
    BY <1>4 DEF sync_storage, vars, indexvars, locals
  <2>2. CallInv'
    BY <2>1 DEF RefInv, CallInv, InCall, Record
  <2> QED
    BY <1>1, <2>2 DEF RefInv
<1>5. CASE Abort
  <2>1. Workers = {}
    BY <1>1, <1>5 DEF Abort, NoAbort
  <2> QED
    BY <1>1, <2>1 DEF RefInv, CallInv
<1> QED
  BY <1>1, <1>3, <1>4, <1>5, WorkSteps DEF Next, RefInv

\* The initial state of the storage is that of the key-value store.
LEMMA BarInit == Init => KV!Init
<1> SUFFICES ASSUME Init PROVE KV!Init
  OBVIOUS
<1>1. \A w \in Workers : pc[w] = "idle"
  BY DEF Init
<1>2. mapBar = [b \in Buckets |-> [k \in Keys |-> None]]
  BY <1>1 DEF Init, mapBar, Moving
<1>3. statusBar = [w \in Workers |-> "idle"]
  BY <1>1 DEF statusBar
<1>4. resultBar = [w \in Workers |-> KV!NoResult]
  BY <1>1 DEF Init, resultBar, KV!NoResult
<1> QED
  BY <1>2, <1>3, <1>4 DEF Init, KV!Init

\* Every step of the storage is one of the key-value store, or none.
LEMMA BarStep ==
    ASSUME NothingFails, ValuesFit, RefInv, RefInv', [Next]_vars
    PROVE  [KV!Next]_(KV!kvvars)
<1>0. /\ TypeInv /\ TypeInv' /\ SlotInv /\ SlotInv' /\ EntriesDescribe /\ AllKnow /\ CallInv
  BY DEF RefInv, StoreInv, DataInv
<1>1. ASSUME NEW w \in Workers, Steps(w) PROVE [KV!Next]_(KV!kvvars)
  <2>1. CASE Call(w)
    BY <1>0, <2>1, CallInvokes DEF KV!Next
  <2>2. CASE Return(w)
    BY <1>0, <2>2, ReturnResponds DEF KV!Next
  <2>3. CASE \/ FindLockFile(w) \/ FindRead(w) \/ UpdateFound(w) \/ DeleteFound(w) \/ UnlockIndex(w)
             \/ ModifyStart(w) \/ ModifyWrite(w)
    BY <1>0, <2>3, QuietSteps
  <2>4. CASE \/ FreeSlot(w) \/ LeakSlot(w) \/ DeleteSyncHeader(w) \/ DeleteSyncSlot(w)
             \/ ReuseSlot(w) \/ GrowFile(w) \/ AppendWrite(w)
    BY <1>0, <2>4, SlotSteps
  <2>5. CASE UpdateNotFound(w)
    BY <1>0, <2>5, NewRecordQuiet
  <2>6. CASE FindRecord(w) \/ FindNothing(w)
    BY <1>0, <2>6, GetApplies DEF KV!Next
  <2>7. CASE DeleteNotFound(w)
    BY <1>0, <2>7, DeleteNotFoundApplies DEF KV!Next
  <2>8. CASE DeleteRecord(w)
    BY <1>0, <2>8, DeleteRecordRefines DEF KV!Next
  <2>9. CASE ModifyPut(w) \/ AppendPut(w)
    BY <1>0, <2>9, SetApplies DEF KV!Next
  <2>10. ~FindNoMemory(w) /\ ~LookupFails(w)
    BY DEF FindNoMemory, LookupFails, MayFail, NothingFails
  <2> QED
    BY <1>1, <2>1, <2>2, <2>3, <2>4, <2>5, <2>6, <2>7, <2>8, <2>9, <2>10 DEF Steps
<1>2. CASE (\E f \in Files : sync_storage(f)) \/ UNCHANGED vars
  <2>1. UNCHANGED <<index, pc, req, iv, ret, out>>
    BY <1>2 DEF sync_storage, vars, indexvars, locals
  <2> QED
    BY <2>1 DEF KV!kvvars, mapBar, Moving, statusBar, Applied, resultBar
<1>3. CASE Abort
  <2>1. Workers = {}
    BY <1>3 DEF Abort, RefInv, NoAbort
  <2>2. UNCHANGED <<index, req>>
    BY <1>3 DEF Abort, indexvars
  <2> QED
    BY <2>1, <2>2 DEF KV!kvvars, mapBar, statusBar, resultBar
<1> QED
  BY <1>1, <1>2, <1>3, WorkSteps DEF Next

\* When nothing fails that a caller would be told of, and every value fits a
\* block, find_block(), update_block() and delete_block() are linearizable:
\* each appears to take effect at one moment between its call and its return,
\* for any number of workers, buckets and keys.
THEOREM StorageLinearizable ==
    ASSUME NothingFails, ValuesFit
    PROVE  Spec => Linearizable
<1>1. RefInv /\ [Next]_vars => RefInv'
  BY RefStep
<1>2. RefInv /\ RefInv' /\ [Next]_vars => [KV!Next]_(KV!kvvars)
  BY BarStep
<1> QED
  BY <1>1, <1>2, RefInit, BarInit, PTL DEF Spec, Linearizable, KV!Spec

=============================================================================
