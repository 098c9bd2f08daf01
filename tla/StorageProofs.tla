--------------------------- MODULE StorageProofs ---------------------------
(***************************************************************************)
(* Proofs about Storage, for any finite set of workers and any buckets,    *)
(* keys, values, block sizes and bounds, and whatever may fail.            *)
(***************************************************************************)
EXTENDS Storage, FiniteSetTheorems, TLAPS

-----------------------------------------------------------------------------
(* The inductive invariant.                                                *)

\* Places where a worker uses iv, uses new_iv, or works on a set.
UsingIv ==
    {"find_file", "find_read", "modify", "modify_write", "modify_put", "delete_record",
     "delete_slot", "delete_header", "delete_sync_slot"}
UsingNew == {"append_reuse", "append_grow", "append_put"}
Setting == {"update", "modify", "modify_write", "modify_put", "append"} \cup UsingNew
Deleting == {"delete_record", "delete_slot", "delete_header", "delete_sync_slot"}

\* Each place of a call comes with a request that leads there and with the
\* locals it uses.
CallsOK ==
    \A w \in Workers :
        /\ pc[w] \notin {"idle", "abort"} => req[w] \in Requests
        /\ pc[w] \in Setting => req[w].op = "set"
        /\ pc[w] \in Deleting \cup {"delete"} => req[w].op \in {"set", "del"}
        /\ pc[w] = "append" => NewBlock(w) \in Files
        /\ pc[w] \in UsingIv => iv[w] \in Entry /\ iv[w].offset \in Slots
        /\ pc[w] \in UsingNew => new_iv[w] \in Entry /\ new_iv[w].offset \in Slots

\* Every indexed record and every free slot has an offset in its file.
OffsetsOK ==
    /\ \A b \in Buckets, k \in Keys : index[b][k] # None => index[b][k].offset \in Slots
    /\ \A f \in Files, p \in Positions :
         p < free_slots_cnt[f] => free_slots_offset[f][p] \in Slots

TypeInv == TypeOK /\ CallsOK /\ OffsetsOK

\* Places where a worker has the index lock of its bucket to itself.
Owning ==
    {"unlock", "modify", "modify_write", "modify_put", "append"} \cup UsingNew \cup Deleting

\* A worker that updates a bucket is the only owner of its index lock.
Exclusive ==
    \A w \in Workers : pc[w] \in Owning => index_lock[req[w].bucket].wr = {w}

\* The record that a worker is about to rewrite or delete is where the index
\* said it was.
Editing == {"modify", "modify_write", "modify_put", "delete_record"}
Current(w) ==
    Record(w) # None /\ Record(w).block_id = iv[w].block_id /\ Record(w).offset = iv[w].offset
IvCurrent == \A w \in Workers : pc[w] \in Editing => Current(w)

\* No slot with an owner lies behind the slots that the counters account for.
Bounded ==
    \A f \in Files, s \in Slots :
        \/ \E b \in Buckets, k \in Keys : Live(f, s, b, k)
        \/ \E p \in Positions : Free(f, s, p)
        \/ \E w \in Workers : Held(f, s, w)
        => s <= block_cnt[f] + free_slots_cnt[f]

SlotInv == Exclusive /\ IvCurrent /\ Bounded /\ NoSharedSlot

\* What a worker holds, by its place: nothing but what that place needs.
Holds(w) ==
    /\ \A b \in Buckets :
        /\ w \in index_lock[b].wr => pc[w] \in Owning /\ req[w].bucket = b
        /\ \/ index_lock[b].rd[w] = IF pc[w] = "find_file" /\ req[w].bucket = b THEN 1 ELSE 0
           \/ MayFail("nomem")
    /\ \A f \in Files :
        /\ w \in file_lock[f].wr =>
             \/ pc[w] = "modify_write" /\ iv[w].block_id = f
             \/ pc[w] \in {"append_reuse", "append_grow"} /\ new_iv[w].block_id = f
        /\ file_lock[f].rd[w] = IF pc[w] = "find_read" /\ iv[w].block_id = f THEN 1 ELSE 0

HoldsOK == \A w \in Workers : pc[w] # "abort" => Holds(w)

-----------------------------------------------------------------------------
(* The operators that the actions are built from.                          *)

\* What a request consists of (struct fields of the three calls' arguments).
LEMMA RequestFields ==
    ASSUME NEW r \in Requests
    PROVE  /\ r.bucket \in Buckets /\ r.key \in Keys
           /\ r.op \in {"get", "set", "del"}
           /\ r.op = "set" => r.data \in Data
  BY DEF Requests

\* update_block() chooses a block file or -1, and block ids are no negatives.
LEMMA NewBlockIdType ==
    /\ \A n : NewBlockId(n) \in Files \cup {-1}
    /\ Files \subseteq Nat
<1>1. Files \subseteq Nat
  BY BlockSizesAssumption DEF Files
<1>2. \A n : find_block_file(n) \in Files \cup {-1}
  BY DEF find_block_file
<1> QED
  BY <1>1, <1>2 DEF NewBlockId

\* Taking and releasing keeps a lock a lock.
LEMMA LockOpsType ==
    ASSUME NEW l \in LockType(Workers), NEW w \in Workers
    PROVE  /\ Share(l, w) \in LockType(Workers)
           /\ Unshare(l, w) \in LockType(Workers)
           /\ Own(l, w) \in LockType(Workers)
           /\ Disown(l, w) \in LockType(Workers)
  BY DEF LockType, Share, Unshare, Own, Disown

-----------------------------------------------------------------------------
\* A worker in the middle of a call works on a request of its type.
LEMMA RequestOfCall ==
    ASSUME TypeInv, NEW w \in Workers, pc[w] \notin {"idle", "abort"}
    PROVE  /\ req[w] \in Requests
           /\ req[w].bucket \in Buckets /\ req[w].key \in Keys
           /\ req[w].op \in {"get", "set", "del"}
           /\ req[w].op = "set" => req[w].data \in Data /\ DataSize[req[w].data] \in Nat
<1>1. req[w] \in Requests
  BY DEF TypeInv, CallsOK
<1> QED
  BY <1>1, RequestFields, StorageAssumption

\* What find_record() returns is an index_value_t with an offset in its file.
LEMMA RecordType ==
    ASSUME TypeInv, NEW w \in Workers, pc[w] \notin {"idle", "abort"}, Record(w) # None
    PROVE  Record(w) \in Entry /\ Record(w).offset \in Slots
  BY RequestOfCall DEF Record, TypeInv, TypeOK, OffsetsOK

\* Assigning one element of a table of tables.
LEMMA TableUpdate ==
    ASSUME NEW A, NEW B, NEW C, NEW t \in [A -> [B -> C]], NEW a \in A, NEW b \in B, NEW c \in C
    PROVE  /\ [t EXCEPT ![a][b] = c] \in [A -> [B -> C]]
           /\ \A x \in A, y \in B :
                [t EXCEPT ![a][b] = c][x][y] = IF x = a /\ y = b THEN c ELSE t[x][y]
  OBVIOUS

\* Journalling an entry, or None for a deletion, keeps the journal's type.
LEMMA JournalType ==
    ASSUME TypeInv, NEW w \in Workers, pc[w] \notin {"idle", "abort"},
           NEW e \in Entry \cup {None}, JournalAppend(w, e)
    PROVE  journal' \in [Buckets -> [Keys -> Entry \cup {None}]]
<1>1. journal \in [Buckets -> [Keys -> Entry \cup {None}]]
  BY DEF TypeInv, TypeOK
<1>2. req[w].bucket \in Buckets /\ req[w].key \in Keys
  BY RequestOfCall
<1>3. [journal EXCEPT ![req[w].bucket][req[w].key] = e] \in [Buckets -> [Keys -> Entry \cup {None}]]
  BY <1>1, <1>2, TableUpdate
<1> QED
  BY <1>1, <1>3 DEF JournalAppend

\* The index with one record put or deleted.
LEMMA IndexUpdate ==
    ASSUME TypeInv, NEW w \in Workers, pc[w] \notin {"idle", "abort"},
           NEW e \in Entry \cup {None}, e # None => e.offset \in Slots,
           index' = [index EXCEPT ![req[w].bucket][req[w].key] = e] \/ index' = index
    PROVE  /\ index' \in [Buckets -> [Keys -> Entry \cup {None}]]
           /\ \A b \in Buckets, k \in Keys : index'[b][k] # None => index'[b][k].offset \in Slots
<1>1. /\ index \in [Buckets -> [Keys -> Entry \cup {None}]]
      /\ \A b \in Buckets, k \in Keys : index[b][k] # None => index[b][k].offset \in Slots
  BY DEF TypeInv, TypeOK, OffsetsOK
<1>2. req[w].bucket \in Buckets /\ req[w].key \in Keys
  BY RequestOfCall
<1>3. CASE index' = index
  BY <1>1, <1>3
<1>4. CASE index' = [index EXCEPT ![req[w].bucket][req[w].key] = e]
  <2>1. /\ index' \in [Buckets -> [Keys -> Entry \cup {None}]]
        /\ \A b \in Buckets, k \in Keys :
              index'[b][k] = IF b = req[w].bucket /\ k = req[w].key THEN e ELSE index[b][k]
    BY <1>1, <1>2, <1>4, TableUpdate
  <2> QED
    BY <1>1, <2>1
<1> QED
  BY <1>3, <1>4

\* The index lock keeps its type.
LEMMA IndexLockType ==
    ASSUME TypeInv, NEW w \in Workers, pc[w] \notin {"idle", "abort"},
           ShareIndex(w) \/ UnshareIndex(w) \/ OwnIndex(w) \/ DisownIndex(w)
    PROVE  index_lock' \in [Buckets -> LockType(Workers)]
<1>1. index_lock \in [Buckets -> LockType(Workers)] /\ req[w].bucket \in Buckets
  BY RequestOfCall DEF TypeInv, TypeOK
<1> DEFINE l == index_lock[req[w].bucket]
<1>2. l \in LockType(Workers)
  BY <1>1
<1>3. \E m \in LockType(Workers) : index_lock' = [index_lock EXCEPT ![req[w].bucket] = m]
  <2>1. /\ Share(l, w) \in LockType(Workers) /\ Unshare(l, w) \in LockType(Workers)
        /\ Own(l, w) \in LockType(Workers) /\ Disown(l, w) \in LockType(Workers)
    BY <1>2, LockOpsType
  <2> QED
    BY <2>1 DEF ShareIndex, UnshareIndex, OwnIndex, DisownIndex
<1> QED
  BY <1>1, <1>3

\* A header read while it changes consists of integers.
LEMMA RacyHeadersType ==
    ASSUME TypeInv, NEW f \in Files, NEW W \in SUBSET Workers
    PROVE  RacyHeaders(f, W) \subseteq [block_cnt: Int, free_slots_cnt: Int]
<1>1. /\ IsFiniteSet(Freeing(f, W)) /\ IsFiniteSet(Reusing(f, W)) /\ IsFiniteSet(Growing(f, W))
  BY StorageAssumption, FS_Subset DEF Freeing, Reusing, Growing
<1>2. /\ Cardinality(Freeing(f, W)) \in Nat /\ Cardinality(Reusing(f, W)) \in Nat
      /\ Cardinality(Growing(f, W)) \in Nat
  BY <1>1, FS_CardinalityType
<1>3. block_cnt[f] \in Int /\ free_slots_cnt[f] \in Int
  BY DEF TypeInv, TypeOK
<1> QED
  BY <1>2, <1>3 DEF RacyHeaders

\* find_block() has found the record.
LEMMA FindRecordType ==
    ASSUME TypeInv, NEW w \in Workers, FindRecord(w)
    PROVE  TypeInv'
<1>1. pc[w] \notin {"idle", "abort"}
  BY DEF FindRecord
<1>2. index_lock' \in [Buckets -> LockType(Workers)]
  BY <1>1, IndexLockType DEF FindRecord
<1>3. Record(w) \in Entry /\ Record(w).offset \in Slots
  BY <1>1, RecordType DEF FindRecord
<1>4. TypeOK'
  BY <1>2, <1>3 DEF FindRecord, TypeInv, TypeOK, indexvars, filevars, locals, Goto, Places
<1>5. CallsOK'
  BY <1>3 DEF FindRecord, TypeInv, TypeOK, CallsOK, locals, Goto, UsingIv, UsingNew, Setting, Deleting, NewBlock
<1>6. OffsetsOK'
  BY DEF FindRecord, TypeInv, TypeOK, OffsetsOK, indexvars, filevars
<1> QED
  BY <1>4, <1>5, <1>6 DEF TypeInv

\* find_block() has found nothing.
LEMMA FindNothingType ==
    ASSUME TypeInv, NEW w \in Workers, FindNothing(w)
    PROVE  TypeInv'
<1>1. pc[w] \notin {"idle", "abort"}
  BY DEF FindNothing
<1>2. ret' \in [Workers -> {0, -1, -2, -3, -4, DB_NOTFOUND}]
  <2>1. \E v \in {0, -1, -2, -3, -4, DB_NOTFOUND} : ret' = [ret EXCEPT ![w] = v]
    BY DEF FindNothing, Returns
  <2> QED
    BY <2>1 DEF TypeInv, TypeOK
<1>3. TypeOK'
  BY <1>2 DEF FindNothing, TypeInv, TypeOK, indexvars, filevars, Goto, Places
<1>4. CallsOK'
  BY DEF FindNothing, TypeInv, TypeOK, CallsOK, locals, Goto, UsingIv, UsingNew, Setting, Deleting, NewBlock
<1>5. OffsetsOK'
  BY DEF FindNothing, TypeInv, TypeOK, OffsetsOK, indexvars, filevars
<1> QED
  BY <1>3, <1>4, <1>5 DEF TypeInv

\* find_block() has no memory for the value.
LEMMA FindNoMemoryType ==
    ASSUME TypeInv, NEW w \in Workers, FindNoMemory(w)
    PROVE  TypeInv'
<1>1. pc[w] \notin {"idle", "abort"}
  BY DEF FindNoMemory
<1>2. index_lock' \in [Buckets -> LockType(Workers)]
  BY <1>1, IndexLockType DEF FindNoMemory
<1>3. TypeOK'
  BY <1>2 DEF FindNoMemory, TypeInv, TypeOK, indexvars, filevars, locals, Goto, Places, Returns
<1>4. CallsOK'
  BY DEF FindNoMemory, TypeInv, TypeOK, CallsOK, locals, Goto, UsingIv, UsingNew, Setting, Deleting, NewBlock
<1>5. OffsetsOK'
  BY DEF FindNoMemory, TypeInv, TypeOK, OffsetsOK, indexvars, filevars
<1> QED
  BY <1>3, <1>4, <1>5 DEF TypeInv

\* find_block() exchanges the index lock for the file lock.
LEMMA FindLockFileType ==
    ASSUME TypeInv, NEW w \in Workers, FindLockFile(w)
    PROVE  TypeInv'
<1>1. pc[w] \notin {"idle", "abort"}
  BY DEF FindLockFile
<1>2. index_lock' \in [Buckets -> LockType(Workers)]
  BY <1>1, IndexLockType DEF FindLockFile
<1>3. iv[w] \in Entry /\ iv[w].offset \in Slots
  BY DEF FindLockFile, TypeInv, CallsOK, UsingIv
<1>4. file_lock' \in [Files -> LockType(Workers)]
  BY <1>3, LockOpsType DEF FindLockFile, TypeInv, TypeOK, Entry
<1>5. TypeOK'
  BY <1>2, <1>4 DEF FindLockFile, TypeInv, TypeOK, indexvars, filevars, locals, Goto, Places
<1>6. CallsOK'
  BY DEF FindLockFile, TypeInv, TypeOK, CallsOK, locals, Goto, UsingIv, UsingNew, Setting, Deleting, NewBlock
<1>7. OffsetsOK'
  BY DEF FindLockFile, TypeInv, TypeOK, OffsetsOK, indexvars, filevars
<1> QED
  BY <1>5, <1>6, <1>7 DEF TypeInv

\* find_block() reads the block.
LEMMA FindReadType ==
    ASSUME TypeInv, NEW w \in Workers, FindRead(w)
    PROVE  TypeInv'
<1>1. pc[w] \notin {"idle", "abort"}
  BY DEF FindRead
<1>2. iv[w] \in Entry /\ iv[w].offset \in Slots
  BY DEF FindRead, TypeInv, CallsOK, UsingIv
<1>3. file_lock' \in [Files -> LockType(Workers)]
  BY <1>2, LockOpsType DEF FindRead, TypeInv, TypeOK, Entry
<1>4. content[iv[w].block_id][iv[w].offset] \in Data \cup {None, Torn}
  BY <1>2 DEF TypeInv, TypeOK, Entry
<1>5. /\ out' \in [Workers -> Data \cup {None, Torn}]
      /\ ret' \in [Workers -> {0, -1, -2, -3, -4, DB_NOTFOUND}]
  BY <1>4 DEF FindRead, Returns, TypeInv, TypeOK
<1>6. TypeOK'
  BY <1>3, <1>5 DEF FindRead, TypeInv, TypeOK, indexvars, filevars, Goto, Places
<1>7. CallsOK'
  BY DEF FindRead, TypeInv, TypeOK, CallsOK, locals, Goto, UsingIv, UsingNew, Setting, Deleting, NewBlock
<1>8. OffsetsOK'
  BY DEF FindRead, TypeInv, TypeOK, OffsetsOK, indexvars, filevars
<1> QED
  BY <1>6, <1>7, <1>8 DEF TypeInv

\* update_block() has found the record.
LEMMA UpdateFoundType ==
    ASSUME TypeInv, NEW w \in Workers, UpdateFound(w)
    PROVE  TypeInv'
<1>1. pc[w] \notin {"idle", "abort"}
  BY DEF UpdateFound
<1>2. index_lock' \in [Buckets -> LockType(Workers)]
  BY <1>1, IndexLockType DEF UpdateFound
<1>3. Record(w) \in Entry /\ Record(w).offset \in Slots
  BY <1>1, RecordType DEF UpdateFound
<1>4. TypeOK'
  BY <1>2, <1>3 DEF UpdateFound, TypeInv, TypeOK, indexvars, filevars, locals, Goto, Places
<1>5. CallsOK'
  BY <1>3 DEF UpdateFound, TypeInv, TypeOK, CallsOK, locals, Goto, UsingIv, UsingNew, Setting, Deleting, NewBlock
<1>6. OffsetsOK'
  BY DEF UpdateFound, TypeInv, TypeOK, OffsetsOK, indexvars, filevars
<1> QED
  BY <1>4, <1>5, <1>6 DEF TypeInv

\* update_block() has found nothing.
LEMMA UpdateNotFoundType ==
    ASSUME TypeInv, NEW w \in Workers, UpdateNotFound(w)
    PROVE  TypeInv'
<1>1. pc[w] \notin {"idle", "abort"}
  BY DEF UpdateNotFound
<1>2. index_lock' \in [Buckets -> LockType(Workers)]
  BY <1>1, IndexLockType DEF UpdateNotFound
<1>3. TypeOK'
  BY <1>2 DEF UpdateNotFound, TypeInv, TypeOK, indexvars, filevars, locals, Goto, Places
<1>4. CallsOK'
  BY NewBlockIdType DEF UpdateNotFound, TypeInv, TypeOK, CallsOK, locals, Goto, UsingIv, UsingNew, Setting, Deleting, NewBlock
<1>5. OffsetsOK'
  BY DEF UpdateNotFound, TypeInv, TypeOK, OffsetsOK, indexvars, filevars
<1> QED
  BY <1>3, <1>4, <1>5 DEF TypeInv

\* delete_block() has found the record.
LEMMA DeleteFoundType ==
    ASSUME TypeInv, NEW w \in Workers, DeleteFound(w)
    PROVE  TypeInv'
<1>1. pc[w] \notin {"idle", "abort"}
  BY DEF DeleteFound
<1>2. index_lock' \in [Buckets -> LockType(Workers)]
  BY <1>1, IndexLockType DEF DeleteFound
<1>3. Record(w) \in Entry /\ Record(w).offset \in Slots
  BY <1>1, RecordType DEF DeleteFound
<1>4. TypeOK'
  BY <1>2, <1>3 DEF DeleteFound, TypeInv, TypeOK, indexvars, filevars, locals, Goto, Places
<1>5. CallsOK'
  BY <1>3 DEF DeleteFound, TypeInv, TypeOK, CallsOK, locals, Goto, UsingIv, UsingNew, Setting, Deleting, NewBlock
<1>6. OffsetsOK'
  BY DEF DeleteFound, TypeInv, TypeOK, OffsetsOK, indexvars, filevars
<1> QED
  BY <1>4, <1>5, <1>6 DEF TypeInv

\* delete_block() has found nothing.
LEMMA DeleteNotFoundType ==
    ASSUME TypeInv, NEW w \in Workers, DeleteNotFound(w)
    PROVE  TypeInv'
<1>1. pc[w] \notin {"idle", "abort"}
  BY DEF DeleteNotFound
<1>2. index_lock' \in [Buckets -> LockType(Workers)]
  BY <1>1, IndexLockType DEF DeleteNotFound
<1>3. TypeOK'
  BY <1>2 DEF DeleteNotFound, TypeInv, TypeOK, indexvars, filevars, locals, Goto, Places, Returns, DB_NOTFOUND
<1>4. CallsOK'
  BY DEF DeleteNotFound, TypeInv, TypeOK, CallsOK, locals, Goto, UsingIv, UsingNew, Setting, Deleting, NewBlock
<1>5. OffsetsOK'
  BY DEF DeleteNotFound, TypeInv, TypeOK, OffsetsOK, indexvars, filevars
<1> QED
  BY <1>3, <1>4, <1>5 DEF TypeInv

\* find_record() has failed.
LEMMA LookupFailsType ==
    ASSUME TypeInv, NEW w \in Workers, LookupFails(w)
    PROVE  TypeInv'
<1>1. pc[w] \notin {"idle", "abort"}
  BY DEF LookupFails
<1>2. index_lock' \in [Buckets -> LockType(Workers)]
  BY <1>1, IndexLockType DEF LookupFails
<1>3. TypeOK'
  BY <1>2 DEF LookupFails, TypeInv, TypeOK, indexvars, filevars, locals, Goto, Places, Returns
<1>4. CallsOK'
  BY DEF LookupFails, TypeInv, TypeOK, CallsOK, locals, Goto, UsingIv, UsingNew, Setting, Deleting, NewBlock
<1>5. OffsetsOK'
  BY DEF LookupFails, TypeInv, TypeOK, OffsetsOK, indexvars, filevars
<1> QED
  BY <1>3, <1>4, <1>5 DEF TypeInv

\* The index lock is released.
LEMMA UnlockIndexType ==
    ASSUME TypeInv, NEW w \in Workers, UnlockIndex(w)
    PROVE  TypeInv'
<1>1. pc[w] \notin {"idle", "abort"}
  BY DEF UnlockIndex
<1>2. index_lock' \in [Buckets -> LockType(Workers)]
  BY <1>1, IndexLockType DEF UnlockIndex
<1>3. TypeOK'
  BY <1>2 DEF UnlockIndex, TypeInv, TypeOK, indexvars, filevars, locals, Goto, Places
<1>4. CallsOK'
  BY DEF UnlockIndex, TypeInv, TypeOK, CallsOK, locals, Goto, UsingIv, UsingNew, Setting, Deleting, NewBlock
<1>5. OffsetsOK'
  BY DEF UnlockIndex, TypeInv, TypeOK, OffsetsOK, indexvars, filevars
<1> QED
  BY <1>3, <1>4, <1>5 DEF TypeInv

\* modify_block() starts to write.
LEMMA ModifyStartType ==
    ASSUME TypeInv, NEW w \in Workers, ModifyStart(w)
    PROVE  TypeInv'
<1>1. pc[w] \notin {"idle", "abort"}
  BY DEF ModifyStart
<1>2. iv[w] \in Entry /\ iv[w].offset \in Slots
  BY DEF ModifyStart, TypeInv, CallsOK, UsingIv
<1>3. file_lock' \in [Files -> LockType(Workers)]
  BY <1>2, LockOpsType DEF ModifyStart, TypeInv, TypeOK, Entry
<1>4. content' \in [Files -> [Slots -> Data \cup {None, Torn}]]
  BY <1>2 DEF ModifyStart, TypeInv, TypeOK, Entry
<1>5. TypeOK'
  BY <1>3, <1>4 DEF ModifyStart, TypeInv, TypeOK, indexvars, filevars, locals, Goto, Places
<1>6. CallsOK'
  BY DEF ModifyStart, TypeInv, TypeOK, CallsOK, locals, Goto, UsingIv, UsingNew, Setting, Deleting, NewBlock
<1>7. OffsetsOK'
  BY DEF ModifyStart, TypeInv, TypeOK, OffsetsOK, indexvars, filevars
<1> QED
  BY <1>5, <1>6, <1>7 DEF TypeInv

\* modify_block() has written.
LEMMA ModifyWriteType ==
    ASSUME TypeInv, NEW w \in Workers, ModifyWrite(w)
    PROVE  TypeInv'
<1>1. pc[w] \notin {"idle", "abort"}
  BY DEF ModifyWrite
<1>2. iv[w] \in Entry /\ iv[w].offset \in Slots
  BY DEF ModifyWrite, TypeInv, CallsOK, UsingIv
<1>3. req[w].data \in Data /\ DataSize[req[w].data] \in Nat
  BY <1>1, RequestOfCall DEF ModifyWrite, TypeInv, CallsOK, Setting, UsingNew
<1>4. file_lock' \in [Files -> LockType(Workers)]
  BY <1>2, LockOpsType DEF ModifyWrite, TypeInv, TypeOK, Entry
<1>5. content' \in [Files -> [Slots -> Data \cup {None, Torn}]]
  BY <1>2, <1>3 DEF ModifyWrite, TypeInv, TypeOK, Entry
<1>6. iv'[w] \in Entry /\ iv'[w].offset \in Slots /\ iv' = [iv EXCEPT ![w] = iv'[w]]
  BY <1>2, <1>3 DEF ModifyWrite, TypeInv, TypeOK, Entry
<1>7. TypeOK'
  BY <1>4, <1>5, <1>6 DEF ModifyWrite, TypeInv, TypeOK, indexvars, filevars, locals, Goto, Places
<1>8. CallsOK'
  BY <1>6 DEF ModifyWrite, TypeInv, TypeOK, CallsOK, locals, Goto, UsingIv, UsingNew, Setting, Deleting, NewBlock
<1>9. OffsetsOK'
  BY DEF ModifyWrite, TypeInv, TypeOK, OffsetsOK, indexvars, filevars
<1> QED
  BY <1>7, <1>8, <1>9 DEF TypeInv

\* An assertion of modify_block() or append_block() fails.
LEMMA AbortType ==
    ASSUME TypeInv, Abort
    PROVE  TypeInv'
<1>1. TypeOK'
  BY DEF Abort, TypeInv, TypeOK, indexvars, filevars, locals, Goto, Places
<1>2. CallsOK'
  BY DEF Abort, TypeInv, TypeOK, CallsOK, locals, Goto, UsingIv, UsingNew, Setting, Deleting, NewBlock
<1>3. OffsetsOK'
  BY DEF Abort, TypeInv, TypeOK, OffsetsOK, indexvars, filevars
<1> QED
  BY <1>1, <1>2, <1>3 DEF TypeInv

\* modify_block() puts the index entry.
LEMMA ModifyPutType ==
    ASSUME TypeInv, NEW w \in Workers, ModifyPut(w)
    PROVE  TypeInv'
<1>1. pc[w] \notin {"idle", "abort"}
  BY DEF ModifyPut
<1>2. iv[w] \in Entry /\ iv[w].offset \in Slots
  BY DEF ModifyPut, TypeInv, CallsOK, UsingIv
<1>3. journal' \in [Buckets -> [Keys -> Entry \cup {None}]]
  BY <1>1, <1>2, JournalType DEF ModifyPut
<1>4. /\ index' \in [Buckets -> [Keys -> Entry \cup {None}]]
      /\ \A b \in Buckets, k \in Keys : index'[b][k] # None => index'[b][k].offset \in Slots
  BY <1>1, <1>2, IndexUpdate DEF ModifyPut
<1>5. TypeOK'
  BY <1>3, <1>4 DEF ModifyPut, TypeInv, TypeOK, indexvars, filevars, locals, Goto, Places, Returns
<1>6. CallsOK'
  BY DEF ModifyPut, TypeInv, TypeOK, CallsOK, locals, Goto, UsingIv, UsingNew, Setting, Deleting, NewBlock
<1>7. OffsetsOK'
  BY <1>4 DEF ModifyPut, TypeInv, TypeOK, OffsetsOK, indexvars, filevars
<1> QED
  BY <1>5, <1>6, <1>7 DEF TypeInv

\* do_delete_block() removes the index entry.
LEMMA DeleteRecordType ==
    ASSUME TypeInv, NEW w \in Workers, DeleteRecord(w)
    PROVE  TypeInv'
<1>1. pc[w] \notin {"idle", "abort"}
  BY DEF DeleteRecord
<1>2. journal' \in [Buckets -> [Keys -> Entry \cup {None}]]
  BY <1>1, JournalType DEF DeleteRecord
<1>3. /\ index' \in [Buckets -> [Keys -> Entry \cup {None}]]
      /\ \A b \in Buckets, k \in Keys : index'[b][k] # None => index'[b][k].offset \in Slots
  BY <1>1, IndexUpdate DEF DeleteRecord
<1>4. TypeOK'
  BY <1>2, <1>3 DEF DeleteRecord, TypeInv, TypeOK, indexvars, filevars, locals, Goto, Places, Returns
<1>5. CallsOK'
  BY DEF DeleteRecord, TypeInv, TypeOK, CallsOK, locals, Goto, UsingIv, UsingNew, Setting, Deleting, NewBlock
<1>6. OffsetsOK'
  BY <1>3 DEF DeleteRecord, TypeInv, TypeOK, OffsetsOK, indexvars, filevars
<1> QED
  BY <1>4, <1>5, <1>6 DEF TypeInv

\* do_delete_block() puts the slot on the free list.
LEMMA FreeSlotType ==
    ASSUME TypeInv, NEW w \in Workers, FreeSlot(w)
    PROVE  TypeInv'
<1> DEFINE f == iv[w].block_id
           p == free_slots_cnt[f]
<1>1. f \in Files /\ iv[w].offset \in Slots
  BY DEF FreeSlot, TypeInv, CallsOK, UsingIv, Entry
<1>2. /\ p \in Positions
      /\ free_slots_cnt' = [free_slots_cnt EXCEPT ![f] = p + 1]
      /\ p + 1 \in 0 .. MAX_FREE_SLOTS
  <2>1. p \in 0 .. MAX_FREE_SLOTS /\ MAX_FREE_SLOTS \in Nat /\ p < MAX_FREE_SLOTS
    BY <1>1, StorageAssumption DEF FreeSlot, TypeInv, TypeOK
  <2>2. free_slots_cnt' = [free_slots_cnt EXCEPT ![f] = p + 1]
    BY DEF FreeSlot
  <2>3. p \in Positions /\ p + 1 \in 0 .. MAX_FREE_SLOTS
    BY <2>1 DEF Positions
  <2> QED
    BY <2>2, <2>3
<1>3. /\ free_slots_cnt' \in [Files -> 0 .. MAX_FREE_SLOTS]
      /\ slot_pos' \in [Workers -> Positions]
  BY <1>1, <1>2 DEF FreeSlot, TypeInv, TypeOK
<1>4. block_cnt' \in [Files -> Int]
  BY <1>1 DEF FreeSlot, TypeInv, TypeOK
<1>5. /\ free_slots_offset' \in [Files -> [Positions -> 0 .. MaxSlot]]
      /\ \A g \in Files, q \in Positions : free_slots_offset'[g][q] =
            IF g = f /\ q = p THEN iv[w].offset ELSE free_slots_offset[g][q]
  <2>1. free_slots_offset \in [Files -> [Positions -> 0 .. MaxSlot]] /\ iv[w].offset \in 0 .. MaxSlot
    BY <1>1, StorageAssumption DEF TypeInv, TypeOK, Slots
  <2>2. free_slots_offset' = [free_slots_offset EXCEPT ![f][p] = iv[w].offset]
    BY DEF FreeSlot
  <2> QED
    BY <1>1, <1>2, <2>1, <2>2, TableUpdate
<1>6. TypeOK'
  BY <1>3, <1>4, <1>5 DEF FreeSlot, TypeInv, TypeOK, indexvars, Goto, Places
<1>7. CallsOK'
  BY DEF FreeSlot, TypeInv, TypeOK, CallsOK, Goto, UsingIv, UsingNew, Setting, Deleting, NewBlock
<1>8. OffsetsOK'
  <2>1. ASSUME NEW g \in Files, NEW q \in Positions, q < free_slots_cnt'[g]
        PROVE  free_slots_offset'[g][q] \in Slots
    <3>1. CASE g = f /\ q = p
      BY <1>1, <1>5, <3>1
    <3>2. CASE ~(g = f /\ q = p)
      <4>1. q < free_slots_cnt[g]
        BY <1>1, <1>2, <2>1, <3>2, SMTT(40) DEF TypeInv, TypeOK, Positions
      <4> QED
        BY <1>5, <3>2, <4>1 DEF TypeInv, OffsetsOK
    <3> QED
      BY <3>1, <3>2
  <2> QED
    BY <2>1 DEF FreeSlot, TypeInv, OffsetsOK, indexvars
<1> QED
  BY <1>6, <1>7, <1>8 DEF TypeInv

\* do_delete_block() leaks the slot.
LEMMA LeakSlotType ==
    ASSUME TypeInv, NEW w \in Workers, LeakSlot(w)
    PROVE  TypeInv'
<1>1. pc[w] \notin {"idle", "abort"}
  BY DEF LeakSlot
<1>2. TypeOK'
  BY DEF LeakSlot, TypeInv, TypeOK, indexvars, filevars, locals, Goto, Places, AfterDelete, Returns
<1>3. CallsOK'
  BY <1>1, RequestOfCall, NewBlockIdType DEF LeakSlot, TypeInv, TypeOK, CallsOK, locals, Goto, UsingIv, UsingNew, Setting, Deleting, NewBlock, AfterDelete
<1>4. OffsetsOK'
  BY DEF LeakSlot, TypeInv, TypeOK, OffsetsOK, indexvars, filevars
<1> QED
  BY <1>2, <1>3, <1>4 DEF TypeInv

\* do_delete_block() writes the header.
LEMMA DeleteSyncHeaderType ==
    ASSUME TypeInv, NEW w \in Workers, DeleteSyncHeader(w)
    PROVE  TypeInv'
<1>1. pc[w] \notin {"idle", "abort"}
  BY DEF DeleteSyncHeader
<1>2. iv[w] \in Entry /\ iv[w].offset \in Slots
  BY DEF DeleteSyncHeader, TypeInv, CallsOK, UsingIv
<1>3. disk_hdr' \in [Files -> [block_cnt: Int, free_slots_cnt: Int]]
  <2>1. iv[w].block_id \in Files
    BY <1>2 DEF Entry
  <2>2. disk_hdr \in [Files -> [block_cnt: Int, free_slots_cnt: Int]]
    BY DEF TypeInv, TypeOK
  <2>3. RacyHeaders(iv[w].block_id, Workers \ {w}) \subseteq [block_cnt: Int, free_slots_cnt: Int]
    BY <2>1, RacyHeadersType
  <2> QED
    BY <2>1, <2>2, <2>3 DEF DeleteSyncHeader
<1>4. TypeOK'
  BY <1>3 DEF DeleteSyncHeader, TypeInv, TypeOK, indexvars, filevars, locals, Goto, Places
<1>5. CallsOK'
  BY DEF DeleteSyncHeader, TypeInv, TypeOK, CallsOK, locals, Goto, UsingIv, UsingNew, Setting, Deleting, NewBlock
<1>6. OffsetsOK'
  BY DEF DeleteSyncHeader, TypeInv, TypeOK, OffsetsOK, indexvars, filevars
<1> QED
  BY <1>4, <1>5, <1>6 DEF TypeInv

\* do_delete_block() writes the entry of the free list.
LEMMA DeleteSyncSlotType ==
    ASSUME TypeInv, NEW w \in Workers, DeleteSyncSlot(w)
    PROVE  TypeInv'
<1>1. pc[w] \notin {"idle", "abort"}
  BY DEF DeleteSyncSlot
<1>2. iv[w] \in Entry /\ iv[w].offset \in Slots
  BY DEF DeleteSyncSlot, TypeInv, CallsOK, UsingIv
<1>3. disk_slots' \in [Files -> [Positions -> 0 .. MaxSlot]]
  <2>1. iv[w].block_id \in Files /\ slot_pos[w] \in Positions
    BY <1>2 DEF TypeInv, TypeOK, Entry
  <2>2. /\ disk_slots \in [Files -> [Positions -> 0 .. MaxSlot]]
        /\ free_slots_offset[iv[w].block_id][slot_pos[w]] \in 0 .. MaxSlot
    BY <2>1 DEF TypeInv, TypeOK
  <2> QED
    <3>1. [disk_slots EXCEPT ![iv[w].block_id][slot_pos[w]] =
             free_slots_offset[iv[w].block_id][slot_pos[w]]] \in [Files -> [Positions -> 0 .. MaxSlot]]
      BY <2>1, <2>2, TableUpdate
    <3> QED
      BY <2>2, <3>1 DEF DeleteSyncSlot
<1>4. TypeOK'
  BY <1>3 DEF DeleteSyncSlot, TypeInv, TypeOK, indexvars, filevars, locals, Goto, Places, AfterDelete, Returns
<1>5. CallsOK'
  BY <1>1, RequestOfCall, NewBlockIdType DEF DeleteSyncSlot, TypeInv, TypeOK, CallsOK, locals, Goto, UsingIv, UsingNew, Setting, Deleting, NewBlock, AfterDelete
<1>6. OffsetsOK'
  BY DEF DeleteSyncSlot, TypeInv, TypeOK, OffsetsOK, indexvars, filevars
<1> QED
  BY <1>4, <1>5, <1>6 DEF TypeInv

\* append_block() takes the last free slot.
LEMMA ReuseSlotType ==
    ASSUME TypeInv, NEW w \in Workers, ReuseSlot(w)
    PROVE  TypeInv'
<1> DEFINE f == NewBlock(w)
           p == free_slots_cnt[f] - 1
           s == free_slots_offset[f][p]
<1>1. f \in Files /\ req[w].data \in Data /\ DataSize[req[w].data] \in Nat
  BY RequestOfCall DEF ReuseSlot, TypeInv, CallsOK, Setting
<1>2. p \in Positions /\ p \in 0 .. MAX_FREE_SLOTS /\ p < free_slots_cnt[f]
  <2>1. free_slots_cnt[f] \in 0 .. MAX_FREE_SLOTS /\ MAX_FREE_SLOTS \in Nat /\ free_slots_cnt[f] # 0
    BY <1>1, StorageAssumption DEF ReuseSlot, TypeInv, TypeOK
  <2> QED
    BY <2>1 DEF Positions
<1>3. s \in Slots
  BY <1>1, <1>2 DEF TypeInv, OffsetsOK
<1>4. NewValue(w, s) \in Entry /\ NewValue(w, s).offset \in Slots
  BY <1>1, <1>3, StorageAssumption DEF NewValue, Entry, Slots
<1>5. /\ file_lock' \in [Files -> LockType(Workers)]
      /\ block_cnt' \in [Files -> Int]
      /\ free_slots_cnt' \in [Files -> 0 .. MAX_FREE_SLOTS]
  BY <1>1, <1>2, LockOpsType DEF ReuseSlot, TypeInv, TypeOK
<1>6. /\ free_slots_offset' \in [Files -> [Positions -> 0 .. MaxSlot]]
      /\ \A g \in Files, q \in Positions : free_slots_offset'[g][q] =
            IF g = f /\ q = p THEN 0 ELSE free_slots_offset[g][q]
  <2>1. free_slots_offset \in [Files -> [Positions -> 0 .. MaxSlot]] /\ 0 \in 0 .. MaxSlot
    BY StorageAssumption DEF TypeInv, TypeOK
  <2>2. free_slots_offset' = [free_slots_offset EXCEPT ![f][p] = 0]
    BY DEF ReuseSlot
  <2> QED
    BY <1>1, <1>2, <2>1, <2>2, TableUpdate
<1>7. content' \in [Files -> [Slots -> Data \cup {None, Torn}]]
  <2>1. content \in [Files -> [Slots -> Data \cup {None, Torn}]]
    BY DEF TypeInv, TypeOK
  <2>2. content' = [content EXCEPT ![f][s] = Torn]
    BY DEF ReuseSlot
  <2> QED
    BY <1>1, <1>3, <2>1, <2>2, TableUpdate
<1>8. new_iv' = [new_iv EXCEPT ![w] = NewValue(w, s)]
  BY DEF ReuseSlot
<1>9. TypeOK'
  BY <1>4, <1>5, <1>6, <1>7, <1>8 DEF ReuseSlot, TypeInv, TypeOK, indexvars, Goto, Places
<1>10. CallsOK'
  BY <1>4, <1>8 DEF ReuseSlot, TypeInv, TypeOK, CallsOK, Goto, UsingIv, UsingNew, Setting, Deleting, NewBlock
<1>11. OffsetsOK'
  <2>1. ASSUME NEW g \in Files, NEW q \in Positions, q < free_slots_cnt'[g]
        PROVE  free_slots_offset'[g][q] \in Slots
    <3>1. q < free_slots_cnt[g] /\ ~(g = f /\ q = p)
      <4>1. free_slots_cnt' = [free_slots_cnt EXCEPT ![f] = p]
        BY DEF ReuseSlot
      <4>2. free_slots_cnt \in [Files -> 0 .. MAX_FREE_SLOTS] /\ MAX_FREE_SLOTS \in Nat /\ q \in Int
        BY StorageAssumption DEF TypeInv, TypeOK, Positions
      <4> QED
        BY <1>1, <1>2, <2>1, <4>1, <4>2
    <3> QED
      BY <1>6, <3>1 DEF TypeInv, OffsetsOK
  <2> QED
    BY <2>1 DEF ReuseSlot, TypeInv, OffsetsOK, indexvars
<1> QED
  BY <1>9, <1>10, <1>11 DEF TypeInv

\* append_block() extends the file.
LEMMA GrowFileType ==
    ASSUME TypeInv, NEW w \in Workers, GrowFile(w)
    PROVE  TypeInv'
<1>1. pc[w] \notin {"idle", "abort"}
  BY DEF GrowFile
<1>2. req[w].data \in Data /\ DataSize[req[w].data] \in Nat
  BY <1>1, RequestOfCall DEF GrowFile, TypeInv, CallsOK, Setting, UsingNew
<1>3. NewBlock(w) \in Files
  BY DEF GrowFile, TypeInv, CallsOK
<1>4. new_iv' = [new_iv EXCEPT ![w] = NewValue(w, block_cnt[NewBlock(w)] + 1)] /\ NewValue(w, block_cnt[NewBlock(w)] + 1) \in Entry /\ NewValue(w, block_cnt[NewBlock(w)] + 1).offset \in Slots
  BY <1>2, <1>3 DEF GrowFile, NewValue, Entry, Slots
<1>5. /\ file_lock' \in [Files -> LockType(Workers)]
      /\ block_cnt' \in [Files -> Int]
  BY <1>3, LockOpsType DEF GrowFile, TypeInv, TypeOK
<1>6. content' \in [Files -> [Slots -> Data \cup {None, Torn}]]
  BY <1>3 DEF GrowFile, TypeInv, TypeOK, Entry
<1>7. TypeOK'
  BY <1>4, <1>5, <1>6 DEF GrowFile, TypeInv, TypeOK, indexvars, filevars, locals, Goto, Places
<1>8. CallsOK'
  BY <1>4 DEF GrowFile, TypeInv, TypeOK, CallsOK, locals, Goto, UsingIv, UsingNew, Setting, Deleting, NewBlock
<1>9. OffsetsOK'
  BY DEF GrowFile, TypeInv, TypeOK, OffsetsOK, indexvars, filevars
<1> QED
  BY <1>7, <1>8, <1>9 DEF TypeInv

\* append_block() has written header and data.
LEMMA AppendWriteType ==
    ASSUME TypeInv, NEW w \in Workers, AppendWrite(w)
    PROVE  TypeInv'
<1>1. pc[w] \notin {"idle", "abort"}
  BY DEF AppendWrite
<1>2. new_iv[w] \in Entry /\ new_iv[w].offset \in Slots
  BY DEF AppendWrite, TypeInv, CallsOK, UsingNew
<1>3. req[w].data \in Data /\ DataSize[req[w].data] \in Nat
  BY <1>1, RequestOfCall DEF AppendWrite, TypeInv, CallsOK, Setting, UsingNew
<1>4. file_lock' \in [Files -> LockType(Workers)]
  BY <1>2, LockOpsType DEF AppendWrite, TypeInv, TypeOK, Entry
<1>5. content' \in [Files -> [Slots -> Data \cup {None, Torn}]]
  <2>1. new_iv[w].block_id \in Files /\ content \in [Files -> [Slots -> Data \cup {None, Torn}]]
    BY <1>2 DEF TypeInv, TypeOK, Entry
  <2> QED
    <3>1. [content EXCEPT ![new_iv[w].block_id][new_iv[w].offset] = req[w].data]
            \in [Files -> [Slots -> Data \cup {None, Torn}]]
      BY <1>2, <1>3, <2>1, TableUpdate
    <3> QED
      BY <2>1, <3>1 DEF AppendWrite
<1>6. disk_hdr' \in [Files -> [block_cnt: Int, free_slots_cnt: Int]]
  <2>1. new_iv[w].block_id \in Files
    BY <1>2 DEF Entry
  <2>2. CurrentHeader(new_iv[w].block_id) \in [block_cnt: Int, free_slots_cnt: Int]
    BY <2>1 DEF CurrentHeader, TypeInv, TypeOK
  <2>3. disk_hdr \in [Files -> [block_cnt: Int, free_slots_cnt: Int]]
    BY DEF TypeInv, TypeOK
  <2> QED
    BY <2>1, <2>2, <2>3 DEF AppendWrite
<1>7. TypeOK'
  BY <1>4, <1>5, <1>6 DEF AppendWrite, TypeInv, TypeOK, indexvars, filevars, locals, Goto, Places
<1>8. CallsOK'
  BY DEF AppendWrite, TypeInv, TypeOK, CallsOK, locals, Goto, UsingIv, UsingNew, Setting, Deleting, NewBlock
<1>9. OffsetsOK'
  BY DEF AppendWrite, TypeInv, TypeOK, OffsetsOK, indexvars, filevars
<1> QED
  BY <1>7, <1>8, <1>9 DEF TypeInv

\* append_block() puts the index entry.
LEMMA AppendPutType ==
    ASSUME TypeInv, NEW w \in Workers, AppendPut(w)
    PROVE  TypeInv'
<1>1. pc[w] \notin {"idle", "abort"}
  BY DEF AppendPut
<1>2. new_iv[w] \in Entry /\ new_iv[w].offset \in Slots
  BY DEF AppendPut, TypeInv, CallsOK, UsingNew
<1>3. journal' \in [Buckets -> [Keys -> Entry \cup {None}]]
  BY <1>1, <1>2, JournalType DEF AppendPut
<1>4. /\ index' \in [Buckets -> [Keys -> Entry \cup {None}]]
      /\ \A b \in Buckets, k \in Keys : index'[b][k] # None => index'[b][k].offset \in Slots
  BY <1>1, <1>2, IndexUpdate DEF AppendPut
<1>5. TypeOK'
  BY <1>3, <1>4 DEF AppendPut, TypeInv, TypeOK, indexvars, filevars, locals, Goto, Places
<1>6. CallsOK'
  BY DEF AppendPut, TypeInv, TypeOK, CallsOK, locals, Goto, UsingIv, UsingNew, Setting, Deleting, NewBlock
<1>7. OffsetsOK'
  BY <1>4 DEF AppendPut, TypeInv, TypeOK, OffsetsOK, indexvars, filevars
<1> QED
  BY <1>5, <1>6, <1>7 DEF TypeInv

\* A call starts.
LEMMA CallType ==
    ASSUME TypeInv, NEW w \in Workers, Call(w)
    PROVE  TypeInv'
<1>1. PICK r \in Requests :
        /\ req' = [req EXCEPT ![w] = r]
        /\ pc' = [pc EXCEPT ![w] = CASE r.op = "get" -> "find" [] r.op = "set" -> "update"
                                      [] r.op = "del" -> "delete"]
  BY DEF Call, Goto
<1>2. \/ r.op = "get" /\ pc' = [pc EXCEPT ![w] = "find"]
      \/ r.op = "set" /\ pc' = [pc EXCEPT ![w] = "update"]
      \/ r.op = "del" /\ pc' = [pc EXCEPT ![w] = "delete"]
  BY <1>1, RequestFields
<1>3. pc' \in [Workers -> Places] /\ req' \in [Workers -> Requests \cup {NoRequest}]
  BY <1>1, <1>2 DEF TypeInv, TypeOK, Places
<1>4. TypeOK'
  BY <1>3 DEF Call, TypeInv, TypeOK, indexvars, filevars, locals
<1>5. CallsOK'
  BY <1>1, <1>2 DEF Call, TypeInv, TypeOK, CallsOK, locals, UsingIv, UsingNew, Setting, Deleting, NewBlock
<1>6. OffsetsOK'
  BY DEF Call, TypeInv, OffsetsOK, indexvars, filevars
<1> QED
  BY <1>4, <1>5, <1>6 DEF TypeInv

\* A call returns.
LEMMA ReturnType ==
    ASSUME TypeInv, NEW w \in Workers, Return(w)
    PROVE  TypeInv'
<1>1. /\ pc' \in [Workers -> Places]
      /\ req' \in [Workers -> Requests \cup {NoRequest}]
  BY DEF Return, Goto, TypeInv, TypeOK, Places
<1>2. /\ iv' \in [Workers -> Entry \cup {NoEntry}]
      /\ new_iv' \in [Workers -> Entry \cup {NoEntry}]
  BY DEF Return, TypeInv, TypeOK
<1>3. /\ slot_pos' \in [Workers -> Positions]
      /\ ret' \in [Workers -> {0, -1, -2, -3, -4, DB_NOTFOUND}]
      /\ out' \in [Workers -> Data \cup {None, Torn}]
  BY StorageAssumption DEF Return, Returns, TypeInv, TypeOK, Positions
<1>4. TypeOK'
  BY <1>1, <1>2, <1>3 DEF Return, TypeInv, TypeOK, indexvars, filevars
<1>5. CallsOK'
  BY DEF Return, Goto, TypeInv, TypeOK, CallsOK, UsingIv, UsingNew, Setting, Deleting, NewBlock
<1>6. OffsetsOK'
  BY DEF Return, TypeInv, OffsetsOK, indexvars, filevars
<1> QED
  BY <1>4, <1>5, <1>6 DEF TypeInv

\* sync_storage() writes a header.
LEMMA SyncStorageType ==
    ASSUME TypeInv, NEW f \in Files, sync_storage(f)
    PROVE  TypeInv'
<1>1. disk_hdr' \in [Files -> [block_cnt: Int, free_slots_cnt: Int]]
  BY RacyHeadersType DEF sync_storage, TypeInv, TypeOK
<1>2. TypeOK'
  BY <1>1 DEF sync_storage, TypeInv, TypeOK, indexvars, filevars, locals
<1>3. CallsOK' /\ OffsetsOK'
  BY DEF sync_storage, TypeInv, CallsOK, OffsetsOK, indexvars, filevars, locals, NewBlock
<1> QED
  BY <1>2, <1>3 DEF TypeInv

-----------------------------------------------------------------------------
\* An empty storage has the invariant.
LEMMA TypeInit == Init => TypeInv
<1> SUFFICES ASSUME Init PROVE TypeInv
  OBVIOUS
<1>1. TypeOK
  BY StorageAssumption DEF Init, TypeOK, NewLock, LockType, Places, Positions, Slots
<1>2. CallsOK
  BY DEF Init, CallsOK, UsingIv, UsingNew, Setting, Deleting
<1>3. OffsetsOK
  BY StorageAssumption DEF Init, OffsetsOK, Positions
<1> QED
  BY <1>1, <1>2, <1>3 DEF TypeInv

\* Every step keeps it.
LEMMA TypeStep == TypeInv /\ [Next]_vars => TypeInv'
<1> SUFFICES ASSUME TypeInv, [Next]_vars PROVE TypeInv'
  OBVIOUS
<1>1. ASSUME NEW w \in Workers, Call(w) \/ Work(w) PROVE TypeInv'
  BY <1>1, FindRecordType, FindNothingType, FindNoMemoryType, FindLockFileType, FindReadType,
     ModifyStartType, ModifyWriteType, AbortType, ModifyPutType, ReuseSlotType,
     GrowFileType, AppendWriteType, AppendPutType, DeleteRecordType, FreeSlotType, LeakSlotType,
     DeleteSyncHeaderType, DeleteSyncSlotType, UpdateFoundType, UpdateNotFoundType,
     DeleteFoundType, DeleteNotFoundType, LookupFailsType, UnlockIndexType, ReturnType, CallType
     DEF Work, find_block, modify_block, append_block, do_delete_block, Update_or_delete, ModifyAborts,
     AppendAborts
<1>2. ASSUME NEW f \in Files, sync_storage(f) PROVE TypeInv'
  BY <1>2, SyncStorageType
<1>3. CASE UNCHANGED vars
  BY <1>3 DEF vars, TypeInv, TypeOK, CallsOK, OffsetsOK, NewBlock
<1> QED
  BY <1>1, <1>2, <1>3 DEF Next

\* No worker ever holds an offset outside its data file or a position outside
\* free_slots_offset, and free_slots_cnt stays between 0 and MAX_FREE_SLOTS,
\* for any number of workers, whatever fails.
THEOREM TypeCorrect == Spec => []TypeOK
<1>1. TypeInv => TypeOK
  BY DEF TypeInv
<1> QED
  BY <1>1, TypeInit, TypeStep, PTL DEF Spec

-----------------------------------------------------------------------------
(* Locks: what an operation on one of them changes.                        *)

\* The four operations, field by field.
LEMMA LockOpsEffect ==
    ASSUME NEW l \in LockType(Workers), NEW w \in Workers
    PROVE  /\ Share(l, w).wr = l.wr /\ Unshare(l, w).wr = l.wr
           /\ Own(l, w).wr = l.wr \cup {w} /\ Disown(l, w).wr = l.wr \ {w}
           /\ Own(l, w).rd = l.rd /\ Disown(l, w).rd = l.rd
           /\ \A u \in Workers :
                /\ Share(l, w).rd[u] = IF u = w THEN l.rd[u] + 1 ELSE l.rd[u]
                /\ l.rd[w] = 1 => Unshare(l, w).rd[u] = IF u = w THEN 0 ELSE l.rd[u]
                /\ Unshare(l, w).rd[u] = IF u = w THEN Unshare(l, w).rd[w] ELSE l.rd[u]
  BY DEF LockType, Share, Unshare, Own, Disown

\* A lock of a table, index_lock or file_lock, is taken or released by w.
LEMMA ShareEffect ==
    ASSUME NEW K, NEW t \in [K -> LockType(Workers)], NEW k \in K, NEW w \in Workers,
           NEW t2, t2 = [t EXCEPT ![k] = Share(@, w)]
    PROVE  \A j \in K :
             /\ t2[j].wr = t[j].wr
             /\ \A u \in Workers : t2[j].rd[u] = IF j = k /\ u = w THEN t[j].rd[u] + 1 ELSE t[j].rd[u]
<1>1. t[k] \in LockType(Workers) /\ \A j \in K : t2[j] = IF j = k THEN Share(t[k], w) ELSE t[j]
  OBVIOUS
<1> QED
  BY <1>1, LockOpsEffect

\* The effect of rwlock_unrdlock() on a table of locks.
LEMMA UnshareEffect ==
    ASSUME NEW K, NEW t \in [K -> LockType(Workers)], NEW k \in K, NEW w \in Workers,
           NEW t2, t2 = [t EXCEPT ![k] = Unshare(@, w)]
    PROVE  /\ t[k].rd[w] = 1 => t2[k].rd[w] = 0
           /\ \A j \in K :
                /\ t2[j].wr = t[j].wr
                /\ \A u \in Workers : j # k \/ u # w => t2[j].rd[u] = t[j].rd[u]
<1>1. t[k] \in LockType(Workers) /\ \A j \in K : t2[j] = IF j = k THEN Unshare(t[k], w) ELSE t[j]
  OBVIOUS
<1> QED
  BY <1>1, LockOpsEffect

\* The effect of rwlock_wrlock() on a table of locks.
LEMMA OwnEffect ==
    ASSUME NEW K, NEW t \in [K -> LockType(Workers)], NEW k \in K, NEW w \in Workers,
           CanOwn(t[k]), NEW t2, t2 = [t EXCEPT ![k] = Own(@, w)]
    PROVE  /\ t[k].wr = {}
           /\ \A j \in K : t2[j].rd = t[j].rd /\ t2[j].wr = IF j = k THEN {w} ELSE t[j].wr
<1>1. /\ t[k] \in LockType(Workers) /\ t[k].wr = {}
      /\ \A j \in K : t2[j] = IF j = k THEN Own(t[k], w) ELSE t[j]
  BY DEF CanOwn
<1>2. Own(t[k], w).rd = t[k].rd /\ Own(t[k], w).wr = {w}
  BY <1>1, LockOpsEffect
<1> QED
  BY <1>1, <1>2

\* The effect of rwlock_unwrlock() on a table of locks.
LEMMA DisownEffect ==
    ASSUME NEW K, NEW t \in [K -> LockType(Workers)], NEW k \in K, NEW w \in Workers,
           NEW t2, t2 = [t EXCEPT ![k] = Disown(@, w)]
    PROVE  \A j \in K :
             t2[j].rd = t[j].rd /\ t2[j].wr = IF j = k THEN t[j].wr \ {w} ELSE t[j].wr
<1>1. t[k] \in LockType(Workers) /\ \A j \in K : t2[j] = IF j = k THEN Disown(t[k], w) ELSE t[j]
  OBVIOUS
<1>2. Disown(t[k], w).rd = t[k].rd /\ Disown(t[k], w).wr = t[k].wr \ {w}
  BY <1>1, LockOpsEffect
<1> QED
  BY <1>1, <1>2

-----------------------------------------------------------------------------
(* A step of one worker leaves the others where they are.                  *)

Steps(w) ==
    \/ FindRecord(w) \/ FindNothing(w) \/ FindNoMemory(w) \/ FindLockFile(w) \/ FindRead(w)
    \/ ModifyStart(w) \/ ModifyWrite(w) \/ ModifyPut(w)
    \/ ReuseSlot(w) \/ GrowFile(w) \/ AppendWrite(w) \/ AppendPut(w)
    \/ DeleteRecord(w) \/ FreeSlot(w) \/ LeakSlot(w) \/ DeleteSyncHeader(w) \/ DeleteSyncSlot(w)
    \/ UpdateFound(w) \/ UpdateNotFound(w) \/ DeleteFound(w) \/ DeleteNotFound(w)
    \/ LookupFails(w) \/ UnlockIndex(w) \/ Return(w) \/ Call(w)

SamePlace(u) == pc'[u] = pc[u] /\ req'[u] = req[u] /\ iv'[u] = iv[u] /\ new_iv'[u] = new_iv[u]

\* A step of w changes the place and the locals of no other worker.
LEMMA OthersStay ==
    ASSUME TypeInv, NEW w \in Workers, Steps(w), NEW u \in Workers, u # w
    PROVE  SamePlace(u)
<1> USE DEF SamePlace, Goto, locals, TypeInv, TypeOK
<1>1. CASE FindRecord(w)
  BY <1>1 DEF FindRecord
<1>2. CASE FindNothing(w)
  BY <1>2 DEF FindNothing
<1>3. CASE FindNoMemory(w)
  BY <1>3 DEF FindNoMemory
<1>4. CASE FindLockFile(w)
  BY <1>4 DEF FindLockFile
<1>5. CASE FindRead(w)
  BY <1>5 DEF FindRead
<1>6. CASE ModifyStart(w)
  BY <1>6 DEF ModifyStart
<1>7. CASE ModifyWrite(w)
  BY <1>7 DEF ModifyWrite
<1>8. CASE ModifyPut(w)
  BY <1>8 DEF ModifyPut
<1>9. CASE ReuseSlot(w)
  BY <1>9 DEF ReuseSlot
<1>10. CASE GrowFile(w)
  BY <1>10 DEF GrowFile
<1>11. CASE AppendWrite(w)
  BY <1>11 DEF AppendWrite
<1>12. CASE AppendPut(w)
  BY <1>12 DEF AppendPut
<1>13. CASE DeleteRecord(w)
  BY <1>13 DEF DeleteRecord
<1>14. CASE FreeSlot(w)
  BY <1>14 DEF FreeSlot
<1>15. CASE LeakSlot(w)
  BY <1>15 DEF LeakSlot, AfterDelete
<1>16. CASE DeleteSyncHeader(w)
  BY <1>16 DEF DeleteSyncHeader
<1>17. CASE DeleteSyncSlot(w)
  BY <1>17 DEF DeleteSyncSlot, AfterDelete
<1>18. CASE UpdateFound(w)
  BY <1>18 DEF UpdateFound
<1>19. CASE UpdateNotFound(w)
  BY <1>19 DEF UpdateNotFound
<1>20. CASE DeleteFound(w)
  BY <1>20 DEF DeleteFound
<1>21. CASE DeleteNotFound(w)
  BY <1>21 DEF DeleteNotFound
<1>22. CASE LookupFails(w)
  BY <1>22 DEF LookupFails
<1>23. CASE UnlockIndex(w)
  BY <1>23 DEF UnlockIndex
<1>24. CASE Return(w)
  BY <1>24 DEF Return
<1>25. CASE Call(w)
  BY <1>25 DEF Call
<1> QED
  BY <1>1, <1>2, <1>3, <1>4, <1>5, <1>6, <1>7, <1>8, <1>9, <1>10, <1>11, <1>12, <1>13, <1>14, <1>15, <1>16, <1>17, <1>18, <1>19, <1>20, <1>21, <1>22, <1>23, <1>24, <1>25 DEF Steps

-----------------------------------------------------------------------------
(* Every lock is given back.                                               *)

\* It is enough to look at the worker that moves, if the others' holds stay.
LEMMA HoldsFrame ==
    ASSUME TypeInv, HoldsOK, NEW w \in Workers, Steps(w),
           \A b \in Buckets, u \in Workers \ {w} :
               /\ index_lock'[b].rd[u] = index_lock[b].rd[u]
               /\ u \in index_lock'[b].wr => u \in index_lock[b].wr,
           \A f \in Files, u \in Workers \ {w} :
               /\ file_lock'[f].rd[u] = file_lock[f].rd[u]
               /\ u \in file_lock'[f].wr => u \in file_lock[f].wr,
           Holds(w)'
    PROVE  HoldsOK'
<1> SUFFICES ASSUME NEW u \in Workers, pc'[u] # "abort" PROVE Holds(u)'
  BY DEF HoldsOK
<1>1. CASE u = w
  BY <1>1
<1>2. CASE u # w
  <2>1. SamePlace(u)
    BY <1>2, OthersStay
  <2>2. Holds(u)
    BY <2>1 DEF HoldsOK, SamePlace
  <2> QED
    BY <1>2, <2>1, <2>2 DEF Holds, SamePlace
<1> QED
  BY <1>1, <1>2

\* The steps that take and release no lock.
LEMMA HoldsQuiet ==
    ASSUME TypeInv, HoldsOK, NEW w \in Workers,
           \/ FindNothing(w) \/ ModifyPut(w) \/ AppendPut(w) \/ DeleteRecord(w) \/ FreeSlot(w)
           \/ LeakSlot(w) \/ DeleteSyncHeader(w) \/ DeleteSyncSlot(w) \/ Return(w) \/ Call(w)
    PROVE  HoldsOK'
<1>1. Steps(w) /\ UNCHANGED <<index_lock, file_lock>> /\ pc[w] # "abort"
  BY DEF Steps, FindNothing, ModifyPut, AppendPut, DeleteRecord, FreeSlot, LeakSlot, DeleteSyncHeader, DeleteSyncSlot, Return, Call
<1>2. Holds(w)
  BY <1>1 DEF HoldsOK
<1>3. Holds(w)'
  <2>1. CASE FindNothing(w)
    BY <1>1, <1>2, <2>1 DEF FindNothing, Holds, Owning, UsingNew, Deleting, locals, Goto, TypeInv, TypeOK
  <2>2. CASE ModifyPut(w)
    BY <1>1, <1>2, <2>2 DEF ModifyPut, Holds, Owning, UsingNew, Deleting, locals, Goto, TypeInv, TypeOK
  <2>3. CASE AppendPut(w)
    BY <1>1, <1>2, <2>3 DEF AppendPut, Holds, Owning, UsingNew, Deleting, locals, Goto, TypeInv, TypeOK
  <2>4. CASE DeleteRecord(w)
    BY <1>1, <1>2, <2>4 DEF DeleteRecord, Holds, Owning, UsingNew, Deleting, locals, Goto, TypeInv, TypeOK
  <2>5. CASE FreeSlot(w)
    BY <1>1, <1>2, <2>5 DEF FreeSlot, Holds, Owning, UsingNew, Deleting, locals, Goto, TypeInv, TypeOK
  <2>6. CASE LeakSlot(w)
    BY <1>1, <1>2, <2>6 DEF LeakSlot, AfterDelete, Holds, Owning, UsingNew, Deleting, locals, Goto, TypeInv, TypeOK
  <2>7. CASE DeleteSyncHeader(w)
    BY <1>1, <1>2, <2>7 DEF DeleteSyncHeader, Holds, Owning, UsingNew, Deleting, locals, Goto, TypeInv, TypeOK
  <2>8. CASE DeleteSyncSlot(w)
    BY <1>1, <1>2, <2>8 DEF DeleteSyncSlot, AfterDelete, Holds, Owning, UsingNew, Deleting, locals, Goto, TypeInv, TypeOK
  <2>9. CASE Return(w)
    BY <1>1, <1>2, <2>9 DEF Return, Holds, Owning, UsingNew, Deleting, locals, Goto, TypeInv, TypeOK
  <2>10. CASE Call(w)
    BY <1>1, <1>2, <2>10, RequestFields DEF Call, Holds, Owning, UsingNew, Deleting, locals, Goto, TypeInv, TypeOK
  <2> QED
    BY <2>1, <2>2, <2>3, <2>4, <2>5, <2>6, <2>7, <2>8, <2>9, <2>10
<1> QED
  BY <1>1, <1>3, HoldsFrame

\* find_block() takes the index lock.
LEMMA HoldsShareIndex ==
    ASSUME TypeInv, HoldsOK, NEW w \in Workers, FindRecord(w) \/ FindNoMemory(w)
    PROVE  HoldsOK'
<1>1. index_lock \in [Buckets -> LockType(Workers)] /\ file_lock \in [Files -> LockType(Workers)]
  BY DEF TypeInv, TypeOK
<1>2. Steps(w) /\ pc[w] = "find" /\ req[w].bucket \in Buckets /\ UNCHANGED file_lock
  BY RequestOfCall DEF Steps, FindRecord, FindNoMemory
<1>3. index_lock' = [index_lock EXCEPT ![req[w].bucket] = Share(@, w)]
  BY DEF FindRecord, FindNoMemory, ShareIndex
<1>4. \A b \in Buckets :
        /\ index_lock'[b].wr = index_lock[b].wr
        /\ \A u \in Workers : index_lock'[b].rd[u] =
              IF b = req[w].bucket /\ u = w THEN index_lock[b].rd[u] + 1 ELSE index_lock[b].rd[u]
  BY <1>1, <1>2, <1>3, ShareEffect
<1>5. Holds(w)
  BY <1>2 DEF HoldsOK
<1>6. Holds(w)'
  <2>1. CASE FindRecord(w)
    <3>1. pc'[w] = "find_file" /\ req' = req
      BY <2>1 DEF FindRecord, Goto, TypeInv, TypeOK
    <3>2. \A b \in Buckets : index_lock[b].rd[w] = 0 \/ MayFail("nomem")
      BY <1>2, <1>5 DEF Holds
    <3>3. \A b \in Buckets : w \notin index_lock'[b].wr
      BY <1>2, <1>4, <1>5 DEF Holds, Owning, UsingNew, Deleting
    <3>4. \A f \in Files : w \notin file_lock[f].wr /\ file_lock[f].rd[w] = 0
      BY <1>2, <1>5 DEF Holds
    <3> QED
      BY <1>2, <1>4, <3>1, <3>2, <3>3, <3>4 DEF Holds
  <2>2. CASE FindNoMemory(w)
    BY <1>2, <1>4, <1>5, <2>2 DEF FindNoMemory, Holds, Owning, UsingNew, Deleting, Goto, TypeInv, TypeOK
  <2> QED
    BY <2>1, <2>2
<1> QED
  BY <1>2, <1>4, <1>6, HoldsFrame

\* update_block() and delete_block() take the index lock.
LEMMA HoldsOwnIndex ==
    ASSUME TypeInv, HoldsOK, NEW w \in Workers, 
           UpdateFound(w) \/ UpdateNotFound(w) \/ DeleteFound(w) \/ DeleteNotFound(w) \/ LookupFails(w)
    PROVE  HoldsOK'
<1>1. index_lock \in [Buckets -> LockType(Workers)] /\ file_lock \in [Files -> LockType(Workers)]
  BY DEF TypeInv, TypeOK
<1>2. /\ Steps(w) /\ pc[w] \in {"update", "delete"} /\ req[w].bucket \in Buckets
      /\ UNCHANGED <<file_lock, req>> /\ pc' = [pc EXCEPT ![w] = pc'[w]]
      /\ pc'[w] \in Owning \ {"modify_write", "append_reuse", "append_grow"}
  BY RequestOfCall
     DEF Steps, UpdateFound, UpdateNotFound, DeleteFound, DeleteNotFound, LookupFails, locals, Goto, Owning,
         Deleting, TypeInv, TypeOK
<1>3. OwnIndex(w)
  BY DEF UpdateFound, UpdateNotFound, DeleteFound, DeleteNotFound, LookupFails
<1>4. \A b \in Buckets :
        /\ index_lock'[b].rd = index_lock[b].rd
        /\ index_lock'[b].wr = IF b = req[w].bucket THEN {w} ELSE index_lock[b].wr
  <2>1. CanOwn(index_lock[req[w].bucket]) /\ index_lock' = [index_lock EXCEPT ![req[w].bucket] = Own(@, w)]
    BY <1>3 DEF OwnIndex
  <2>2. req[w].bucket \in Buckets /\ index_lock \in [Buckets -> LockType(Workers)]
    BY <1>1, <1>2
  <2>3. PICK d \in Buckets : d = req[w].bucket
    BY <2>2
  <2>4. CanOwn(index_lock[d]) /\ index_lock' = [index_lock EXCEPT ![d] = Own(@, w)]
    BY <2>1, <2>3
  <2>5. \A b \in Buckets : /\ index_lock'[b].rd = index_lock[b].rd
                         /\ index_lock'[b].wr = IF b = d THEN {w} ELSE index_lock[b].wr
    BY <2>2, <2>3, <2>4, OwnEffect
  <2> QED
    BY <2>3, <2>5
<1>5. Holds(w)
  BY <1>2 DEF HoldsOK
<1>6. Holds(w)'
  BY <1>2, <1>4, <1>5 DEF Holds, Owning, UsingNew, Deleting
<1> QED
  BY <1>2, <1>4, <1>6, HoldsFrame

\* The index lock is released.
LEMMA HoldsDisownIndex ==
    ASSUME TypeInv, HoldsOK, NEW w \in Workers, UnlockIndex(w)
    PROVE  HoldsOK'
<1>1. index_lock \in [Buckets -> LockType(Workers)] /\ file_lock \in [Files -> LockType(Workers)]
  BY DEF TypeInv, TypeOK
<1>2. /\ Steps(w) /\ pc[w] = "unlock" /\ pc'[w] = "done" /\ req[w].bucket \in Buckets
      /\ UNCHANGED <<file_lock, req>>
  BY RequestOfCall DEF Steps, UnlockIndex, Goto, TypeInv, TypeOK
<1>3. \A b \in Buckets :
        /\ index_lock'[b].rd = index_lock[b].rd
        /\ index_lock'[b].wr = IF b = req[w].bucket THEN index_lock[b].wr \ {w} ELSE index_lock[b].wr
  <2>1. index_lock' = [index_lock EXCEPT ![req[w].bucket] = Disown(@, w)]
    BY DEF UnlockIndex, DisownIndex
  <2>2. req[w].bucket \in Buckets /\ index_lock \in [Buckets -> LockType(Workers)]
    BY <1>1, <1>2
  <2>3. PICK d \in Buckets : d = req[w].bucket
    BY <2>2
  <2>4. index_lock' = [index_lock EXCEPT ![d] = Disown(@, w)]
    BY <2>1, <2>3
  <2>5. \A b \in Buckets : /\ index_lock'[b].rd = index_lock[b].rd
                         /\ index_lock'[b].wr = IF b = d THEN index_lock[b].wr \ {w} ELSE index_lock[b].wr
    BY <2>2, <2>4, DisownEffect, SMTT(40)
  <2> QED
    BY <2>3, <2>5
<1>4. Holds(w)
  BY <1>2 DEF HoldsOK
<1>5. Holds(w)'
  BY <1>2, <1>3, <1>4 DEF Holds
<1> QED
  BY <1>2, <1>3, <1>5, HoldsFrame

\* find_block() exchanges the index lock for the file lock.
LEMMA HoldsLockFile ==
    ASSUME TypeInv, HoldsOK, NEW w \in Workers, FindLockFile(w)
    PROVE  HoldsOK'
<1>1. index_lock \in [Buckets -> LockType(Workers)] /\ file_lock \in [Files -> LockType(Workers)]
  BY DEF TypeInv, TypeOK
<1>2. /\ Steps(w) /\ pc[w] = "find_file" /\ pc'[w] = "find_read" /\ req[w].bucket \in Buckets
      /\ UNCHANGED <<req, iv>> /\ iv[w].block_id \in Files
  BY RequestOfCall DEF Steps, FindLockFile, Goto, locals, TypeInv, TypeOK, CallsOK, UsingIv, Entry
<1>3. /\ index_lock[req[w].bucket].rd[w] = 1 => index_lock'[req[w].bucket].rd[w] = 0
      /\ \A b \in Buckets :
           /\ index_lock'[b].wr = index_lock[b].wr
           /\ \A u \in Workers : b # req[w].bucket \/ u # w => index_lock'[b].rd[u] = index_lock[b].rd[u]
  <2>1. index_lock' = [index_lock EXCEPT ![req[w].bucket] = Unshare(@, w)]
    BY DEF FindLockFile, UnshareIndex
  <2> QED
    BY <1>1, <1>2, <2>1, UnshareEffect
<1>4. \A f \in Files :
        /\ file_lock'[f].wr = file_lock[f].wr
        /\ \A u \in Workers : file_lock'[f].rd[u] =
              IF f = iv[w].block_id /\ u = w THEN file_lock[f].rd[u] + 1 ELSE file_lock[f].rd[u]
  <2>1. file_lock' = [file_lock EXCEPT ![iv[w].block_id] = Share(@, w)]
    BY DEF FindLockFile
  <2> QED
    BY <1>1, <1>2, <2>1, ShareEffect
<1>5. Holds(w)
  BY <1>2 DEF HoldsOK
<1>6. Holds(w)'
  BY <1>2, <1>3, <1>4, <1>5 DEF Holds, Owning, UsingNew, Deleting
<1> QED
  BY <1>2, <1>3, <1>4, <1>6, HoldsFrame

\* find_block() releases the file lock.
LEMMA HoldsRead ==
    ASSUME TypeInv, HoldsOK, NEW w \in Workers, FindRead(w)
    PROVE  HoldsOK'
<1>1. index_lock \in [Buckets -> LockType(Workers)] /\ file_lock \in [Files -> LockType(Workers)]
  BY DEF TypeInv, TypeOK
<1>2. /\ Steps(w) /\ pc[w] = "find_read" /\ pc'[w] = "done"
      /\ UNCHANGED <<req, iv, index_lock>> /\ iv[w].block_id \in Files
  BY DEF Steps, FindRead, Goto, TypeInv, TypeOK, CallsOK, UsingIv, Entry
<1>3. /\ file_lock[iv[w].block_id].rd[w] = 1 => file_lock'[iv[w].block_id].rd[w] = 0
      /\ \A f \in Files :
           /\ file_lock'[f].wr = file_lock[f].wr
           /\ \A u \in Workers : f # iv[w].block_id \/ u # w => file_lock'[f].rd[u] = file_lock[f].rd[u]
  <2>1. file_lock' = [file_lock EXCEPT ![iv[w].block_id] = Unshare(@, w)]
    BY DEF FindRead
  <2> QED
    BY <1>1, <1>2, <2>1, UnshareEffect
<1>4. Holds(w)
  BY <1>2 DEF HoldsOK
<1>5. Holds(w)'
  BY <1>2, <1>3, <1>4 DEF Holds, Owning, UsingNew, Deleting
<1> QED
  BY <1>2, <1>3, <1>5, HoldsFrame

\* modify_block() and append_block() take the file lock.
LEMMA HoldsOwnFile ==
    ASSUME TypeInv, HoldsOK, NEW w \in Workers, ModifyStart(w) \/ ReuseSlot(w) \/ GrowFile(w)
    PROVE  HoldsOK'
<1>1. index_lock \in [Buckets -> LockType(Workers)] /\ file_lock \in [Files -> LockType(Workers)]
  BY DEF TypeInv, TypeOK
<1>2. PICK f \in Files :
        /\ CanOwn(file_lock[f]) /\ file_lock' = [file_lock EXCEPT ![f] = Own(@, w)]
        /\ \/ pc'[w] = "modify_write" /\ iv'[w].block_id = f
           \/ pc'[w] \in {"append_reuse", "append_grow"} /\ new_iv'[w].block_id = f
  <2>1. CASE ModifyStart(w)
    BY <2>1 DEF ModifyStart, Goto, locals, TypeInv, TypeOK, CallsOK, UsingIv, Entry
  <2>2. CASE ReuseSlot(w)
    BY <2>2 DEF ReuseSlot, NewValue, Goto, TypeInv, TypeOK, CallsOK
  <2>3. CASE GrowFile(w)
    BY <2>3 DEF GrowFile, NewValue, Goto, TypeInv, TypeOK, CallsOK
  <2> QED
    BY <2>1, <2>2, <2>3
<1>3. Steps(w) /\ UNCHANGED <<req, index_lock>> /\ pc[w] \in {"modify", "append"}
  BY DEF Steps, ModifyStart, ReuseSlot, GrowFile
<1>4. \A g \in Files :
        /\ file_lock'[g].rd = file_lock[g].rd
        /\ file_lock'[g].wr = IF g = f THEN {w} ELSE file_lock[g].wr
  BY <1>1, <1>2, OwnEffect
<1>5. Holds(w)
  BY <1>3 DEF HoldsOK
<1>6. Holds(w)'
  BY <1>2, <1>3, <1>4, <1>5 DEF Holds, Owning, UsingNew, Deleting
<1> QED
  BY <1>3, <1>4, <1>6, HoldsFrame

\* modify_block() and append_block() release the file lock.
LEMMA HoldsDisownFile ==
    ASSUME TypeInv, HoldsOK, NEW w \in Workers, ModifyWrite(w) \/ AppendWrite(w)
    PROVE  HoldsOK'
<1>1. index_lock \in [Buckets -> LockType(Workers)] /\ file_lock \in [Files -> LockType(Workers)]
  BY DEF TypeInv, TypeOK
<1>2. PICK f \in Files :
        /\ file_lock' = [file_lock EXCEPT ![f] = Disown(@, w)]
        /\ \/ pc[w] = "modify_write" /\ pc'[w] = "modify_put" /\ iv[w].block_id = f
           \/ pc[w] \in {"append_reuse", "append_grow"} /\ pc'[w] = "append_put" /\ new_iv[w].block_id = f
  <2>1. CASE ModifyWrite(w)
    BY <2>1 DEF ModifyWrite, Goto, TypeInv, TypeOK, CallsOK, UsingIv, Entry
  <2>2. CASE AppendWrite(w)
    BY <2>2 DEF AppendWrite, Goto, TypeInv, TypeOK, CallsOK, UsingNew, Entry
  <2> QED
    BY <2>1, <2>2
<1>3. Steps(w) /\ UNCHANGED <<req, index_lock>>
  BY DEF Steps, ModifyWrite, AppendWrite
<1>4. \A g \in Files :
        /\ file_lock'[g].rd = file_lock[g].rd
        /\ file_lock'[g].wr = IF g = f THEN file_lock[g].wr \ {w} ELSE file_lock[g].wr
  BY <1>1, <1>2, DisownEffect, SMTT(40)
<1>5. Holds(w)
  BY <1>2 DEF HoldsOK
<1>6. Holds(w)'
  <2>1. \A b \in Buckets : index_lock'[b] = index_lock[b] /\ req'[w] = req[w]
    BY <1>3
  <2>2. pc[w] \in Owning /\ pc'[w] \in Owning /\ pc[w] \notin {"find_file", "find_read"}
        /\ pc'[w] \notin {"find_file", "find_read"}
    BY <1>2 DEF Owning, UsingNew
  <2>3. \A g \in Files : w \notin file_lock'[g].wr
    <3> SUFFICES ASSUME NEW g \in Files, w \in file_lock'[g].wr PROVE FALSE
      OBVIOUS
    <3>1. g # f /\ w \in file_lock[g].wr
      BY <1>4
    <3>2. \/ pc[w] = "modify_write" /\ iv[w].block_id = g
          \/ pc[w] \in {"append_reuse", "append_grow"} /\ new_iv[w].block_id = g
      BY <1>5, <3>1, Zenon DEF Holds
    <3> QED
      BY <1>2, <3>1, <3>2
  <2>4. \A g \in Files : file_lock'[g].rd[w] = 0
    BY <1>4, <1>5, <2>2 DEF Holds
  <2> QED
    BY <1>5, <2>1, <2>2, <2>3, <2>4 DEF Holds
<1> QED
  BY <1>3, <1>4, <1>6, HoldsFrame

\* A step of a worker is one of Steps, or the failed assertion.
LEMMA WorkSteps ==
    ASSUME NEW w \in Workers, Call(w) \/ Work(w)
    PROVE  Steps(w) \/ Abort
  BY DEF Work, find_block, modify_block, append_block, do_delete_block, Update_or_delete, Steps,
     ModifyAborts, AppendAborts

\* At the start nobody holds a lock.
LEMMA HoldsInit == Init => HoldsOK
  BY DEF Init, HoldsOK, Holds, NewLock

\* Every worker keeps holding exactly the locks its place in the code says.
LEMMA HoldsStep == TypeInv /\ HoldsOK /\ [Next]_vars => HoldsOK'
<1> SUFFICES ASSUME TypeInv, HoldsOK, [Next]_vars PROVE HoldsOK'
  OBVIOUS
<1>1. ASSUME NEW w \in Workers, Steps(w) PROVE HoldsOK'
  BY <1>1, HoldsQuiet, HoldsShareIndex, HoldsOwnIndex, HoldsDisownIndex, HoldsLockFile, HoldsRead,
     HoldsOwnFile, HoldsDisownFile DEF Steps
<1>2. CASE Abort
  BY <1>2 DEF Abort, HoldsOK
<1>3. ASSUME NEW f \in Files, sync_storage(f) PROVE HoldsOK'
  BY <1>3 DEF sync_storage, HoldsOK, Holds, locals
<1>4. CASE UNCHANGED vars
  BY <1>4 DEF vars, HoldsOK, Holds
<1> QED
  BY <1>1, <1>2, <1>3, <1>4, WorkSteps DEF Next

\* Whatever fails, a worker that is not executing a call holds no lock, except
\* for the shared index lock of a find_block() that found no memory.
THEOREM AllLocksReturned == Spec => []LocksReturned
<1>1. TypeInv /\ HoldsOK => LocksReturned
  <2> SUFFICES ASSUME HoldsOK, NEW w \in Workers, pc[w] = "idle"
               PROVE  /\ \A b \in Buckets : w \notin index_lock[b].wr
                      /\ \A b \in Buckets : index_lock[b].rd[w] = 0 \/ MayFail("nomem")
                      /\ \A f \in Files : w \notin file_lock[f].wr /\ file_lock[f].rd[w] = 0
    BY DEF LocksReturned
  <2>1. Holds(w)
    BY DEF HoldsOK
  <2> QED
    BY <2>1 DEF Holds, Owning, UsingNew, Deleting
<1> QED
  BY <1>1, TypeInit, TypeStep, HoldsInit, HoldsStep, PTL DEF Spec

-----------------------------------------------------------------------------
(* The index lock of a bucket has one owner.                               *)

\* It is enough to look at the worker that moves, if no owner changes.
LEMMA ExclusiveFrame ==
    ASSUME TypeInv, Exclusive, NEW w \in Workers, Steps(w),
           \A b \in Buckets : index_lock'[b].wr = index_lock[b].wr,
           pc'[w] \in Owning => pc[w] \in Owning /\ req'[w] = req[w]
    PROVE  Exclusive'
<1> SUFFICES ASSUME NEW u \in Workers, pc'[u] \in Owning PROVE index_lock'[req'[u].bucket].wr = {u}
  BY DEF Exclusive
<1>1. pc[u] \in Owning /\ req'[u] = req[u]
  BY OthersStay DEF SamePlace
<1>2. req[u].bucket \in Buckets
  BY <1>1, RequestOfCall DEF Owning, UsingNew, Deleting
<1> QED
  BY <1>1, <1>2 DEF Exclusive

\* The steps that leave the index lock alone.
LEMMA ExclusiveQuiet ==
    ASSUME TypeInv, Exclusive, NEW w \in Workers,
           \/ FindNothing(w) \/ FindRead(w) \/ ModifyStart(w) \/ ModifyWrite(w)
           \/ ModifyPut(w) \/ ReuseSlot(w) \/ GrowFile(w) \/ AppendWrite(w)
           \/ AppendPut(w) \/ DeleteRecord(w) \/ FreeSlot(w) \/ LeakSlot(w)
           \/ DeleteSyncHeader(w) \/ DeleteSyncSlot(w) \/ Return(w) \/ Call(w)
    PROVE  Exclusive'
<1>1. Steps(w) /\ UNCHANGED index_lock
  BY DEF Steps, FindNothing, FindRead, ModifyStart, ModifyWrite, ModifyPut, ReuseSlot, GrowFile, AppendWrite, AppendPut, DeleteRecord, FreeSlot, LeakSlot, DeleteSyncHeader, DeleteSyncSlot, Return, Call
<1>2. pc'[w] \in Owning => pc[w] \in Owning /\ req'[w] = req[w]
  <2>1. CASE FindNothing(w)
    BY <2>1 DEF FindNothing, Owning, UsingNew, Deleting, Goto, TypeInv, TypeOK
  <2>2. CASE FindRead(w)
    BY <2>2 DEF FindRead, Owning, UsingNew, Deleting, Goto, TypeInv, TypeOK
  <2>3. CASE ModifyStart(w)
    BY <2>3 DEF ModifyStart, Owning, UsingNew, Deleting, Goto, TypeInv, TypeOK
  <2>4. CASE ModifyWrite(w)
    BY <2>4 DEF ModifyWrite, Owning, UsingNew, Deleting, Goto, TypeInv, TypeOK
  <2>5. CASE ModifyPut(w)
    BY <2>5 DEF ModifyPut, Owning, UsingNew, Deleting, Goto, TypeInv, TypeOK
  <2>6. CASE ReuseSlot(w)
    BY <2>6 DEF ReuseSlot, Owning, UsingNew, Deleting, Goto, TypeInv, TypeOK
  <2>7. CASE GrowFile(w)
    BY <2>7 DEF GrowFile, Owning, UsingNew, Deleting, Goto, TypeInv, TypeOK
  <2>8. CASE AppendWrite(w)
    BY <2>8 DEF AppendWrite, Owning, UsingNew, Deleting, Goto, TypeInv, TypeOK
  <2>9. CASE AppendPut(w)
    BY <2>9 DEF AppendPut, Owning, UsingNew, Deleting, Goto, TypeInv, TypeOK
  <2>10. CASE DeleteRecord(w)
    BY <2>10 DEF DeleteRecord, Owning, UsingNew, Deleting, Goto, TypeInv, TypeOK
  <2>11. CASE FreeSlot(w)
    BY <2>11 DEF FreeSlot, Owning, UsingNew, Deleting, Goto, TypeInv, TypeOK
  <2>12. CASE LeakSlot(w)
    BY <2>12 DEF LeakSlot, AfterDelete, Owning, UsingNew, Deleting, Goto, TypeInv, TypeOK
  <2>13. CASE DeleteSyncHeader(w)
    BY <2>13 DEF DeleteSyncHeader, Owning, UsingNew, Deleting, Goto, TypeInv, TypeOK
  <2>14. CASE DeleteSyncSlot(w)
    BY <2>14 DEF DeleteSyncSlot, AfterDelete, Owning, UsingNew, Deleting, Goto, TypeInv, TypeOK
  <2>15. CASE Return(w)
    BY <2>15 DEF Return, Owning, UsingNew, Deleting, Goto, TypeInv, TypeOK
  <2>16. CASE Call(w)
    BY <2>16, RequestFields DEF Call, Owning, UsingNew, Deleting, Goto, TypeInv, TypeOK
  <2> QED
    BY <2>1, <2>2, <2>3, <2>4, <2>5, <2>6, <2>7, <2>8, <2>9, <2>10, <2>11, <2>12, <2>13, <2>14, <2>15, <2>16
<1> QED
  BY <1>1, <1>2, ExclusiveFrame

\* find_block() shares the index lock.
LEMMA ExclusiveShare ==
    ASSUME TypeInv, Exclusive, NEW w \in Workers, FindRecord(w) \/ FindNoMemory(w) \/ FindLockFile(w)
    PROVE  Exclusive'
<1>1. /\ Steps(w) /\ pc'[w] \notin Owning /\ pc[w] \notin {"idle", "abort"}
  BY DEF Steps, FindRecord, FindNoMemory, FindLockFile, Goto, Owning, UsingNew, Deleting, TypeInv, TypeOK
<1>2. index_lock \in [Buckets -> LockType(Workers)] /\ req[w].bucket \in Buckets
  BY <1>1, RequestOfCall DEF TypeInv, TypeOK
<1>3. \/ index_lock' = [index_lock EXCEPT ![req[w].bucket] = Share(@, w)]
      \/ index_lock' = [index_lock EXCEPT ![req[w].bucket] = Unshare(@, w)]
  BY DEF FindRecord, FindNoMemory, FindLockFile, ShareIndex, UnshareIndex
<1>4. \A b \in Buckets : index_lock'[b].wr = index_lock[b].wr
  BY <1>2, <1>3, ShareEffect, UnshareEffect
<1> QED
  BY <1>1, <1>4, ExclusiveFrame

\* rwlock_wrlock() lets nobody in who would not be alone.
LEMMA ExclusiveOwn ==
    ASSUME TypeInv, Exclusive, NEW w \in Workers,
           UpdateFound(w) \/ UpdateNotFound(w) \/ DeleteFound(w) \/ DeleteNotFound(w) \/ LookupFails(w)
    PROVE  Exclusive'
<1>1. Steps(w) /\ pc[w] \notin {"idle", "abort"} /\ UNCHANGED req /\ OwnIndex(w)
  BY DEF Steps, UpdateFound, UpdateNotFound, DeleteFound, DeleteNotFound, LookupFails
<1>2. PICK d \in Buckets : d = req[w].bucket
  BY <1>1, RequestOfCall
<1>3. /\ CanOwn(index_lock[d]) /\ index_lock' = [index_lock EXCEPT ![d] = Own(@, w)]
      /\ index_lock \in [Buckets -> LockType(Workers)]
  BY <1>1, <1>2 DEF OwnIndex, TypeInv, TypeOK
<1>4. /\ index_lock[d].wr = {}
      /\ \A b \in Buckets : index_lock'[b].wr = IF b = d THEN {w} ELSE index_lock[b].wr
  BY <1>2, <1>3, OwnEffect
<1> SUFFICES ASSUME NEW u \in Workers, pc'[u] \in Owning PROVE index_lock'[req'[u].bucket].wr = {u}
  BY DEF Exclusive
<1>5. CASE u = w
  BY <1>1, <1>2, <1>4, <1>5
<1>6. CASE u # w
  <2>1. pc[u] \in Owning
    BY <1>1, <1>6, OthersStay DEF SamePlace
  <2>2. req[u].bucket \in Buckets /\ index_lock[req[u].bucket].wr = {u}
    BY <2>1, RequestOfCall DEF Exclusive, Owning, UsingNew, Deleting
  <2>3. req[u].bucket # d
    BY <1>4, <2>2
  <2> QED
    BY <1>1, <1>4, <2>2, <2>3
<1> QED
  BY <1>5, <1>6

\* The only owner leaves.
LEMMA ExclusiveDisown ==
    ASSUME TypeInv, Exclusive, NEW w \in Workers, UnlockIndex(w)
    PROVE  Exclusive'
<1>1. /\ Steps(w) /\ pc[w] = "unlock" /\ pc'[w] = "done" /\ UNCHANGED req
  BY DEF Steps, UnlockIndex, Goto, TypeInv, TypeOK
<1>2. PICK d \in Buckets : d = req[w].bucket
  BY <1>1, RequestOfCall
<1>3. /\ index_lock' = [index_lock EXCEPT ![d] = Disown(@, w)]
      /\ index_lock \in [Buckets -> LockType(Workers)]
  BY <1>2 DEF UnlockIndex, DisownIndex, TypeInv, TypeOK
<1>4. \A b \in Buckets : index_lock'[b].wr = IF b = d THEN index_lock[b].wr \ {w} ELSE index_lock[b].wr
  BY <1>2, <1>3, DisownEffect
<1> SUFFICES ASSUME NEW u \in Workers, pc'[u] \in Owning PROVE index_lock'[req'[u].bucket].wr = {u}
  BY DEF Exclusive
<1>5. u # w
  BY <1>1 DEF Owning, UsingNew, Deleting
<1>6. pc[u] \in Owning
  BY <1>1, <1>5, OthersStay DEF SamePlace
<1>7. req[u].bucket \in Buckets /\ index_lock[req[u].bucket].wr = {u}
  BY <1>6, RequestOfCall DEF Exclusive, Owning, UsingNew, Deleting
<1>8. index_lock[d].wr = {w}
  BY <1>1, <1>2 DEF Exclusive, Owning
<1>9. req[u].bucket # d
  BY <1>5, <1>7, <1>8
<1> QED
  BY <1>1, <1>4, <1>7, <1>9

\* No step lets a second worker update a bucket.
LEMMA ExclusiveStep ==
    ASSUME TypeInv, Exclusive, NEW w \in Workers, Steps(w)
    PROVE  Exclusive'
  BY ExclusiveQuiet, ExclusiveShare, ExclusiveOwn, ExclusiveDisown DEF Steps

\* Two workers that own their index locks work on different buckets.
LEMMA OwnersApart ==
    ASSUME Exclusive, NEW u \in Workers, NEW w \in Workers, u # w,
           pc[u] \in Owning, pc[w] \in Owning
    PROVE  req[u].bucket # req[w].bucket
  BY DEF Exclusive

-----------------------------------------------------------------------------
(* What find_record() returned stays true while the index lock is owned.   *)

\* A step changes the index at most at the key that an owner works on.
LEMMA IndexChange ==
    ASSUME TypeInv, NEW w \in Workers, Steps(w), NEW b \in Buckets, NEW k \in Keys
    PROVE  \/ index'[b][k] = index[b][k]
           \/ pc[w] \in Owning /\ b = req[w].bucket /\ k = req[w].key
<1>1. CASE ModifyPut(w) \/ AppendPut(w) \/ DeleteRecord(w)
  <2>1. pc[w] \in Owning /\ req[w].bucket \in Buckets /\ req[w].key \in Keys
    BY <1>1, RequestOfCall DEF ModifyPut, AppendPut, DeleteRecord, Owning, UsingNew, Deleting
  <2>2. \/ index' = index
        \/ \E e : index' = [index EXCEPT ![req[w].bucket][req[w].key] = e]
    BY <1>1 DEF ModifyPut, AppendPut, DeleteRecord
  <2>3. index \in [Buckets -> [Keys -> Entry \cup {None}]]
    BY DEF TypeInv, TypeOK
  <2> QED
    BY <2>1, <2>2, <2>3, ZenonT(60)
<1>2. CASE ~(ModifyPut(w) \/ AppendPut(w) \/ DeleteRecord(w))
  <2>1. UNCHANGED index
    BY <1>2 DEF Steps, indexvars, FindRecord, FindNothing, FindNoMemory, FindLockFile, FindRead,
       ModifyStart, ModifyWrite, ReuseSlot, GrowFile, AppendWrite, FreeSlot, LeakSlot,
       DeleteSyncHeader, DeleteSyncSlot, UpdateFound, UpdateNotFound, DeleteFound,
       DeleteNotFound, LookupFails, UnlockIndex, Return, Call
  <2> QED
    BY <2>1
<1> QED
  BY <1>1, <1>2

\* The steps that lead to a place where the record is edited.
LEMMA EditingBegins ==
    ASSUME TypeInv, NEW w \in Workers, Steps(w), pc'[w] \in Editing
    PROVE  UpdateFound(w) \/ DeleteFound(w) \/ ModifyStart(w) \/ ModifyWrite(w)
<1> USE DEF Editing, Goto, AfterDelete, TypeInv, TypeOK
<1>1. ~FindRecord(w)
  BY DEF FindRecord
<1>2. ~FindNothing(w)
  BY DEF FindNothing
<1>3. ~FindNoMemory(w)
  BY DEF FindNoMemory
<1>4. ~FindLockFile(w)
  BY DEF FindLockFile
<1>5. ~FindRead(w)
  BY DEF FindRead
<1>6. ~ModifyPut(w)
  BY DEF ModifyPut
<1>7. ~ReuseSlot(w)
  BY DEF ReuseSlot
<1>8. ~GrowFile(w)
  BY DEF GrowFile
<1>9. ~AppendWrite(w)
  BY DEF AppendWrite
<1>10. ~AppendPut(w)
  BY DEF AppendPut
<1>11. ~DeleteRecord(w)
  BY DEF DeleteRecord
<1>12. ~FreeSlot(w)
  BY DEF FreeSlot
<1>13. ~LeakSlot(w)
  BY DEF LeakSlot
<1>14. ~DeleteSyncHeader(w)
  BY DEF DeleteSyncHeader
<1>15. ~DeleteSyncSlot(w)
  BY DEF DeleteSyncSlot
<1>16. ~UpdateNotFound(w)
  BY DEF UpdateNotFound
<1>17. ~DeleteNotFound(w)
  BY DEF DeleteNotFound
<1>18. ~LookupFails(w)
  BY DEF LookupFails
<1>19. ~UnlockIndex(w)
  BY DEF UnlockIndex
<1>20. ~Return(w)
  BY DEF Return
<1>21. ~Call(w)
  BY RequestFields DEF Call
<1> QED
  BY <1>1, <1>2, <1>3, <1>4, <1>5, <1>6, <1>7, <1>8, <1>9, <1>10, <1>11, <1>12, <1>13, <1>14,
     <1>15, <1>16, <1>17, <1>18, <1>19, <1>20, <1>21 DEF Steps

\* No step makes the entry that an update works on out of date.
LEMMA IvCurrentStep ==
    ASSUME TypeInv, Exclusive, IvCurrent, NEW w \in Workers, Steps(w)
    PROVE  IvCurrent'
<1> SUFFICES ASSUME NEW u \in Workers, pc'[u] \in Editing PROVE Current(u)'
  BY DEF IvCurrent
<1>1. CASE u # w
  <2>1. SamePlace(u) /\ pc[u] \in Editing /\ pc[u] \in Owning
    BY <1>1, OthersStay DEF SamePlace, Editing, Owning, Deleting
  <2>2. Current(u) /\ req[u].bucket \in Buckets /\ req[u].key \in Keys
    BY <2>1, RequestOfCall DEF IvCurrent, Editing
  <2>3. index'[req[u].bucket][req[u].key] = index[req[u].bucket][req[u].key]
    BY <1>1, <2>1, <2>2, IndexChange, OwnersApart
  <2> QED
    BY <2>1, <2>2, <2>3 DEF SamePlace, Current, Record
<1>2. CASE u = w
  <2>1. UpdateFound(w) \/ DeleteFound(w) \/ ModifyStart(w) \/ ModifyWrite(w)
    BY <1>2, EditingBegins
  <2>2. UNCHANGED <<index, req>>
    BY <2>1 DEF UpdateFound, DeleteFound, ModifyStart, ModifyWrite, indexvars
  <2>3. CASE UpdateFound(w) \/ DeleteFound(w)
    <3>1. iv'[w] = Record(w) /\ Record(w) # None
      BY <2>3 DEF UpdateFound, DeleteFound, TypeInv, TypeOK
    <3> QED
      BY <1>2, <2>2, <3>1 DEF Current, Record
  <2>4. CASE ModifyStart(w) \/ ModifyWrite(w)
    <3>1. Current(w)
      BY <2>4 DEF ModifyStart, ModifyWrite, IvCurrent, Editing
    <3>2. iv'[w].block_id = iv[w].block_id /\ iv'[w].offset = iv[w].offset
      BY <2>4 DEF ModifyStart, ModifyWrite, locals, TypeInv, TypeOK
    <3> QED
      BY <1>2, <2>2, <3>1, <3>2 DEF Current, Record
  <2> QED
    BY <2>1, <2>3, <2>4
<1> QED
  BY <1>1, <1>2

-----------------------------------------------------------------------------
(* Slots move from owner to owner.                                         *)

\* What a step may do to a slot: its owners become fewer, or it has one new
\* owner and no other: a worker, a place on the free list, or a record.
Fewer(f, s) ==
    /\ \A b \in Buckets, k \in Keys : Live(f, s, b, k)' => Live(f, s, b, k)
    /\ \A p \in Positions : Free(f, s, p)' => Free(f, s, p)
    /\ \A u \in Workers : Held(f, s, u)' => Held(f, s, u)
OnlyHeld(f, s, w) ==
    /\ \A b \in Buckets, k \in Keys : ~Live(f, s, b, k)'
    /\ \A p \in Positions : ~Free(f, s, p)'
    /\ \A u \in Workers : Held(f, s, u)' => u = w
OnlyFree(f, s, q) ==
    /\ \A b \in Buckets, k \in Keys : ~Live(f, s, b, k)'
    /\ \A p \in Positions : Free(f, s, p)' => p = q
    /\ \A u \in Workers : ~Held(f, s, u)'
OnlyLive(f, s, c, j) ==
    /\ \A b \in Buckets, k \in Keys : Live(f, s, b, k)' => b = c /\ k = j
    /\ \A p \in Positions : ~Free(f, s, p)'
    /\ \A u \in Workers : ~Held(f, s, u)'

\* Nobody owns the slot.
Unowned(f, s) ==
    /\ \A b \in Buckets, k \in Keys : ~Live(f, s, b, k)
    /\ \A p \in Positions : ~Free(f, s, p)
    /\ \A u \in Workers : ~Held(f, s, u)

\* Slots that only change hands are not shared.
LEMMA NotShared ==
    ASSUME NoSharedSlot,
           \A f \in Files, s \in Slots :
               \/ Fewer(f, s)
               \/ \E w \in Workers : OnlyHeld(f, s, w)
               \/ \E p \in Positions : OnlyFree(f, s, p)
               \/ \E b \in Buckets, k \in Keys : OnlyLive(f, s, b, k)
    PROVE  NoSharedSlot'
<1> DEFINE One(f, s) ==
        /\ \A b1, b2 \in Buckets, k1, k2 \in Keys :
             Live(f, s, b1, k1)' /\ Live(f, s, b2, k2)' => b1 = b2 /\ k1 = k2
        /\ \A p1, p2 \in Positions : Free(f, s, p1)' /\ Free(f, s, p2)' => p1 = p2
        /\ \A w1, w2 \in Workers : Held(f, s, w1)' /\ Held(f, s, w2)' => w1 = w2
        /\ \A b \in Buckets, k \in Keys, p \in Positions : ~ (Live(f, s, b, k)' /\ Free(f, s, p)')
        /\ \A b \in Buckets, k \in Keys, w \in Workers : ~ (Live(f, s, b, k)' /\ Held(f, s, w)')
        /\ \A p \in Positions, w \in Workers : ~ (Free(f, s, p)' /\ Held(f, s, w)')
<1>1. ASSUME NEW f \in Files, NEW s \in Slots PROVE One(f, s)
  <2>1. CASE Fewer(f, s)
    BY <2>1 DEF Fewer, NoSharedSlot
  <2>2. ASSUME NEW w \in Workers, OnlyHeld(f, s, w) PROVE One(f, s)
    BY <2>2 DEF OnlyHeld
  <2>3. ASSUME NEW p \in Positions, OnlyFree(f, s, p) PROVE One(f, s)
    BY <2>3 DEF OnlyFree
  <2>4. ASSUME NEW b \in Buckets, NEW k \in Keys, OnlyLive(f, s, b, k) PROVE One(f, s)
    BY <2>4 DEF OnlyLive
  <2> QED
    BY <2>1, <2>2, <2>3, <2>4
<1> QED
  BY <1>1 DEF NoSharedSlot

\* Whoever owns a slot keeps it inside the file.
LEMMA StaysBounded ==
    ASSUME TypeInv, Bounded,
           \A f \in Files, s \in Slots :
               Fewer(f, s) \/ ~Unowned(f, s) \/ s <= block_cnt'[f] + free_slots_cnt'[f],
           \A f \in Files :
               block_cnt'[f] + free_slots_cnt'[f] >= block_cnt[f] + free_slots_cnt[f],
           TypeInv'
    PROVE  Bounded'
<1> SUFFICES ASSUME NEW f \in Files, NEW s \in Slots,
                    \/ \E b \in Buckets, k \in Keys : Live(f, s, b, k)'
                    \/ \E p \in Positions : Free(f, s, p)'
                    \/ \E w \in Workers : Held(f, s, w)'
             PROVE  s <= block_cnt'[f] + free_slots_cnt'[f]
  BY DEF Bounded
<1>1. CASE Unowned(f, s) /\ Fewer(f, s)
  BY <1>1 DEF Unowned, Fewer
<1>2. CASE ~Unowned(f, s)
  <2>1. s <= block_cnt[f] + free_slots_cnt[f]
    BY <1>2 DEF Unowned, Bounded
  <2>2. /\ block_cnt[f] \in Int /\ free_slots_cnt[f] \in Int /\ s \in Int
        /\ block_cnt'[f] \in Int /\ free_slots_cnt'[f] \in Int
    BY DEF TypeInv, TypeOK, Slots
  <2> QED
    BY <2>1, <2>2
<1> QED
  BY <1>1, <1>2

\* The others hold what they held.
LEMMA OthersHold ==
    ASSUME TypeInv, NEW w \in Workers, Steps(w), NEW u \in Workers, u # w, NEW f, NEW s
    PROVE  Held(f, s, u)' <=> Held(f, s, u)
  BY OthersStay DEF SamePlace, Held

\* A slot has no new holder if w is none.
LEMMA NoNewHolder ==
    ASSUME TypeInv, NEW w \in Workers, Steps(w), NEW f, NEW s, Held(f, s, w)' => Held(f, s, w)
    PROVE  \A u \in Workers : Held(f, s, u)' => Held(f, s, u)
<1> SUFFICES ASSUME NEW u \in Workers PROVE Held(f, s, u)' => Held(f, s, u)
  OBVIOUS
<1>1. CASE u = w
  BY <1>1
<1>2. CASE u # w
  BY <1>2, OthersHold
<1> QED
  BY <1>1, <1>2

\* A slot that only w could have held is held by nobody else after its step.
LEMMA OnlyHolder ==
    ASSUME TypeInv, NEW w \in Workers, Steps(w), NEW f, NEW s, \A u \in Workers : Held(f, s, u) => u = w
    PROVE  \A u \in Workers : Held(f, s, u)' => u = w
<1> SUFFICES ASSUME NEW u \in Workers, u # w PROVE ~Held(f, s, u)'
  OBVIOUS
<1> QED
  BY OthersHold

\* The steps that move no slot.
LEMMA SlotQuiet ==
    ASSUME TypeInv, NEW w \in Workers,
           \/ FindRecord(w) \/ FindNothing(w) \/ FindNoMemory(w) \/ FindLockFile(w) \/ FindRead(w)
           \/ ModifyStart(w) \/ ModifyWrite(w) \/ AppendWrite(w) \/ LeakSlot(w) \/ DeleteSyncHeader(w)
           \/ DeleteSyncSlot(w) \/ UpdateFound(w) \/ UpdateNotFound(w) \/ DeleteFound(w) \/ DeleteNotFound(w)
           \/ LookupFails(w) \/ UnlockIndex(w) \/ Return(w) \/ Call(w)
    PROVE  /\ UNCHANGED <<index, block_cnt, free_slots_cnt, free_slots_offset>>
           /\ \A f \in Files, s \in Slots : Fewer(f, s)
<1>1. Steps(w) /\ UNCHANGED <<index, block_cnt, free_slots_cnt, free_slots_offset>>
  BY DEF Steps, indexvars, filevars, FindRecord, FindNothing, FindNoMemory, FindLockFile,
     FindRead, ModifyStart, ModifyWrite, AppendWrite, LeakSlot, DeleteSyncHeader,
     DeleteSyncSlot, UpdateFound, UpdateNotFound, DeleteFound, DeleteNotFound, LookupFails,
     UnlockIndex, Return, Call
<1>2. ASSUME NEW f \in Files, NEW s \in Slots, Held(f, s, w)' PROVE Held(f, s, w)
  <2>1. CASE FindRecord(w)
    BY <1>2, <2>1 DEF FindRecord, Held, Goto, locals, TypeInv, TypeOK
  <2>2. CASE FindNothing(w)
    BY <1>2, <2>2 DEF FindNothing, Held, Goto, locals, TypeInv, TypeOK
  <2>3. CASE FindNoMemory(w)
    BY <1>2, <2>3 DEF FindNoMemory, Held, Goto, locals, TypeInv, TypeOK
  <2>4. CASE FindLockFile(w)
    BY <1>2, <2>4 DEF FindLockFile, Held, Goto, locals, TypeInv, TypeOK
  <2>5. CASE FindRead(w)
    BY <1>2, <2>5 DEF FindRead, Held, Goto, locals, TypeInv, TypeOK
  <2>6. CASE ModifyStart(w)
    BY <1>2, <2>6 DEF ModifyStart, Held, Goto, locals, TypeInv, TypeOK
  <2>7. CASE ModifyWrite(w)
    BY <1>2, <2>7 DEF ModifyWrite, Held, Goto, locals, TypeInv, TypeOK
  <2>8. CASE AppendWrite(w)
    BY <1>2, <2>8 DEF AppendWrite, Held, Goto, locals, TypeInv, TypeOK
  <2>9. CASE LeakSlot(w)
    BY <1>2, <2>9 DEF LeakSlot, AfterDelete, Held, Goto, locals, TypeInv, TypeOK
  <2>10. CASE DeleteSyncHeader(w)
    BY <1>2, <2>10 DEF DeleteSyncHeader, Held, Goto, locals, TypeInv, TypeOK
  <2>11. CASE DeleteSyncSlot(w)
    BY <1>2, <2>11 DEF DeleteSyncSlot, AfterDelete, Held, Goto, locals, TypeInv, TypeOK
  <2>12. CASE UpdateFound(w)
    BY <1>2, <2>12 DEF UpdateFound, Held, Goto, locals, TypeInv, TypeOK
  <2>13. CASE UpdateNotFound(w)
    BY <1>2, <2>13 DEF UpdateNotFound, Held, Goto, locals, TypeInv, TypeOK
  <2>14. CASE DeleteFound(w)
    BY <1>2, <2>14 DEF DeleteFound, Held, Goto, locals, TypeInv, TypeOK
  <2>15. CASE DeleteNotFound(w)
    BY <1>2, <2>15 DEF DeleteNotFound, Held, Goto, locals, TypeInv, TypeOK
  <2>16. CASE LookupFails(w)
    BY <1>2, <2>16 DEF LookupFails, Held, Goto, locals, TypeInv, TypeOK
  <2>17. CASE UnlockIndex(w)
    BY <1>2, <2>17 DEF UnlockIndex, Held, Goto, locals, TypeInv, TypeOK
  <2>18. CASE Return(w)
    BY <1>2, <2>18 DEF Return, Held, Goto, locals, TypeInv, TypeOK
  <2>19. CASE Call(w)
    BY <1>2, <2>19, RequestFields DEF Call, Held, Goto, locals, TypeInv, TypeOK
  <2> QED
    BY <2>1, <2>2, <2>3, <2>4, <2>5, <2>6, <2>7, <2>8, <2>9, <2>10, <2>11, <2>12, <2>13, <2>14,
       <2>15, <2>16, <2>17, <2>18, <2>19
<1>3. ASSUME NEW f \in Files, NEW s \in Slots PROVE Fewer(f, s)
  <2>1. \A b \in Buckets, k \in Keys : Live(f, s, b, k)' => Live(f, s, b, k)
    BY <1>1 DEF Live
  <2>2. \A p \in Positions : Free(f, s, p)' => Free(f, s, p)
    BY <1>1 DEF Free
  <2>3. \A u \in Workers : Held(f, s, u)' => Held(f, s, u)
    BY <1>1, <1>2, OthersHold
  <2> QED
    BY <2>1, <2>2, <2>3 DEF Fewer
<1> QED
  BY <1>1, <1>3

\* What every step does to the slots.
SlotsMove ==
    /\ \A f \in Files, s \in Slots :
         \/ Fewer(f, s)
         \/ \E w \in Workers : OnlyHeld(f, s, w)
         \/ \E p \in Positions : OnlyFree(f, s, p)
         \/ \E b \in Buckets, k \in Keys : OnlyLive(f, s, b, k)
    /\ \A f \in Files, s \in Slots :
         Fewer(f, s) \/ ~Unowned(f, s) \/ s <= block_cnt'[f] + free_slots_cnt'[f]
    /\ \A f \in Files : block_cnt'[f] + free_slots_cnt'[f] >= block_cnt[f] + free_slots_cnt[f]

\* modify_block() puts an entry with the same slot.
LEMMA ModifyPutMoves ==
    ASSUME TypeInv, SlotInv, NEW w \in Workers, ModifyPut(w)
    PROVE  SlotsMove
<1> DEFINE c == req[w].bucket
           j == req[w].key
<1>1. /\ c \in Buckets /\ j \in Keys /\ Current(w) /\ Steps(w)
      /\ index \in [Buckets -> [Keys -> Entry \cup {None}]]
  BY RequestOfCall DEF ModifyPut, SlotInv, IvCurrent, Editing, Steps, TypeInv, TypeOK
<1>2. /\ index' = index \/ index' = [index EXCEPT ![c][j] = iv[w]]
      /\ UNCHANGED <<block_cnt, free_slots_cnt, free_slots_offset>> /\ pc'[w] = "unlock"
  BY DEF ModifyPut, filevars, Goto, TypeInv, TypeOK
<1>3. ASSUME NEW f \in Files, NEW s \in Slots PROVE Fewer(f, s)
  <2>1. ASSUME NEW b \in Buckets, NEW k \in Keys, Live(f, s, b, k)' PROVE Live(f, s, b, k)
    <3>1. CASE index'[b][k] = index[b][k]
      BY <2>1, <3>1 DEF Live
    <3>2. CASE index'[b][k] # index[b][k]
      <4>1. b = c /\ k = j /\ index'[b][k] = iv[w]
        BY <1>1, <1>2, <3>2
      <4> QED
        BY <1>1, <2>1, <4>1 DEF Live, Current, Record
    <3> QED
      BY <3>1, <3>2
  <2>2. \A p \in Positions : Free(f, s, p)' => Free(f, s, p)
    BY <1>2 DEF Free
  <2>3. \A u \in Workers : Held(f, s, u)' => Held(f, s, u)
    <3>1. ~Held(f, s, w)'
      BY <1>2 DEF Held
    <3> QED
      BY <1>1, <3>1, NoNewHolder
  <2> QED
    BY <2>1, <2>2, <2>3 DEF Fewer
<1>4. \A f \in Files : block_cnt'[f] + free_slots_cnt'[f] >= block_cnt[f] + free_slots_cnt[f]
  BY <1>2 DEF TypeInv, TypeOK
<1> QED
  BY <1>3, <1>4 DEF SlotsMove

\* do_delete_block() takes the slot from the index.
LEMMA DeleteRecordMoves ==
    ASSUME TypeInv, SlotInv, NEW w \in Workers, DeleteRecord(w)
    PROVE  SlotsMove
<1>0. PICK c, j, f0, s0 : c = req[w].bucket /\ j = req[w].key /\ f0 = iv[w].block_id /\ s0 = iv[w].offset
  OBVIOUS
<1>1. /\ c \in Buckets /\ j \in Keys /\ Current(w) /\ Steps(w)
      /\ index \in [Buckets -> [Keys -> Entry \cup {None}]]
  BY <1>0, RequestOfCall DEF DeleteRecord, SlotInv, IvCurrent, Editing, Steps, TypeInv, TypeOK
<1>2. /\ \/ index' = index /\ pc'[w] = "unlock"
         \/ index' = [index EXCEPT ![c][j] = None] /\ pc'[w] = "delete_slot"
      /\ UNCHANGED <<block_cnt, free_slots_cnt, free_slots_offset, iv>>
  BY <1>0 DEF DeleteRecord, filevars, Goto, TypeInv, TypeOK
<1>3. Live(f0, s0, c, j) /\ f0 \in Files /\ s0 \in Slots
  BY <1>0, <1>1 DEF Live, Current, Record, DeleteRecord, TypeInv, CallsOK, UsingIv, Entry
<1>4. ASSUME NEW f \in Files, NEW s \in Slots, NEW b \in Buckets, NEW k \in Keys, Live(f, s, b, k)'
      PROVE  Live(f, s, b, k) /\ (pc'[w] = "delete_slot" => ~(b = c /\ k = j))
  <2>1. CASE index' = index /\ pc'[w] = "unlock"
    BY <1>4, <2>1 DEF Live
  <2>2. CASE index' = [index EXCEPT ![c][j] = None]
    <3>1. index'[b][k] = IF b = c /\ k = j THEN None ELSE index[b][k]
      BY <1>1, <2>2
    <3> QED
      BY <1>4, <3>1 DEF Live
  <2> QED
    BY <1>2, <2>1, <2>2
<1>5. ASSUME NEW f \in Files, NEW s \in Slots, f # f0 \/ s # s0 \/ pc'[w] = "unlock" PROVE Fewer(f, s)
  <2>1. \A p \in Positions : Free(f, s, p)' => Free(f, s, p)
    BY <1>2 DEF Free
  <2>2. \A u \in Workers : Held(f, s, u)' => Held(f, s, u)
    <3>1. ~Held(f, s, w)'
      BY <1>0, <1>2, <1>5 DEF Held
    <3> QED
      BY <1>1, <3>1, NoNewHolder
  <2> QED
    BY <1>4, <2>1, <2>2 DEF Fewer
<1>6. pc'[w] = "delete_slot" => OnlyHeld(f0, s0, w)
  <2> SUFFICES ASSUME pc'[w] = "delete_slot" PROVE OnlyHeld(f0, s0, w)
    OBVIOUS
  <2>1. \A b \in Buckets, k \in Keys : ~Live(f0, s0, b, k)'
    <3>1. \A b \in Buckets, k \in Keys : Live(f0, s0, b, k) => b = c /\ k = j
      BY <1>1, <1>3 DEF SlotInv, NoSharedSlot
    <3> QED
      BY <1>3, <1>4, <3>1
  <2>2. \A p \in Positions : ~Free(f0, s0, p)'
    <3>1. \A p \in Positions : ~Free(f0, s0, p)
      BY <1>1, <1>3 DEF SlotInv, NoSharedSlot
    <3> QED
      BY <1>2, <3>1 DEF Free
  <2>3. \A u \in Workers : Held(f0, s0, u)' => u = w
    <3>1. \A u \in Workers : ~Held(f0, s0, u)
      BY <1>1, <1>3 DEF SlotInv, NoSharedSlot
    <3>2. \A u \in Workers : Held(f0, s0, u) => u = w
      BY <3>1
    <3> QED
      BY <1>1, <3>2, OnlyHolder
  <2> QED
    BY <2>1, <2>2, <2>3 DEF OnlyHeld
<1>7. ~Unowned(f0, s0)
  BY <1>1, <1>3 DEF Unowned
<1>8. \A f \in Files : block_cnt'[f] + free_slots_cnt'[f] >= block_cnt[f] + free_slots_cnt[f]
  BY <1>2 DEF TypeInv, TypeOK
<1> QED
  BY <1>2, <1>5, <1>6, <1>7, <1>8 DEF SlotsMove

\* do_delete_block() puts the slot on the free list.
LEMMA FreeSlotMoves ==
    ASSUME TypeInv, SlotInv, NEW w \in Workers, FreeSlot(w)
    PROVE  SlotsMove
<1>0. PICK f0, s0, q : f0 = iv[w].block_id /\ s0 = iv[w].offset /\ q = free_slots_cnt[f0]
  OBVIOUS
<1>1. /\ f0 \in Files /\ s0 \in Slots /\ Steps(w) /\ Held(f0, s0, w)
  BY <1>0 DEF FreeSlot, Held, Steps, TypeInv, CallsOK, UsingIv, Entry
<1>2. /\ q \in Positions /\ MAX_FREE_SLOTS \in Nat
      /\ free_slots_cnt \in [Files -> 0 .. MAX_FREE_SLOTS] /\ block_cnt \in [Files -> Int]
  <2>1. free_slots_cnt \in [Files -> 0 .. MAX_FREE_SLOTS] /\ block_cnt \in [Files -> Int]
    BY DEF TypeInv, TypeOK
  <2>2. q \in 0 .. MAX_FREE_SLOTS /\ MAX_FREE_SLOTS \in Nat /\ q < MAX_FREE_SLOTS
    BY <1>0, <1>1, <2>1, StorageAssumption DEF FreeSlot
  <2> QED
    BY <2>1, <2>2 DEF Positions
<1>3. /\ UNCHANGED <<index, iv>> /\ pc'[w] = "delete_header"
      /\ block_cnt' = [block_cnt EXCEPT ![f0] = @ - 1]
      /\ free_slots_cnt' = [free_slots_cnt EXCEPT ![f0] = @ + 1]
      /\ free_slots_offset' = [free_slots_offset EXCEPT ![f0][q] = s0]
      /\ free_slots_offset \in [Files -> [Positions -> 0 .. MaxSlot]]
  BY <1>0 DEF FreeSlot, indexvars, Goto, TypeInv, TypeOK
<1>4. \A f \in Files, p \in Positions :
        free_slots_offset'[f][p] = IF f = f0 /\ p = q THEN s0 ELSE free_slots_offset[f][p]
  BY <1>1, <1>2, <1>3
<1>5. \A f \in Files : free_slots_cnt'[f] = IF f = f0 THEN q + 1 ELSE free_slots_cnt[f]
  BY <1>0, <1>1, <1>2, <1>3
<1>6. ASSUME NEW f \in Files, NEW s \in Slots, NEW p \in Positions, Free(f, s, p)'
      PROVE  (f = f0 /\ p = q /\ s = s0) \/ Free(f, s, p)
  <2>1. CASE f = f0 /\ p = q
    BY <1>4, <1>6, <2>1 DEF Free
  <2>2. CASE ~(f = f0 /\ p = q)
    <3>1. p < free_slots_cnt'[f] /\ free_slots_offset[f][p] = s
      BY <1>4, <1>6, <2>2 DEF Free
    <3>2. p < free_slots_cnt[f]
      BY <1>0, <1>1, <1>2, <1>5, <2>2, <3>1 DEF Positions
    <3> QED
      BY <3>1, <3>2 DEF Free
  <2> QED
    BY <2>1, <2>2
<1>7. ASSUME NEW f \in Files, NEW s \in Slots, f # f0 \/ s # s0 PROVE Fewer(f, s)
  <2>1. \A b \in Buckets, k \in Keys : Live(f, s, b, k)' => Live(f, s, b, k)
    BY <1>3 DEF Live
  <2>2. \A u \in Workers : Held(f, s, u)' => Held(f, s, u)
    <3>1. ~Held(f, s, w)'
      BY <1>3 DEF Held
    <3> QED
      BY <1>1, <3>1, NoNewHolder
  <2> QED
    BY <1>6, <1>7, <2>1, <2>2 DEF Fewer
<1>8. OnlyFree(f0, s0, q)
  <2>1. \A b \in Buckets, k \in Keys : ~Live(f0, s0, b, k)'
    <3>1. \A b \in Buckets, k \in Keys : ~Live(f0, s0, b, k)
      BY <1>1 DEF SlotInv, NoSharedSlot
    <3> QED
      BY <1>3, <3>1 DEF Live
  <2>2. \A p \in Positions : ~Free(f0, s0, p)
    BY <1>1 DEF SlotInv, NoSharedSlot
  <2>3. \A u \in Workers : ~Held(f0, s0, u)'
    <3>1. \A u \in Workers : Held(f0, s0, u) => u = w
      BY <1>1 DEF SlotInv, NoSharedSlot
    <3>2. ~Held(f0, s0, w)'
      BY <1>3 DEF Held
    <3> QED
      BY <1>1, <3>1, <3>2, OnlyHolder
  <2>4. \A p \in Positions : Free(f0, s0, p)' => p = q
    BY <1>1, <1>6, <2>2
  <2> QED
    BY <2>1, <2>3, <2>4 DEF OnlyFree
<1>9. ~Unowned(f0, s0)
  BY <1>1 DEF Unowned
<1>10. \A f \in Files : block_cnt'[f] + free_slots_cnt'[f] >= block_cnt[f] + free_slots_cnt[f]
  BY <1>0, <1>1, <1>2, <1>3, <1>5
<1> QED
  BY <1>1, <1>2, <1>7, <1>8, <1>9, <1>10 DEF SlotsMove

\* append_block() takes the last slot of the free list.
LEMMA ReuseSlotMoves ==
    ASSUME TypeInv, SlotInv, NEW w \in Workers, ReuseSlot(w)
    PROVE  SlotsMove
<1>0. PICK f0, q, s0 : f0 = NewBlock(w) /\ q = free_slots_cnt[f0] - 1 /\ s0 = free_slots_offset[f0][q]
  OBVIOUS
<1>1. f0 \in Files /\ Steps(w)
  BY <1>0 DEF ReuseSlot, Steps, TypeInv, CallsOK
<1>2. /\ q \in Positions /\ q < free_slots_cnt[f0] /\ q \in Int
      /\ free_slots_cnt \in [Files -> 0 .. MAX_FREE_SLOTS] /\ block_cnt \in [Files -> Int]
  <2>1. free_slots_cnt \in [Files -> 0 .. MAX_FREE_SLOTS] /\ block_cnt \in [Files -> Int]
    BY DEF TypeInv, TypeOK
  <2>2. free_slots_cnt[f0] \in 0 .. MAX_FREE_SLOTS /\ MAX_FREE_SLOTS \in Nat /\ free_slots_cnt[f0] # 0
    BY <1>0, <1>1, <2>1, StorageAssumption DEF ReuseSlot
  <2> QED
    BY <1>0, <2>1, <2>2 DEF Positions
<1>3. s0 \in Slots /\ Free(f0, s0, q)
  BY <1>0, <1>1, <1>2 DEF TypeInv, OffsetsOK, Free
<1>4. /\ UNCHANGED index /\ pc'[w] = "append_reuse"
      /\ new_iv'[w].block_id = f0 /\ new_iv'[w].offset = s0
      /\ block_cnt' = [block_cnt EXCEPT ![f0] = @ + 1]
      /\ free_slots_cnt' = [free_slots_cnt EXCEPT ![f0] = q]
      /\ free_slots_offset' = [free_slots_offset EXCEPT ![f0][q] = 0]
      /\ free_slots_offset \in [Files -> [Positions -> 0 .. MaxSlot]]
  BY <1>0 DEF ReuseSlot, NewValue, indexvars, Goto, TypeInv, TypeOK
<1>5. \A f \in Files, p \in Positions :
        free_slots_offset'[f][p] = IF f = f0 /\ p = q THEN 0 ELSE free_slots_offset[f][p]
  BY <1>1, <1>2, <1>4
<1>6. \A f \in Files : free_slots_cnt'[f] = IF f = f0 THEN q ELSE free_slots_cnt[f]
  BY <1>1, <1>2, <1>4
<1>7. ASSUME NEW f \in Files, NEW s \in Slots, NEW p \in Positions, Free(f, s, p)'
      PROVE  Free(f, s, p) /\ ~(f = f0 /\ p = q)
  <2>1. ~(f = f0 /\ p = q)
    BY <1>2, <1>6, <1>7 DEF Free
  <2>2. p < free_slots_cnt'[f] /\ free_slots_offset[f][p] = s
    BY <1>5, <1>7, <2>1 DEF Free
  <2>3. p < free_slots_cnt[f]
    BY <1>1, <1>2, <1>6, <2>2 DEF Positions
  <2> QED
    BY <2>1, <2>2, <2>3 DEF Free
<1>8. \A f \in Files, s \in Slots, b \in Buckets, k \in Keys : Live(f, s, b, k)' => Live(f, s, b, k)
  BY <1>4 DEF Live
<1>9. ASSUME NEW f \in Files, NEW s \in Slots, f # f0 \/ s # s0 PROVE Fewer(f, s)
  <2>1. ~Held(f, s, w)'
    BY <1>4, <1>9 DEF Held
  <2>2. \A u \in Workers : Held(f, s, u)' => Held(f, s, u)
    BY <1>1, <2>1, NoNewHolder
  <2> QED
    BY <1>7, <1>8, <2>2 DEF Fewer
<1>10. OnlyHeld(f0, s0, w)
  <2>1. \A b \in Buckets, k \in Keys : ~Live(f0, s0, b, k)
    BY <1>1, <1>2, <1>3 DEF SlotInv, NoSharedSlot
  <2>2. \A p \in Positions : Free(f0, s0, p) => p = q
    BY <1>1, <1>2, <1>3 DEF SlotInv, NoSharedSlot
  <2>3. \A u \in Workers : ~Held(f0, s0, u)
    BY <1>1, <1>2, <1>3 DEF SlotInv, NoSharedSlot
  <2>4. \A u \in Workers : Held(f0, s0, u) => u = w
    BY <2>3
  <2>5. \A u \in Workers : Held(f0, s0, u)' => u = w
    BY <1>1, <2>4, OnlyHolder
  <2>6. \A p \in Positions : ~Free(f0, s0, p)'
    BY <1>1, <1>3, <1>7, <2>2
  <2>7. \A b \in Buckets, k \in Keys : ~Live(f0, s0, b, k)'
    BY <1>1, <1>3, <1>8, <2>1
  <2> QED
    BY <2>5, <2>6, <2>7 DEF OnlyHeld
<1>11. ~Unowned(f0, s0)
  BY <1>2, <1>3 DEF Unowned
<1>12. \A f \in Files : block_cnt'[f] + free_slots_cnt'[f] >= block_cnt[f] + free_slots_cnt[f]
  BY <1>0, <1>1, <1>2, <1>4, <1>6
<1> QED
  BY <1>1, <1>3, <1>9, <1>10, <1>11, <1>12 DEF SlotsMove

\* append_block() takes the first slot behind the end of the file, which the
\* counters say nobody owns.
LEMMA GrowFileMoves ==
    ASSUME TypeInv, SlotInv, NEW w \in Workers, GrowFile(w)
    PROVE  SlotsMove
<1>0. PICK f0, s0 : f0 = NewBlock(w) /\ s0 = block_cnt[f0] + 1
  OBVIOUS
<1>1. f0 \in Files /\ Steps(w) /\ s0 \in Slots /\ free_slots_cnt[f0] = 0
  BY <1>0 DEF GrowFile, Steps, TypeInv, CallsOK
<1>2. free_slots_cnt \in [Files -> 0 .. MAX_FREE_SLOTS] /\ block_cnt \in [Files -> Int]
  BY DEF TypeInv, TypeOK
<1>3. /\ UNCHANGED <<index, free_slots_cnt, free_slots_offset>> /\ pc'[w] = "append_grow"
      /\ new_iv'[w].block_id = f0 /\ new_iv'[w].offset = s0
      /\ block_cnt' = [block_cnt EXCEPT ![f0] = s0]
  BY <1>0 DEF GrowFile, NewValue, indexvars, Goto, TypeInv, TypeOK
<1>4. Unowned(f0, s0)
  <2>1. ~(s0 <= block_cnt[f0] + free_slots_cnt[f0])
    BY <1>0, <1>1, <1>2
  <2> QED
    BY <1>1, <2>1 DEF SlotInv, Bounded, Unowned
<1>5. \A f \in Files, s \in Slots, b \in Buckets, k \in Keys : Live(f, s, b, k)' => Live(f, s, b, k)
  BY <1>3 DEF Live
<1>6. \A f \in Files, s \in Slots, p \in Positions : Free(f, s, p)' => Free(f, s, p)
  BY <1>3 DEF Free
<1>7. ASSUME NEW f \in Files, NEW s \in Slots, f # f0 \/ s # s0 PROVE Fewer(f, s)
  <2>1. ~Held(f, s, w)'
    BY <1>3, <1>7 DEF Held
  <2>2. \A u \in Workers : Held(f, s, u)' => Held(f, s, u)
    BY <1>1, <2>1, NoNewHolder
  <2> QED
    BY <1>5, <1>6, <2>2 DEF Fewer
<1>8. OnlyHeld(f0, s0, w)
  <2>1. \A u \in Workers : Held(f0, s0, u) => u = w
    BY <1>4 DEF Unowned
  <2>2. \A u \in Workers : Held(f0, s0, u)' => u = w
    BY <1>1, <2>1, OnlyHolder
  <2>3. \A p \in Positions : ~Free(f0, s0, p)'
    BY <1>1, <1>4, <1>6 DEF Unowned
  <2>4. \A b \in Buckets, k \in Keys : ~Live(f0, s0, b, k)'
    BY <1>1, <1>4, <1>5 DEF Unowned
  <2> QED
    BY <2>2, <2>3, <2>4 DEF OnlyHeld
<1>9. s0 <= block_cnt'[f0] + free_slots_cnt'[f0]
  BY <1>1, <1>2, <1>3 DEF Slots
<1>10. \A f \in Files : block_cnt'[f] + free_slots_cnt'[f] >= block_cnt[f] + free_slots_cnt[f]
  BY <1>0, <1>1, <1>2, <1>3
<1> QED
  BY <1>1, <1>7, <1>8, <1>9, <1>10 DEF SlotsMove

\* append_block() gives the slot it holds to the record.
LEMMA AppendPutMoves ==
    ASSUME TypeInv, SlotInv, NEW w \in Workers, AppendPut(w)
    PROVE  SlotsMove
<1>0. PICK c, j, f0, s0 :
        c = req[w].bucket /\ j = req[w].key /\ f0 = new_iv[w].block_id /\ s0 = new_iv[w].offset
  OBVIOUS
<1>1. /\ c \in Buckets /\ j \in Keys /\ f0 \in Files /\ s0 \in Slots /\ Steps(w) /\ Held(f0, s0, w)
      /\ index \in [Buckets -> [Keys -> Entry \cup {None}]]
  BY <1>0, RequestOfCall DEF AppendPut, Held, Steps, TypeInv, TypeOK, CallsOK, UsingNew, Entry
<1>2. /\ index' = index \/ index' = [index EXCEPT ![c][j] = new_iv[w]]
      /\ UNCHANGED <<block_cnt, free_slots_cnt, free_slots_offset>> /\ pc'[w] = "unlock"
  BY <1>0 DEF AppendPut, filevars, Goto, TypeInv, TypeOK
<1>3. ASSUME NEW f \in Files, NEW s \in Slots, NEW b \in Buckets, NEW k \in Keys, Live(f, s, b, k)'
      PROVE  Live(f, s, b, k) \/ (f = f0 /\ s = s0 /\ b = c /\ k = j)
  <2>1. CASE index'[b][k] = index[b][k]
    BY <1>3, <2>1 DEF Live
  <2>2. CASE index'[b][k] # index[b][k]
    <3>1. b = c /\ k = j /\ index'[b][k] = new_iv[w]
      BY <1>1, <1>2, <2>2
    <3> QED
      BY <1>0, <1>3, <3>1 DEF Live
  <2> QED
    BY <2>1, <2>2
<1>4. \A f \in Files, s \in Slots, p \in Positions : Free(f, s, p)' => Free(f, s, p)
  BY <1>2 DEF Free
<1>5. \A f, s : ~Held(f, s, w)'
  BY <1>2 DEF Held
<1>6. ASSUME NEW f \in Files, NEW s \in Slots, f # f0 \/ s # s0 PROVE Fewer(f, s)
  <2>1. \A u \in Workers : Held(f, s, u)' => Held(f, s, u)
    BY <1>1, <1>5, NoNewHolder
  <2> QED
    BY <1>3, <1>4, <1>6, <2>1 DEF Fewer
<1>7. OnlyLive(f0, s0, c, j)
  <2>1. \A b \in Buckets, k \in Keys : ~Live(f0, s0, b, k)
    BY <1>1 DEF SlotInv, NoSharedSlot
  <2>2. \A p \in Positions : ~Free(f0, s0, p)
    BY <1>1 DEF SlotInv, NoSharedSlot
  <2>3. \A u \in Workers : Held(f0, s0, u) => u = w
    BY <1>1 DEF SlotInv, NoSharedSlot
  <2>4. \A u \in Workers : Held(f0, s0, u)' => u = w
    BY <1>1, <2>3, OnlyHolder
  <2>5. \A u \in Workers : ~Held(f0, s0, u)'
    BY <1>5, <2>4
  <2>6. \A p \in Positions : ~Free(f0, s0, p)'
    BY <1>1, <1>4, <2>2
  <2>7. \A b \in Buckets, k \in Keys : Live(f0, s0, b, k)' => b = c /\ k = j
    BY <1>1, <1>3, <2>1
  <2> QED
    BY <2>5, <2>6, <2>7 DEF OnlyLive
<1>8. ~Unowned(f0, s0)
  BY <1>1 DEF Unowned
<1>9. \A f \in Files : block_cnt'[f] + free_slots_cnt'[f] >= block_cnt[f] + free_slots_cnt[f]
  BY <1>2 DEF TypeInv, TypeOK
<1> QED
  BY <1>1, <1>6, <1>7, <1>8, <1>9 DEF SlotsMove

\* Whatever a worker does, slots only change hands.
LEMMA EveryStepMoves ==
    ASSUME TypeInv, SlotInv, NEW w \in Workers, Steps(w)
    PROVE  SlotsMove
<1>1. CASE ModifyPut(w)
  BY <1>1, ModifyPutMoves
<1>2. CASE DeleteRecord(w)
  BY <1>2, DeleteRecordMoves
<1>3. CASE FreeSlot(w)
  BY <1>3, FreeSlotMoves
<1>4. CASE ReuseSlot(w)
  BY <1>4, ReuseSlotMoves
<1>5. CASE GrowFile(w)
  BY <1>5, GrowFileMoves
<1>6. CASE AppendPut(w)
  BY <1>6, AppendPutMoves
<1>7. CASE /\ ~ModifyPut(w) /\ ~DeleteRecord(w) /\ ~FreeSlot(w) /\ ~ReuseSlot(w) /\ ~GrowFile(w)
           /\ ~AppendPut(w)
  <2>1. /\ UNCHANGED <<index, block_cnt, free_slots_cnt, free_slots_offset>>
        /\ \A f \in Files, s \in Slots : Fewer(f, s)
    BY <1>7, SlotQuiet DEF Steps
  <2>2. \A f \in Files : block_cnt'[f] + free_slots_cnt'[f] >= block_cnt[f] + free_slots_cnt[f]
    BY <2>1 DEF TypeInv, TypeOK
  <2> QED
    BY <2>1, <2>2 DEF SlotsMove
<1> QED
  BY <1>1, <1>2, <1>3, <1>4, <1>5, <1>6, <1>7

\* Nobody owns a slot of an empty storage.
LEMMA SlotInit == Init => SlotInv
<1> SUFFICES ASSUME Init PROVE SlotInv
  OBVIOUS
<1>1. \A w \in Workers : pc[w] = "idle"
  BY DEF Init
<1>2. Exclusive /\ IvCurrent
  BY <1>1 DEF Exclusive, IvCurrent, Owning, Editing, UsingNew, Deleting
<1>3. \A f \in Files, s \in Slots : Unowned(f, s)
  <2> SUFFICES ASSUME NEW f \in Files, NEW s \in Slots PROVE Unowned(f, s)
    OBVIOUS
  <2>1. \A b \in Buckets, k \in Keys : ~Live(f, s, b, k)
    BY DEF Init, Live
  <2>2. \A p \in Positions : ~Free(f, s, p)
    BY StorageAssumption DEF Init, Free, Positions
  <2>3. \A u \in Workers : ~Held(f, s, u)
    BY <1>1 DEF Held
  <2> QED
    BY <2>1, <2>2, <2>3 DEF Unowned
<1>4. Bounded
  BY <1>3 DEF Bounded, Unowned
<1>5. NoSharedSlot
  BY <1>3 DEF NoSharedSlot, Unowned
<1> QED
  BY <1>2, <1>4, <1>5 DEF SlotInv

\* The inductive step: no process step gives a slot a second owner.
LEMMA SlotStep == TypeInv /\ SlotInv /\ [Next]_vars => SlotInv'
<1> SUFFICES ASSUME TypeInv, SlotInv, [Next]_vars PROVE SlotInv'
  OBVIOUS
<1>0. TypeInv'
  BY TypeStep
<1>1. ASSUME NEW w \in Workers, Steps(w) PROVE SlotInv'
  <2>1. SlotsMove
    BY <1>1, EveryStepMoves
  <2>2. Exclusive'
    BY <1>1, ExclusiveStep DEF SlotInv
  <2>3. IvCurrent'
    BY <1>1, IvCurrentStep DEF SlotInv
  <2>4. NoSharedSlot'
    BY <2>1, NotShared DEF SlotInv, SlotsMove
  <2>5. Bounded'
    BY <1>0, <2>1, StaysBounded DEF SlotInv, SlotsMove
  <2> QED
    BY <2>2, <2>3, <2>4, <2>5 DEF SlotInv
<1>2. CASE Abort
  <2>1. UNCHANGED <<index, block_cnt, free_slots_cnt, free_slots_offset>> /\ \A u \in Workers : pc'[u] = "abort"
    BY <1>2 DEF Abort, indexvars, filevars
  <2>2. Exclusive' /\ IvCurrent'
    BY <2>1 DEF Exclusive, IvCurrent, Owning, Editing, UsingNew, Deleting
  <2>3. \A f \in Files, s \in Slots : Fewer(f, s)
    BY <2>1 DEF Fewer, Live, Free, Held
  <2>4. NoSharedSlot'
    BY <2>3, NotShared DEF SlotInv
  <2>5. \A f \in Files : block_cnt'[f] + free_slots_cnt'[f] >= block_cnt[f] + free_slots_cnt[f]
    BY <2>1 DEF TypeInv, TypeOK
  <2>6. Bounded'
    BY <1>0, <2>3, <2>5, StaysBounded DEF SlotInv
  <2> QED
    BY <2>2, <2>4, <2>6 DEF SlotInv
<1>3. ASSUME NEW f \in Files, sync_storage(f) PROVE SlotInv'
  BY <1>3 DEF sync_storage, SlotInv, Exclusive, IvCurrent, Current, Record, Bounded, NoSharedSlot,
     Live, Free, Held, indexvars, locals
<1>4. CASE UNCHANGED vars
  BY <1>4 DEF vars, SlotInv, Exclusive, IvCurrent, Current, Record, Bounded, NoSharedSlot, Live,
     Free, Held
<1> QED
  BY <1>1, <1>2, <1>3, <1>4, WorkSteps DEF Next

\* NoSharedSlot holds of every storage: no two records, whatever bucket they
\* belong to, ever share a slot of a data file, no slot in use is on a free
\* list, and no two calls hold the same one.
THEOREM SlotsNotShared == Spec => []NoSharedSlot
<1>1. SlotInv => NoSharedSlot
  BY DEF SlotInv
<1> QED
  BY <1>1, TypeInit, TypeStep, SlotInit, SlotStep, PTL DEF Spec

=============================================================================
