------------------------------ MODULE Storage ------------------------------
(***************************************************************************)
(* The storage engine of src/storage.c: find_block(), update_block(),      *)
(* delete_block() and sync_storage(), called by concurrent workers on one  *)
(* or more buckets.  A bucket has its own index (a Berkeley DB), journal   *)
(* and index lock; the data files, one per block size, with their free     *)
(* slots and their locks, are shared by all the buckets of the process.    *)
(*                                                                         *)
(* An action is a stretch of one worker's code that touches shared state   *)
(* under one set of locks; taking a lock is part of the first action that  *)
(* needs it and releasing it of the last.  The locks are those of LockOps, *)
(* which RWLock shows rwlock.c to implement.                               *)
(*                                                                         *)
(* A slot of a data file stands for its offset: slot n, counted from 1, is *)
(* at DATA_SECTION_POS + block_size * (n - 1); 0 is the offset 0, which an *)
(* unused entry of free_slots_offset holds.  The crc32 of a record stands  *)
(* for the bytes it was computed from.                                     *)
(***************************************************************************)
EXTENDS BlockSizes, LockOps

CONSTANTS
    Workers,            \* threads that call the storage
    Buckets,            \* opened bucket_storage_t
    Keys,               \* keys, after extension or truncation to KEY_LEN
    Data,               \* values a client may store
    DataSize,           \* size of each value
    None,               \* no value, no record
    Torn,               \* a block in the middle of a write
    Ops,                \* the operations that clients call: a subset of get, set, del
    MAX_FREE_SLOTS,     \* capacity of free_slots_offset
    Faults,             \* what may fail in a run: a subset of FaultKinds
    MaxSlot,            \* bound: slots of a data file
    MaxHolds            \* bound: shared holds one worker may leave behind

FaultKinds == {"find", "put", "del", "pwrite", "hwrite", "pread", "nomem", "journal"}

ASSUME StorageAssumption ==
    /\ IsFiniteSet(Workers)
    /\ DataSize \in [Data -> Nat]
    /\ None \notin Data /\ Torn \notin Data /\ None # Torn
    /\ Ops \subseteq {"get", "set", "del"}
    /\ MAX_FREE_SLOTS \in Nat \ {0}
    /\ Faults \subseteq FaultKinds
    /\ MaxSlot \in Nat
    /\ MaxHolds \in Nat
    /\ ~InitStorageFails

VARIABLES
    index,              \* bsp->indexdb, per bucket: key -> index_value_t or None
    journal,            \* bsp->index_logger, per bucket: what replaying it gives
    index_lock,         \* bsp->index_lock, per bucket
    file_lock,          \* block_file_t.lock, per data file
    block_cnt,          \* block_file_t, in memory
    free_slots_cnt,
    free_slots_offset,
    content,            \* data file: the data section, per slot
    disk_hdr,           \* data file: block_cnt and free_slots_cnt as last written
    disk_slots,         \* data file: free_slots_offset as last written
    pc,                 \* per worker: where it is
    req,                \* per worker: the call it executes
    iv,                 \* per worker: the index_value_t that find_record() returned
    new_iv,             \* per worker: the index_value_t of append_block()
    slot_pos,           \* per worker: slot_pos of do_delete_block()
    ret,                \* per worker: the value its call returns
    out                 \* per worker: the value find_block() hands out

filevars == <<block_cnt, free_slots_cnt, free_slots_offset, content, disk_hdr, disk_slots>>
indexvars == <<index, journal>>
locals == <<iv, new_iv, slot_pos, ret, out>>
vars == <<index, journal, index_lock, file_lock, block_cnt, free_slots_cnt, free_slots_offset,
          content, disk_hdr, disk_slots, pc, req, iv, new_iv, slot_pos, ret, out>>

Slots == 1 .. MaxSlot
Positions == 0 .. MAX_FREE_SLOTS - 1
DB_NOTFOUND == -30988

Entry == [crc32: Data \cup {None}, block_id: Files, offset: 0 .. MaxSlot, data_size: Nat]
NoEntry == [crc32 |-> None, block_id |-> 0, offset |-> 0, data_size |-> 0]

\* No record is not a record.
ASSUME NoneAssumption == None \notin Entry

\* Calls: find_block(), update_block(), delete_block().
Requests ==
    [op: Ops \cap {"get", "del"}, bucket: Buckets, key: Keys, data: {None}]
        \cup [op: Ops \cap {"set"}, bucket: Buckets, key: Keys, data: Data]
NoRequest == [op |-> "none", bucket |-> None, key |-> None, data |-> None]

-----------------------------------------------------------------------------
\* open_storage() on an empty directory: open_data_files() creates each file
\* with an empty header, open_index_file() an empty index and journal.
Init ==
    /\ index = [b \in Buckets |-> [k \in Keys |-> None]]
    /\ journal = index
    /\ index_lock = [b \in Buckets |-> NewLock(Workers)]
    /\ file_lock = [f \in Files |-> NewLock(Workers)]
    /\ block_cnt = [f \in Files |-> 0]
    /\ free_slots_cnt = [f \in Files |-> 0]
    /\ free_slots_offset = [f \in Files |-> [p \in Positions |-> 0]]
    /\ content = [f \in Files |-> [s \in Slots |-> None]]
    /\ disk_hdr = [f \in Files |-> [block_cnt |-> 0, free_slots_cnt |-> 0]]
    /\ disk_slots = free_slots_offset
    /\ pc = [w \in Workers |-> "idle"]
    /\ req = [w \in Workers |-> NoRequest]
    /\ iv = [w \in Workers |-> NoEntry]
    /\ new_iv = [w \in Workers |-> NoEntry]
    /\ slot_pos = [w \in Workers |-> 0]
    /\ ret = [w \in Workers |-> 0]
    /\ out = [w \in Workers |-> None]

-----------------------------------------------------------------------------
Goto(w, place) == pc' = [pc EXCEPT ![w] = place]

Returns(w, value) == ret' = [ret EXCEPT ![w] = value]

\* A failed assert(): the process aborts, and with it every worker.
Abort ==
    /\ pc' = [u \in Workers |-> "abort"]
    /\ UNCHANGED <<indexvars, index_lock, file_lock, filevars, req, locals>>

\* A call of the environment that fails only if the run lets it.
MayFail(fault) == fault \in Faults

\* The record of the key that w works on, in its bucket's index.
Record(w) == index[req[w].bucket][req[w].key]

ShareIndex(w) ==
    /\ CanShare(index_lock[req[w].bucket])
    /\ index_lock' = [index_lock EXCEPT ![req[w].bucket] = Share(@, w)]

UnshareIndex(w) == index_lock' = [index_lock EXCEPT ![req[w].bucket] = Unshare(@, w)]

OwnIndex(w) ==
    /\ CanOwn(index_lock[req[w].bucket])
    /\ index_lock' = [index_lock EXCEPT ![req[w].bucket] = Own(@, w)]

DisownIndex(w) == index_lock' = [index_lock EXCEPT ![req[w].bucket] = Disown(@, w)]

\* index_logger_append(): its result is ignored by every caller, so an item
\* that cannot be written is silently missing from the journal.
JournalAppend(w, value) ==
    \/ journal' = [journal EXCEPT ![req[w].bucket][req[w].key] = value]
    \/ MayFail("journal") /\ UNCHANGED journal

-----------------------------------------------------------------------------
(* The header of a data file, in memory and on disk.                       *)

\* Workers among W that have changed the counters of file f in memory and
\* whose own sync_data_file_header() has not been carried out yet.
Reusing(f, W)  == {u \in W : pc[u] = "append_reuse" /\ new_iv[u].block_id = f}
Growing(f, W)  == {u \in W : pc[u] = "append_grow" /\ new_iv[u].block_id = f}
Freeing(f, W)  == {u \in W : pc[u] = "delete_header" /\ iv[u].block_id = f}
Changing(f, W) == Reusing(f, W) \cup Growing(f, W) \cup Freeing(f, W)

\* sync_data_file_header() without the file lock: pwrite() copies the two
\* counters, one after the other, while the workers in W may be changing
\* them, so it can catch either counter before such a change or after it.
RacyHeaders(f, W) ==
    LET more == Cardinality(Freeing(f, W))
        less == Cardinality(Reusing(f, W))
    IN  [block_cnt: block_cnt[f] - less - Cardinality(Growing(f, W)) .. block_cnt[f] + more,
         free_slots_cnt: free_slots_cnt[f] - more .. free_slots_cnt[f] + less]

CurrentHeader(f) == [block_cnt |-> block_cnt[f], free_slots_cnt |-> free_slots_cnt[f]]

-----------------------------------------------------------------------------
Call(w) ==
    /\ pc[w] = "idle"
    /\ \E r \in Requests :
        /\ index_lock[r.bucket].rd[w] <= MaxHolds
        /\ r.op = "set" =>
             \A f \in Files : block_cnt[f] + free_slots_cnt[f] + Cardinality(Workers) <= MaxSlot
        /\ req' = [req EXCEPT ![w] = r]
        /\ Goto(w, CASE r.op = "get" -> "find" [] r.op = "set" -> "update" [] r.op = "del" -> "delete")
    /\ UNCHANGED <<indexvars, index_lock, file_lock, filevars, locals>>

\* The caller takes the result; the locals of the call are gone.
Return(w) ==
    /\ pc[w] = "done"
    /\ Goto(w, "idle")
    /\ req' = [req EXCEPT ![w] = NoRequest]
    /\ iv' = [iv EXCEPT ![w] = NoEntry]
    /\ new_iv' = [new_iv EXCEPT ![w] = NoEntry]
    /\ slot_pos' = [slot_pos EXCEPT ![w] = 0]
    /\ Returns(w, 0)
    /\ out' = [out EXCEPT ![w] = None]
    /\ UNCHANGED <<indexvars, index_lock, file_lock, filevars>>

-----------------------------------------------------------------------------
(* find_block()                                                            *)

\* SH_LOCK_IDX and find_record(), then slab_alloc() for the value.
FindRecord(w) ==
    /\ pc[w] = "find"
    /\ ShareIndex(w)
    /\ Record(w) # None
    /\ iv' = [iv EXCEPT ![w] = Record(w)]
    /\ Goto(w, "find_file")
    /\ UNCHANGED <<indexvars, file_lock, filevars, req, new_iv, slot_pos, ret, out>>

\* The defect "look the key up without the index lock".
FindNothingUnlocked(w) ==
    /\ pc[w] = "find"
    /\ Record(w) = None /\ Returns(w, DB_NOTFOUND)
    /\ Goto(w, "done")
    /\ UNCHANGED <<indexvars, index_lock, file_lock, filevars, req, iv, new_iv, slot_pos, out>>

\* SH_LOCK_IDX, a key that is not there or an index that fails, SH_UNLOCK_IDX.
FindNothing(w) ==
    /\ pc[w] = "find"
    /\ CanShare(index_lock[req[w].bucket])
    /\ \/ Record(w) = None /\ Returns(w, DB_NOTFOUND)
       \/ MayFail("find") /\ Returns(w, -1)
    /\ Goto(w, "done")
    /\ UNCHANGED <<indexvars, index_lock, file_lock, filevars, req, iv, new_iv, slot_pos, out>>

\* slab_alloc() returns NULL: find_block() leaves with the index lock shared.
FindNoMemory(w) ==
    /\ pc[w] = "find"
    /\ MayFail("nomem")
    /\ ShareIndex(w)
    /\ Record(w) # None
    /\ Returns(w, -1)
    /\ Goto(w, "done")
    /\ UNCHANGED <<indexvars, file_lock, filevars, req, iv, new_iv, slot_pos, out>>

\* The defect "release the index lock and read without the file lock".
FindSkipsFileLock(w) ==
    /\ pc[w] = "find_file"
    /\ UnshareIndex(w)
    /\ Goto(w, "find_read")
    /\ UNCHANGED <<indexvars, file_lock, filevars, req, locals>>

\* SH_LOCK on the file before SH_UNLOCK_IDX: the slot is never unprotected.
FindLockFile(w) ==
    /\ pc[w] = "find_file"
    /\ CanShare(file_lock[iv[w].block_id])
    /\ file_lock' = [file_lock EXCEPT ![iv[w].block_id] = Share(@, w)]
    /\ UnshareIndex(w)
    /\ Goto(w, "find_read")
    /\ UNCHANGED <<indexvars, filevars, req, locals>>

\* The defect "return without SH_UNLOCK".
FindReadKeepsLock(w) ==
    /\ pc[w] = "find_read"
    /\ out' = [out EXCEPT ![w] = content[iv[w].block_id][iv[w].offset]]
    /\ Goto(w, "done")
    /\ UNCHANGED <<indexvars, index_lock, file_lock, filevars, req, iv, new_iv, slot_pos, ret>>

\* pread() and SH_UNLOCK.
FindRead(w) ==
    /\ pc[w] = "find_read"
    /\ file_lock' = [file_lock EXCEPT ![iv[w].block_id] = Unshare(@, w)]
    /\ \/ out' = [out EXCEPT ![w] = content[iv[w].block_id][iv[w].offset]] /\ UNCHANGED ret
       \/ MayFail("pread") /\ Returns(w, -1) /\ UNCHANGED out
    /\ Goto(w, "done")
    /\ UNCHANGED <<indexvars, index_lock, filevars, req, iv, new_iv, slot_pos>>

-----------------------------------------------------------------------------
(* update_block() and delete_block(): EX_LOCK_IDX and find_record().       *)

NewBlock(w) == NewBlockId(DataSize[req[w].data])

\* The data of w's set fits a block of file f; sizes are compared as size_t.
Fits(w, f) == DataSize[req[w].data] <= block_size_array[f]

\* The record exists: it is rewritten in place if the data fits its block,
\* and otherwise deleted and appended to a larger block file.
UpdateFound(w) ==
    /\ pc[w] = "update"
    /\ OwnIndex(w)
    /\ Record(w) # None
    /\ iv' = [iv EXCEPT ![w] = Record(w)]
    /\ Goto(w, IF Fits(w, Record(w).block_id) THEN "modify" ELSE "delete_record")
    /\ UNCHANGED <<indexvars, file_lock, filevars, req, new_iv, slot_pos, ret, out>>

\* The record does not exist.  Data too large for every block file leaves
\* with ret still 0.
UpdateNotFound(w) ==
    /\ pc[w] = "update"
    /\ OwnIndex(w)
    /\ Record(w) = None
    /\ Goto(w, IF NewBlock(w) < 0 THEN "unlock" ELSE "append")
    /\ UNCHANGED <<indexvars, file_lock, filevars, req, locals>>

DeleteFound(w) ==
    /\ pc[w] = "delete"
    /\ OwnIndex(w)
    /\ Record(w) # None
    /\ iv' = [iv EXCEPT ![w] = Record(w)]
    /\ Goto(w, "delete_record")
    /\ UNCHANGED <<indexvars, file_lock, filevars, req, new_iv, slot_pos, ret, out>>

DeleteNotFound(w) ==
    /\ pc[w] = "delete"
    /\ OwnIndex(w)
    /\ Record(w) = None
    /\ Returns(w, DB_NOTFOUND)
    /\ Goto(w, "unlock")
    /\ UNCHANGED <<indexvars, file_lock, filevars, req, iv, new_iv, slot_pos, out>>

\* The defect "forget EX_UNLOCK_IDX on the error path".
LookupFailsLocked(w) ==
    /\ pc[w] \in {"update", "delete"}
    /\ MayFail("find")
    /\ OwnIndex(w)
    /\ Returns(w, -1)
    /\ Goto(w, "done")
    /\ UNCHANGED <<indexvars, file_lock, filevars, req, iv, new_iv, slot_pos, out>>

\* find_record() fails, in either function.
LookupFails(w) ==
    /\ pc[w] \in {"update", "delete"}
    /\ MayFail("find")
    /\ OwnIndex(w)
    /\ Returns(w, -1)
    /\ Goto(w, "unlock")
    /\ UNCHANGED <<indexvars, file_lock, filevars, req, iv, new_iv, slot_pos, out>>

\* EX_UNLOCK_IDX, and the function returns.
UnlockIndex(w) ==
    /\ pc[w] = "unlock"
    /\ DisownIndex(w)
    /\ Goto(w, "done")
    /\ UNCHANGED <<indexvars, file_lock, filevars, req, locals>>

-----------------------------------------------------------------------------
(* modify_block()                                                          *)

\* EX_LOCK, and pwrite() starts to overwrite the block.
ModifyStart(w) ==
    LET f == iv[w].block_id IN
    /\ pc[w] = "modify"
    /\ CanOwn(file_lock[f])
    /\ file_lock' = [file_lock EXCEPT ![f] = Own(@, w)]
    /\ content' = [content EXCEPT ![f][iv[w].offset] = Torn]
    /\ Goto(w, "modify_write")
    /\ UNCHANGED <<indexvars, index_lock, block_cnt, free_slots_cnt, free_slots_offset, disk_hdr,
                   disk_slots, req, locals>>

\* The defect "leave the old crc32 and data_size in the index entry".
ModifyWriteStaleEntry(w) ==
    LET f == iv[w].block_id IN
    /\ pc[w] = "modify_write"
    /\ content' = [content EXCEPT ![f][iv[w].offset] = req[w].data]
    /\ file_lock' = [file_lock EXCEPT ![f] = Disown(@, w)]
    /\ Goto(w, "modify_put")
    /\ UNCHANGED <<indexvars, index_lock, block_cnt, free_slots_cnt, free_slots_offset, disk_hdr,
                   disk_slots, req, locals>>

\* pwrite() ends, EX_UNLOCK; the new crc32 and size go to iv.
ModifyWrite(w) ==
    LET f == iv[w].block_id IN
    /\ pc[w] = "modify_write"
    /\ content' = [content EXCEPT ![f][iv[w].offset] = req[w].data]
    /\ file_lock' = [file_lock EXCEPT ![f] = Disown(@, w)]
    /\ iv' = [iv EXCEPT ![w] = [crc32 |-> req[w].data, block_id |-> f, offset |-> iv[w].offset,
                                data_size |-> DataSize[req[w].data]]]
    /\ Goto(w, "modify_put")
    /\ UNCHANGED <<indexvars, index_lock, block_cnt, free_slots_cnt, free_slots_offset, disk_hdr,
                   disk_slots, req, new_iv, slot_pos, ret, out>>

\* assert(retno == 0) after a pwrite() that fails.
ModifyAborts(w) ==
    /\ pc[w] = "modify_write"
    /\ MayFail("pwrite")
    /\ Abort

\* The journal entry, then insert_record().
ModifyPut(w) ==
    /\ pc[w] = "modify_put"
    /\ JournalAppend(w, iv[w])
    /\ \/ index' = [index EXCEPT ![req[w].bucket][req[w].key] = iv[w]] /\ UNCHANGED ret
       \/ MayFail("put") /\ Returns(w, -1) /\ UNCHANGED index
    /\ Goto(w, "unlock")
    /\ UNCHANGED <<index_lock, file_lock, filevars, req, iv, new_iv, slot_pos, out>>

-----------------------------------------------------------------------------
(* do_delete_block(), for delete_block() and for an update that outgrows   *)
(* its block.                                                              *)

\* What follows do_delete_block() in its caller: delete_block() unlocks, and
\* update_block() appends; append_block() refuses the block_id -1.
AfterDelete(w) ==
    IF req[w].op = "del"
    THEN Goto(w, "unlock") /\ UNCHANGED ret
    ELSE IF NewBlock(w) < 0
         THEN Goto(w, "unlock") /\ Returns(w, -3)
         ELSE Goto(w, "append") /\ UNCHANGED ret

\* The journal entry, then del_record().
DeleteRecord(w) ==
    /\ pc[w] = "delete_record"
    /\ JournalAppend(w, None)
    /\ \/ /\ index' = [index EXCEPT ![req[w].bucket][req[w].key] = None]
          /\ Goto(w, "delete_slot")
          /\ UNCHANGED ret
       \/ /\ MayFail("del")
          /\ Returns(w, IF req[w].op = "del" THEN -1 ELSE -2)
          /\ Goto(w, "unlock")
          /\ UNCHANGED index
    /\ UNCHANGED <<index_lock, file_lock, filevars, req, iv, new_iv, slot_pos, out>>

\* The defect "no test for a full free list".
FreeSlotUnbounded(w) ==
    LET f == iv[w].block_id IN
    /\ pc[w] = "delete_slot"
    /\ CanOwn(file_lock[f])
    /\ block_cnt' = [block_cnt EXCEPT ![f] = @ - 1]
    /\ slot_pos' = [slot_pos EXCEPT ![w] = free_slots_cnt[f]]
    /\ free_slots_offset' = [free_slots_offset EXCEPT ![f][free_slots_cnt[f]] = iv[w].offset]
    /\ free_slots_cnt' = [free_slots_cnt EXCEPT ![f] = @ + 1]
    /\ Goto(w, "delete_header")
    /\ UNCHANGED <<indexvars, index_lock, file_lock, content, disk_hdr, disk_slots, req, iv,
                   new_iv, ret, out>>

\* EX_LOCK, the slot goes to the free list, EX_UNLOCK.
FreeSlot(w) ==
    LET f == iv[w].block_id IN
    /\ pc[w] = "delete_slot"
    /\ CanOwn(file_lock[f])
    /\ free_slots_cnt[f] < MAX_FREE_SLOTS
    /\ block_cnt' = [block_cnt EXCEPT ![f] = @ - 1]
    /\ slot_pos' = [slot_pos EXCEPT ![w] = free_slots_cnt[f]]
    /\ free_slots_offset' = [free_slots_offset EXCEPT ![f][free_slots_cnt[f]] = iv[w].offset]
    /\ free_slots_cnt' = [free_slots_cnt EXCEPT ![f] = @ + 1]
    /\ Goto(w, "delete_header")
    /\ UNCHANGED <<indexvars, index_lock, file_lock, content, disk_hdr, disk_slots, req, iv,
                   new_iv, ret, out>>

\* EX_LOCK, the free list is full, EX_UNLOCK: the slot is leaked, and still
\* counted in block_cnt.
LeakSlot(w) ==
    LET f == iv[w].block_id IN
    /\ pc[w] = "delete_slot"
    /\ CanOwn(file_lock[f])
    /\ free_slots_cnt[f] >= MAX_FREE_SLOTS
    /\ AfterDelete(w)
    /\ UNCHANGED <<indexvars, index_lock, file_lock, filevars, req, iv, new_iv, slot_pos, out>>

\* The defect "do not write the header after a delete".
DeleteSkipsHeader(w) ==
    /\ pc[w] = "delete_header"
    /\ Goto(w, "delete_sync_slot")
    /\ UNCHANGED <<indexvars, index_lock, file_lock, filevars, req, locals>>

\* sync_data_file_header(), with the file lock released.
DeleteSyncHeader(w) ==
    LET f == iv[w].block_id IN
    /\ pc[w] = "delete_header"
    /\ \/ \E h \in RacyHeaders(f, Workers \ {w}) : disk_hdr' = [disk_hdr EXCEPT ![f] = h]
       \/ MayFail("hwrite") /\ UNCHANGED disk_hdr
    /\ Goto(w, "delete_sync_slot")
    /\ UNCHANGED <<indexvars, index_lock, file_lock, block_cnt, free_slots_cnt, free_slots_offset,
                   content, disk_slots, req, locals>>

\* sync_data_file() of one entry of free_slots_offset, with the file lock
\* released: what is written is what the entry holds by now.
DeleteSyncSlot(w) ==
    LET f == iv[w].block_id IN
    /\ pc[w] = "delete_sync_slot"
    /\ \/ disk_slots' = [disk_slots EXCEPT ![f][slot_pos[w]] = free_slots_offset[f][slot_pos[w]]]
       \/ MayFail("hwrite") /\ UNCHANGED disk_slots
    /\ AfterDelete(w)
    /\ UNCHANGED <<indexvars, index_lock, file_lock, block_cnt, free_slots_cnt, free_slots_offset,
                   content, disk_hdr, req, iv, new_iv, slot_pos, out>>

-----------------------------------------------------------------------------
(* append_block()                                                          *)

\* The index_value_t of a record at this slot.
NewValue(w, offset) ==
    [crc32 |-> req[w].data, block_id |-> NewBlock(w), offset |-> offset,
     data_size |-> DataSize[req[w].data]]

\* assert(data_size <= block_size_array[block_id]): calc_block_size() chose a
\* block for the signed (int)data_size, and the data is larger.
AppendAborts(w) ==
    /\ pc[w] = "append"
    /\ ~ Fits(w, NewBlock(w))
    /\ Abort

\* The defect "leave the slot on the free list".
ReuseSlotKeepsEntry(w) ==
    LET f == NewBlock(w)
        p == free_slots_cnt[f] - 1
    IN
    /\ pc[w] = "append"
    /\ Fits(w, f)
    /\ CanOwn(file_lock[f])
    /\ free_slots_cnt[f] # 0
    /\ file_lock' = [file_lock EXCEPT ![f] = Own(@, w)]
    /\ new_iv' = [new_iv EXCEPT ![w] = NewValue(w, free_slots_offset[f][p])]
    /\ block_cnt' = [block_cnt EXCEPT ![f] = @ + 1]
    /\ content' = [content EXCEPT ![f][free_slots_offset[f][p]] = Torn]
    /\ Goto(w, "append_reuse")
    /\ UNCHANGED <<indexvars, index_lock, free_slots_cnt, free_slots_offset, disk_hdr, disk_slots, req,
                   iv, slot_pos, ret, out>>

\* The defect "take a slot off the free list and do not count the block".
ReuseSlotUncounted(w) ==
    LET f == NewBlock(w)
        p == free_slots_cnt[f] - 1
    IN
    /\ pc[w] = "append"
    /\ Fits(w, f)
    /\ CanOwn(file_lock[f])
    /\ free_slots_cnt[f] # 0
    /\ file_lock' = [file_lock EXCEPT ![f] = Own(@, w)]
    /\ new_iv' = [new_iv EXCEPT ![w] = NewValue(w, free_slots_offset[f][p])]
    /\ free_slots_offset' = [free_slots_offset EXCEPT ![f][p] = 0]
    /\ free_slots_cnt' = [free_slots_cnt EXCEPT ![f] = p]
    /\ content' = [content EXCEPT ![f][free_slots_offset[f][p]] = Torn]
    /\ Goto(w, "append_reuse")
    /\ UNCHANGED <<indexvars, index_lock, block_cnt, disk_hdr, disk_slots, req, iv, slot_pos, ret, out>>

\* EX_LOCK and the last free slot, to which pwrite() starts to write.
ReuseSlot(w) ==
    LET f == NewBlock(w)
        p == free_slots_cnt[f] - 1
    IN
    /\ pc[w] = "append"
    /\ Fits(w, f)
    /\ CanOwn(file_lock[f])
    /\ free_slots_cnt[f] # 0
    /\ file_lock' = [file_lock EXCEPT ![f] = Own(@, w)]
    /\ new_iv' = [new_iv EXCEPT ![w] = NewValue(w, free_slots_offset[f][p])]
    /\ free_slots_offset' = [free_slots_offset EXCEPT ![f][p] = 0]
    /\ free_slots_cnt' = [free_slots_cnt EXCEPT ![f] = p]
    /\ block_cnt' = [block_cnt EXCEPT ![f] = @ + 1]
    /\ content' = [content EXCEPT ![f][free_slots_offset[f][p]] = Torn]
    /\ Goto(w, "append_reuse")
    /\ UNCHANGED <<indexvars, index_lock, disk_hdr, disk_slots, req, iv, slot_pos, ret, out>>

\* EX_LOCK and, with no free slot, a slot at the end of the file.
GrowFile(w) ==
    LET f == NewBlock(w)
        s == block_cnt[f] + 1
    IN
    /\ pc[w] = "append"
    /\ Fits(w, f)
    /\ CanOwn(file_lock[f])
    /\ free_slots_cnt[f] = 0
    /\ s \in Slots
    /\ file_lock' = [file_lock EXCEPT ![f] = Own(@, w)]
    /\ new_iv' = [new_iv EXCEPT ![w] = NewValue(w, s)]
    /\ block_cnt' = [block_cnt EXCEPT ![f] = s]
    /\ content' = [content EXCEPT ![f][s] = Torn]
    /\ Goto(w, "append_grow")
    /\ UNCHANGED <<indexvars, index_lock, free_slots_cnt, free_slots_offset, disk_hdr, disk_slots,
                   req, iv, slot_pos, ret, out>>

\* The header and the data are written, EX_UNLOCK.  Neither result is looked
\* at: a record whose data was not written is indexed all the same.
AppendWrite(w) ==
    LET f == new_iv[w].block_id IN
    /\ pc[w] \in {"append_reuse", "append_grow"}
    /\ \/ disk_hdr' = [disk_hdr EXCEPT ![f] = CurrentHeader(f)]
       \/ MayFail("hwrite") /\ UNCHANGED disk_hdr
    /\ \/ content' = [content EXCEPT ![f][new_iv[w].offset] = req[w].data]
       \/ MayFail("pwrite") /\ UNCHANGED content
    /\ file_lock' = [file_lock EXCEPT ![f] = Disown(@, w)]
    /\ Goto(w, "append_put")
    /\ UNCHANGED <<indexvars, index_lock, block_cnt, free_slots_cnt, free_slots_offset, disk_slots,
                   req, locals>>

\* The journal entry, then insert_record(), whose failure is not reported:
\* append_block() returns 0.
AppendPut(w) ==
    /\ pc[w] = "append_put"
    /\ JournalAppend(w, new_iv[w])
    /\ \/ index' = [index EXCEPT ![req[w].bucket][req[w].key] = new_iv[w]]
       \/ MayFail("put") /\ UNCHANGED index
    /\ Goto(w, "unlock")
    /\ UNCHANGED <<index_lock, file_lock, filevars, req, locals>>

-----------------------------------------------------------------------------
\* sync_storage(bsp, "all"), by the thread that serves "sync": the headers of
\* the data files are written without their locks.
sync_storage(f) ==
    /\ \A w \in Workers : pc[w] # "abort"
    /\ \E h \in RacyHeaders(f, Workers) : disk_hdr' = [disk_hdr EXCEPT ![f] = h]
    /\ UNCHANGED <<indexvars, index_lock, file_lock, block_cnt, free_slots_cnt, free_slots_offset,
                   content, disk_slots, pc, req, locals>>

find_block(w) == FindRecord(w) \/ FindNothing(w) \/ FindNoMemory(w) \/ FindLockFile(w) \/ FindRead(w)

modify_block(w) == ModifyStart(w) \/ ModifyWrite(w) \/ ModifyAborts(w) \/ ModifyPut(w)

append_block(w) == AppendAborts(w) \/ ReuseSlot(w) \/ GrowFile(w) \/ AppendWrite(w) \/ AppendPut(w)

do_delete_block(w) ==
    DeleteRecord(w) \/ FreeSlot(w) \/ LeakSlot(w) \/ DeleteSyncHeader(w) \/ DeleteSyncSlot(w)

Update_or_delete(w) ==
    \/ UpdateFound(w) \/ UpdateNotFound(w) \/ DeleteFound(w) \/ DeleteNotFound(w)
    \/ LookupFails(w) \/ UnlockIndex(w)

Work(w) ==
    \/ find_block(w) \/ modify_block(w) \/ append_block(w) \/ do_delete_block(w)
    \/ Update_or_delete(w) \/ Return(w)

Next ==
    \/ \E w \in Workers : Call(w) \/ Work(w)
    \/ \E f \in Files : sync_storage(f)

Spec == Init /\ [][Next]_vars

\* A worker in the middle of a call is scheduled, and a reader gets each lock
\* it waits for (ReadersGetIn of RWLock).  A writer is owed a lock only once
\* the lock stays free; nobody has to call.
Fairness ==
    \A w \in Workers :
        /\ WF_vars(Work(w))
        /\ SF_vars(FindRecord(w) \/ FindNothing(w))
        /\ SF_vars(FindLockFile(w))

FairSpec == Spec /\ Fairness

-----------------------------------------------------------------------------
Places ==
    {"idle", "done", "abort", "find", "find_file", "find_read", "update", "delete", "unlock",
     "modify", "modify_write", "modify_put", "delete_record", "delete_slot", "delete_header",
     "delete_sync_slot", "append", "append_reuse", "append_grow", "append_put"}

\* Every variable keeps its type; in particular no offset leaves its file and
\* no position leaves free_slots_offset.  (-4 is what append_block()'s refusal of
\* a new record in a closing storage makes of ret: module Recovery.)
TypeOK ==
    /\ index \in [Buckets -> [Keys -> Entry \cup {None}]]
    /\ journal \in [Buckets -> [Keys -> Entry \cup {None}]]
    /\ index_lock \in [Buckets -> LockType(Workers)]
    /\ file_lock \in [Files -> LockType(Workers)]
    /\ block_cnt \in [Files -> Int]
    /\ free_slots_cnt \in [Files -> 0 .. MAX_FREE_SLOTS]
    /\ free_slots_offset \in [Files -> [Positions -> 0 .. MaxSlot]]
    /\ content \in [Files -> [Slots -> Data \cup {None, Torn}]]
    /\ disk_hdr \in [Files -> [block_cnt: Int, free_slots_cnt: Int]]
    /\ disk_slots \in [Files -> [Positions -> 0 .. MaxSlot]]
    /\ pc \in [Workers -> Places]
    /\ req \in [Workers -> Requests \cup {NoRequest}]
    /\ iv \in [Workers -> Entry \cup {NoEntry}]
    /\ new_iv \in [Workers -> Entry \cup {NoEntry}]
    /\ slot_pos \in [Workers -> Positions]
    /\ ret \in [Workers -> {0, -1, -2, -3, -4, DB_NOTFOUND}]
    /\ out \in [Workers -> Data \cup {None, Torn}]

\* A worker that is not executing a call holds no lock: whatever fails, every
\* path through find_block(), update_block() and delete_block() gives back what
\* it took, but for the shared index lock that find_block() keeps when it
\* cannot allocate the value.
LocksReturned ==
    \A w \in Workers : pc[w] = "idle" =>
        /\ \A b \in Buckets : w \notin index_lock[b].wr
        /\ \A b \in Buckets : index_lock[b].rd[w] = 0 \/ MayFail("nomem")
        /\ \A f \in Files : w \notin file_lock[f].wr /\ file_lock[f].rd[w] = 0

\* The slot (f, s) belongs to the record of key k in bucket b, is on the free
\* list at position p, or is held by worker w that has taken it from the free
\* list or the index and has not put it in the other yet.
Live(f, s, b, k) == index[b][k] # None /\ index[b][k].block_id = f /\ index[b][k].offset = s
Free(f, s, p) == p < free_slots_cnt[f] /\ free_slots_offset[f][p] = s
Held(f, s, w) ==
    \/ /\ pc[w] \in {"append_reuse", "append_grow", "append_put"}
       /\ new_iv[w].block_id = f /\ new_iv[w].offset = s
    \/ pc[w] = "delete_slot" /\ iv[w].block_id = f /\ iv[w].offset = s

\* No two records share a slot, no slot in use is on the free list, none is
\* there twice, and none is held by two workers: whatever bucket they serve.
NoSharedSlot ==
    \A f \in Files, s \in Slots :
        /\ \A b1, b2 \in Buckets, k1, k2 \in Keys :
             Live(f, s, b1, k1) /\ Live(f, s, b2, k2) => b1 = b2 /\ k1 = k2
        /\ \A p1, p2 \in Positions : Free(f, s, p1) /\ Free(f, s, p2) => p1 = p2
        /\ \A w1, w2 \in Workers : Held(f, s, w1) /\ Held(f, s, w2) => w1 = w2
        /\ \A b \in Buckets, k \in Keys, p \in Positions : ~ (Live(f, s, b, k) /\ Free(f, s, p))
        /\ \A b \in Buckets, k \in Keys, w \in Workers : ~ (Live(f, s, b, k) /\ Held(f, s, w))
        /\ \A p \in Positions, w \in Workers : ~ (Free(f, s, p) /\ Held(f, s, w))

\* w is rewriting the record of key k in place.
Rewriting(w, b, k) ==
    pc[w] \in {"modify_write", "modify_put"} /\ req[w].bucket = b /\ req[w].key = k

\* The block of a record holds the data its index entry was computed from,
\* at the length it says, unless the record is being rewritten right now.
IndexedDataIntact ==
    \A b \in Buckets, k \in Keys :
        LET e == index[b][k] IN
        e # None /\ (\A w \in Workers : ~ Rewriting(w, b, k)) =>
            /\ content[e.block_id][e.offset] = e.crc32
            /\ e.data_size = DataSize[e.crc32] /\ e.data_size <= block_size_array[e.block_id]

\* find_block() has released the index lock and not read the block yet: the
\* block still holds the record it looked up, although that record may have
\* been deleted, and its slot given to another key, in the meantime.
ReaderSlotStable ==
    \A w \in Workers :
        pc[w] = "find_read" => content[iv[w].block_id][iv[w].offset] = iv[w].crc32

\* An update_block() about to return 0 has stored the value: it is indexed
\* and in its block.
StoredIsReadable ==
    \A w \in Workers :
        pc[w] = "unlock" /\ req[w].op = "set" /\ ret[w] = 0 =>
            /\ Record(w) # None
            /\ content[Record(w).block_id][Record(w).offset] = req[w].data

\* Replaying a bucket's journal gives its index, whenever nobody is updating
\* the bucket.
JournalMatchesIndex ==
    \A b \in Buckets : index_lock[b].wr = {} => journal[b] = index[b]

\* The counters on disk are those in memory as soon as every worker that
\* changed them has written them, whatever stale or mixed values the unlocked
\* writes of do_delete_block() and sync_storage() put there in between; the
\* same for the entries of free_slots_offset in use.
DiskHeaderSettles ==
    \A f \in Files :
        /\ Changing(f, Workers) = {} => disk_hdr[f] = CurrentHeader(f)
        /\ (\A w \in Workers : pc[w] \in {"delete_header", "delete_sync_slot"} => iv[w].block_id # f)
             => \A p \in Positions : p < free_slots_cnt[f] => disk_slots[f][p] = free_slots_offset[f][p]

\* With nobody at work, block_cnt counts the records of the file, as long as
\* the free list never overflowed.
BlocksCounted ==
    (\A w \in Workers : pc[w] = "idle") =>
        \A f \in Files :
            block_cnt[f] = Cardinality({bk \in Buckets \X Keys :
                               index[bk[1]][bk[2]] # None /\ index[bk[1]][bk[2]].block_id = f})

\* A find_block() always returns, however the other workers interleave, when
\* the storage has one bucket, as in the data node.
GetsReturn == \A w \in Workers : pc[w] = "find" ~> pc[w] = "done"

\* A worker that has the index lock of the only bucket to itself goes on to
\* release it: it cannot wait forever for a file lock.
OwnersFinish ==
    \A w \in Workers : (\E b \in Buckets : w \in index_lock[b].wr) ~> pc[w] = "done"

\* With one bucket no call that shares or owns a lock is left behind: gets
\* return, and updates that have the index lock finish.
CallsFinish == GetsReturn /\ OwnersFinish

-----------------------------------------------------------------------------
(* The storage implements KVStore.  A get takes effect when it looks the   *)
(* key up, a set when it puts the index entry, a del when it removes it.   *)

Applied(w) ==
    \/ pc[w] \in {"unlock", "done", "find_file", "find_read"}
    \/ req[w].op = "del" /\ pc[w] \in {"delete_slot", "delete_header", "delete_sync_slot"}

statusBar ==
    [w \in Workers |-> IF pc[w] = "idle" THEN "idle" ELSE IF Applied(w) THEN "applied" ELSE "called"]

resultBar ==
    [w \in Workers |->
        [ret |-> ret[w], value |-> IF pc[w] \in {"find_file", "find_read"} THEN iv[w].crc32 ELSE out[w]]]

\* A set that outgrows its block has removed the old record and not put the
\* new one yet; its callers still have to see the old value.
Moving(w, b, k) ==
    /\ req[w].op = "set" /\ req[w].bucket = b /\ req[w].key = k
    /\ pc[w] \in {"delete_slot", "delete_header", "delete_sync_slot", "append", "append_reuse",
                  "append_grow", "append_put"}

mapBar ==
    [b \in Buckets |-> [k \in Keys |->
        IF \E w \in Workers : Moving(w, b, k)
        THEN iv[CHOOSE w \in Workers : Moving(w, b, k)].crc32
        ELSE IF index[b][k] = None THEN None ELSE index[b][k].crc32]]

KV == INSTANCE KVStore WITH map <- mapBar, status <- statusBar, request <- req, result <- resultBar

\* Every call of find_block(), update_block() and delete_block() appears to
\* take effect at one moment between its invocation and its return.
Linearizable == KV!Spec
=============================================================================
