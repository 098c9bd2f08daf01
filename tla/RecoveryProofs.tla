-------------------------- MODULE RecoveryProofs --------------------------
(***************************************************************************)
(* Proofs about Recovery, for any finite set of workers and any keys,      *)
(* values, block sizes and bounds, and for any number of processes that    *)
(* open the directory one after the other.                                 *)
(***************************************************************************)
EXTENDS Recovery, StorageDataProofs

-----------------------------------------------------------------------------
(* The inductive invariant.                                                *)

\* The storage is open: open_storage() has returned.
Loaded == phase \in {"up", "closing_files", "closing_index", "exiting"}

\* Which data files the process has, and in what state they are.
FilesInv ==
    /\ phase \in Phases
    /\ opened \subseteq Files
    /\ file_state \in [Files -> {"absent", "short", "whole"}]
    /\ \A f \in opened : file_state[f] = "whole"
    /\ Loaded => opened = Files
    /\ phase = "creating" => opened # Files /\ file_state[NextFile] = "short"

\* The index on disk refers to slots of the files.
DiskIndexOK ==
    /\ index_disk \in [Buckets -> [Keys -> Entry \cup {None}]]
    /\ \A b \in Buckets, k \in Keys : index_disk[b][k] # None => index_disk[b][k].offset \in Slots

\* The counters of a worker that appends are ahead of the header on disk by
\* its own block.  The slot it reuses is still the last one of the free list on
\* disk; the slot it adds is the last one of the file.
ReuseOnDisk(w) ==
    LET f == new_iv[w].block_id IN
    pc[w] = "append_reuse" =>
        free_slots_cnt[f] \in Positions /\ disk_slots[f][free_slots_cnt[f]] = new_iv[w].offset
GrownLast(w) ==
    LET f == new_iv[w].block_id IN
    pc[w] = "append_grow" => free_slots_cnt[f] = 0 /\ new_iv[w].offset = block_cnt[f]
AppendsOK == \A w \in Workers : ReuseOnDisk(w) /\ GrownLast(w)

\* What a worker has written, and the entry it is about to index.
Wrote(w) ==
    /\ pc[w] = "modify_put" =>
         iv[w].crc32 = req[w].data /\ content[iv[w].block_id][iv[w].offset] = req[w].data
    /\ pc[w] \in UsingNew => new_iv[w].crc32 = req[w].data
    /\ pc[w] = "append_put" => content[new_iv[w].block_id][new_iv[w].offset] = req[w].data
AllWrote == \A w \in Workers : Wrote(w)

\* Records keep their data, except the victims of a process that died.
DataKept ==
    \A b \in Buckets, k \in Keys :
        index[b][k] # None /\ <<b, k>> \notin victims /\ (\A w \in Workers : ~ Rewriting(w, b, k))
            => content[index[b][k].block_id][index[b][k].offset] = index[b][k].crc32

\* While the storage is open.
WorkInv ==
    /\ SlotInv /\ LockInv /\ NoAbort
    /\ HeaderNear /\ SlotsNear /\ AppendsOK
    /\ AllWrote

\* A position of the free list as it is on disk.
DiskFree(f, s, p) == p < disk_hdr[f].free_slots_cnt /\ disk_slots[f][p] = s

\* The directory can be opened: the free lists and the file ends on disk are
\* apart from the slots that the index refers to.
DiskFile(f) ==
    /\ disk_hdr[f].free_slots_cnt \in 0 .. MAX_FREE_SLOTS
    /\ \A p \in Positions : p < disk_hdr[f].free_slots_cnt => disk_slots[f][p] \in Slots
DiskSlot(f, s) ==
    /\ \A b1, b2 \in Buckets, k1, k2 \in Keys :
         Live(f, s, b1, k1) /\ Live(f, s, b2, k2) => b1 = b2 /\ k1 = k2
    /\ \A p1, p2 \in Positions : DiskFree(f, s, p1) /\ DiskFree(f, s, p2) => p1 = p2
    /\ \A b \in Buckets, k \in Keys, p \in Positions : ~ (Live(f, s, b, k) /\ DiskFree(f, s, p))
    /\ \/ \E b \in Buckets, k \in Keys : Live(f, s, b, k)
       \/ \E p \in Positions : DiskFree(f, s, p)
       => s <= disk_hdr[f].block_cnt + disk_hdr[f].free_slots_cnt
DiskSafe == \A f \in Files : DiskFile(f) /\ \A s \in Slots : DiskSlot(f, s)

\* What is in memory of a data file: nothing, or what its header says.
Blank(f) == block_cnt[f] = 0 /\ free_slots_cnt[f] = 0
Read(f) ==
    /\ disk_hdr[f] = CurrentHeader(f)
    /\ \A p \in Positions : p < free_slots_cnt[f] => disk_slots[f][p] = free_slots_offset[f][p]

\* While it is not: no call, no lock, and no cache.
RestInv ==
    /\ \A w \in Workers : pc[w] = "idle"
    /\ index_lock = [b \in Buckets |-> NewLock(Workers)]
    /\ file_lock = [f \in Files |-> NewLock(Workers)]
    /\ index = index_disk
    /\ DiskSafe
    /\ \A f \in Files : Blank(f) \/ Read(f)
    /\ \A f \in opened : Read(f)
    /\ \A f \in Files : file_state[f] # "whole" => Blank(f) /\ Read(f)

SafeInv ==
    /\ FilesInv
    /\ ~ damaged =>
        /\ TypeInv /\ DiskIndexOK /\ DataKept
        /\ Loaded => WorkInv
        /\ ~ Loaded => RestInv
        /\ phase = "exiting" => index_disk = index

-----------------------------------------------------------------------------
(* The data files of a directory.                                          *)

\* The storage opens the files in the order of their sizes, so there is a next
\* one as long as one is missing.
LEMMA NextFileExists ==
    ASSUME opened \subseteq Files, opened # Files
    PROVE  NextFile \in Files \ opened
<1>1. Files \in SUBSET Nat
  BY BlockSizesAssumption DEF Files
<1>2. \E m \in Files \ opened : \A g \in Files \ opened : m <= g
  <2>1. Files \ opened \in SUBSET Nat /\ Files \ opened # {}
    BY <1>1
  <2> QED
    BY <2>1, LeastNumber
<1> QED
  BY <1>2, Zenon DEF NextFile

\* An empty directory.
LEMMA FilesInit == RInit => FilesInv
  BY DEF RInit, FilesInv, Phases, Loaded

\* What the steps of an open storage leave alone.
LEMMA WorkKeepsFiles ==
    ASSUME \/ \E w \in Workers : \/ Request(w) \/ Serve(w) \/ WriteClosed(w) \/ AppendClosed(w)
                                 \/ ReadClosed(w) \/ Refused(w)
           \/ \E b \in Buckets, k \in Keys : BdbWrites(b, k)
           \/ SyncHeader \/ CloseFile \/ UNCHANGED rvars
    PROVE  UNCHANGED <<phase, opened, file_state>>
<1>1. ASSUME NEW w \in Workers,
             Request(w) \/ Serve(w) \/ WriteClosed(w) \/ AppendClosed(w) \/ ReadClosed(w) \/ Refused(w)
      PROVE  UNCHANGED <<phase, opened, file_state>>
  BY <1>1 DEF Request, Serve, WriteClosed, AppendClosed, ReadClosed, Refused, procvars, diskvars
<1>2. ASSUME NEW b \in Buckets, NEW k \in Keys, BdbWrites(b, k) PROVE UNCHANGED <<phase, opened, file_state>>
  BY <1>2 DEF BdbWrites, procvars
<1>3. CASE SyncHeader \/ CloseFile \/ UNCHANGED rvars
  BY <1>3 DEF SyncHeader, CloseFile, rvars
<1> QED
  BY <1>1, <1>2, <1>3

\* A file is opened when its header is whole, and stays so.
LEMMA FilesStep == FilesInv /\ [RNext]_rvars => FilesInv'
<1> SUFFICES ASSUME FilesInv, [RNext]_rvars PROVE FilesInv'
  OBVIOUS
<1>1. CASE Start
  BY <1>1 DEF Start, FilesInv, Phases, Loaded
<1>2. CASE load_data_file
  <2>1. NextFile \in Files /\ file_state[NextFile] = "whole" /\ phase = "opening"
    BY <1>2, NextFileExists DEF load_data_file, FilesInv
  <2>2. phase' = phase /\ file_state' = file_state /\ opened' = opened \cup {NextFile}
    BY <1>2 DEF load_data_file, diskvars
  <2> QED
    BY <2>1, <2>2 DEF FilesInv, Phases, Loaded
<1>3. CASE create_data_file
  <2>1. NextFile \in Files \ opened /\ phase = "opening"
    BY <1>3, NextFileExists DEF create_data_file, FilesInv
  <2>2. /\ phase' = "creating" /\ opened' = opened /\ opened # Files
        /\ file_state' = [file_state EXCEPT ![NextFile] = "short"]
    BY <1>3 DEF create_data_file
  <2>3. NextFile' = NextFile
    BY <2>2 DEF NextFile
  <2> QED
    BY <2>1, <2>2, <2>3 DEF FilesInv, Phases, Loaded
<1>4. CASE CreateWrite
  <2>1. NextFile \in Files /\ phase = "creating"
    BY <1>4, NextFileExists DEF CreateWrite, FilesInv
  <2>2. /\ phase' = "opening" /\ opened' = opened \cup {NextFile}
        /\ file_state' = [file_state EXCEPT ![NextFile] = "whole"]
    BY <1>4 DEF CreateWrite
  <2> QED
    BY <2>1, <2>2 DEF FilesInv, Phases, Loaded
<1>5. CASE open_index_file \/ OpenFails \/ IndexFails
  BY <1>5 DEF open_index_file, OpenFails, IndexFails, FilesInv, Phases, Loaded
<1>6. CASE SyncIndex \/ FilesClosed \/ close_bdb
  BY <1>6 DEF SyncIndex, FilesClosed, close_bdb, FilesInv, Phases, Loaded
<1>7. CASE Stop \/ UseFreedStorage
  BY <1>7 DEF Stop, UseFreedStorage, EndProcess, FilesInv, Phases, Loaded, diskvars
<1>8. CASE UNCHANGED <<phase, opened, file_state>>
  BY <1>8 DEF FilesInv, Loaded, NextFile
<1> QED
  BY <1>1, <1>2, <1>3, <1>4, <1>5, <1>6, <1>7, <1>8, WorkKeepsFiles
     DEF RNext, open_storage, close_storage

-----------------------------------------------------------------------------
(* The journal of an open storage.                                         *)

\* The journal and the index never fail.
LogsSucceed == {"journal", "put", "del"} \cap Faults = {}

\* An update that changes the index has written the same to the journal.
LEMMA JournalStep ==
    ASSUME LogsSucceed, NEW w \in Workers, Call(w) \/ Work(w), journal = index
    PROVE  journal' = index'
<1>0. ~MayFail("journal") /\ ~MayFail("put") /\ ~MayFail("del")
  BY DEF LogsSucceed, MayFail
<1>1. CASE ModifyPut(w)
  BY <1>0, <1>1 DEF ModifyPut, JournalAppend
<1>2. CASE AppendPut(w)
  BY <1>0, <1>2 DEF AppendPut, JournalAppend
<1>3. CASE DeleteRecord(w)
  BY <1>0, <1>3 DEF DeleteRecord, JournalAppend
<1>4. CASE ~(ModifyPut(w) \/ AppendPut(w) \/ DeleteRecord(w))
  <2>1. UNCHANGED <<index, journal>>
    BY <1>4 DEF Work, find_block, modify_block, append_block, do_delete_block, Update_or_delete, indexvars,
       FindRecord, FindNothing, FindNoMemory, FindLockFile, FindRead, ModifyStart, ModifyWrite, ModifyAborts,
       AppendAborts, Abort, ReuseSlot, GrowFile, AppendWrite, FreeSlot, LeakSlot, DeleteSyncHeader,
       DeleteSyncSlot, UpdateFound, UpdateNotFound, DeleteFound, DeleteNotFound, LookupFails, UnlockIndex,
       Return, Call
  <2> QED
    BY <2>1
<1> QED
  BY <1>1, <1>2, <1>3, <1>4

\* When no write of the journal or of the index fails, the journal, replayed
\* over the index that the process opened, gives its index: nothing of an
\* earlier process is in it, and nothing of this one is missing, even while a
\* halt closes files under a call.
THEOREM JournalStartsAfresh ==
    ASSUME LogsSucceed
    PROVE  RSpec => []JournalMatchesOpenedIndex
<1> DEFINE J == Loaded => journal = index
<1>1. RInit => J
  BY DEF RInit, Loaded
<1>2. J /\ [RNext]_rvars => J'
  <2> SUFFICES ASSUME J, [RNext]_rvars PROVE J'
    OBVIOUS
  <2>1. CASE open_index_file
    BY <2>1 DEF open_index_file, open_transaction_bdb
  <2>2. CASE Start \/ load_data_file \/ create_data_file \/ CreateWrite \/ OpenFails \/ IndexFails
                \/ Stop \/ UseFreedStorage
    BY <2>2 DEF Start, load_data_file, create_data_file, CreateWrite, OpenFails, IndexFails, Stop, UseFreedStorage,
                EndProcess, Loaded
  <2>3. ASSUME NEW w \in Workers, Request(w) \/ Serve(w) PROVE J'
    <3>1. (Call(w) \/ Work(w)) /\ phase' = phase
      BY <2>3 DEF Request, Serve, procvars
    <3> QED
      BY <3>1, JournalStep DEF Loaded
  <2>4. ASSUME NEW w \in Workers, WriteClosed(w) \/ AppendClosed(w) \/ ReadClosed(w) \/ Refused(w) PROVE J'
    BY <2>4 DEF WriteClosed, AppendClosed, ReadClosed, Refused, indexvars, procvars, Loaded
  <2>5. ASSUME NEW b \in Buckets, NEW k \in Keys, BdbWrites(b, k) PROVE J'
    BY <2>5 DEF BdbWrites, vars, procvars, Loaded
  <2>6. CASE SyncIndex \/ SyncHeader \/ CloseFile \/ FilesClosed \/ close_bdb \/ UNCHANGED rvars
    BY <2>6 DEF SyncIndex, SyncHeader, CloseFile, FilesClosed, close_bdb, sync_storage, rvars, vars, indexvars,
       Loaded
  <2> QED
    BY <2>1, <2>2, <2>3, <2>4, <2>5, <2>6 DEF RNext, open_storage, close_storage
<1>3. J => JournalMatchesOpenedIndex
  BY DEF JournalMatchesOpenedIndex, JournalMatchesIndex, Serving, Loaded
<1> QED
  BY <1>1, <1>2, <1>3, PTL DEF RSpec

-----------------------------------------------------------------------------
(* The storage has one bucket: updates come one after the other.           *)

\* There is one index lock, and it has one owner.
LEMMA OneOwner ==
    ASSUME TypeInv, Exclusive, NEW u \in Workers, NEW w \in Workers,
           pc[u] \in Owning, pc[w] \in Owning
    PROVE  u = w
<1>1. req[u].bucket \in Buckets /\ req[w].bucket \in Buckets
  BY RequestOfCall DEF Owning, UsingNew, Deleting
<1>3. PICK b : Buckets = {b}
  BY RecoveryAssumption, FS_Singleton
<1> QED
  BY <1>1, <1>3, OwnersApart

\* While w updates, no step of another worker touches the files or the index.
LEMMA OthersQuiet ==
    ASSUME TypeInv, Exclusive, NEW w \in Workers, pc[w] \in Owning,
           NEW u \in Workers, u # w, Steps(u)
    PROVE  UNCHANGED <<index, block_cnt, free_slots_cnt, free_slots_offset, content, disk_hdr, disk_slots>>
<1>1. pc[u] \notin Owning
  BY OneOwner
<1>2. /\ ~ModifyStart(u) /\ ~ModifyWrite(u) /\ ~ModifyPut(u) /\ ~ReuseSlot(u) /\ ~GrowFile(u)
      /\ ~AppendWrite(u) /\ ~AppendPut(u) /\ ~DeleteRecord(u) /\ ~FreeSlot(u) /\ ~LeakSlot(u)
      /\ ~DeleteSyncHeader(u) /\ ~DeleteSyncSlot(u)
  BY <1>1 DEF Owning, UsingNew, Deleting, ModifyStart, ModifyWrite, ModifyPut, ReuseSlot, GrowFile,
     AppendWrite, AppendPut, DeleteRecord, FreeSlot, LeakSlot, DeleteSyncHeader, DeleteSyncSlot
<1> QED
  BY <1>2 DEF Steps, indexvars, filevars, FindRecord, FindNothing, FindNoMemory, FindLockFile, FindRead,
     UpdateFound, UpdateNotFound, DeleteFound, DeleteNotFound, LookupFails, UnlockIndex, Return, Call

\* Which steps lead to a write of a new block, and to the put of an entry.
LEMMA NewPlaces ==
    ASSUME TypeInv, NEW w \in Workers, Steps(w)
    PROVE  /\ pc'[w] = "append_reuse" => ReuseSlot(w)
           /\ pc'[w] = "append_grow" => GrowFile(w)
           /\ pc'[w] = "append_put" => AppendWrite(w)
           /\ pc'[w] = "modify_put" => ModifyWrite(w)
<1>1. CASE \/ FindRecord(w) \/ FindLockFile(w) \/ UpdateFound(w) \/ DeleteFound(w) \/ ModifyStart(w)
           \/ ModifyWrite(w) \/ ReuseSlot(w) \/ GrowFile(w) \/ AppendWrite(w)
  BY <1>1 DEF FindRecord, FindLockFile, UpdateFound, DeleteFound, ModifyStart, ModifyWrite, ReuseSlot,
     GrowFile, AppendWrite, Goto, TypeInv, TypeOK
<1> QED
  BY <1>1, ForgetfulSteps

\* The header on disk lags behind an append by its own block only.
LEMMA AppendsStep ==
    ASSUME TypeInv, SlotInv, SlotsNear, AppendsOK, NEW w \in Workers, Steps(w)
    PROVE  AppendsOK'
<1>0. /\ pc \in [Workers -> Places] /\ new_iv \in [Workers -> Entry \cup {NoEntry}]
      /\ free_slots_cnt \in [Files -> 0 .. MAX_FREE_SLOTS] /\ block_cnt \in [Files -> Int]
      /\ free_slots_offset \in [Files -> [Positions -> 0 .. MaxSlot]]
  BY DEF TypeInv, TypeOK
<1>1. ASSUME NEW u \in Workers, u # w PROVE ReuseOnDisk(u)' /\ GrownLast(u)'
  <2>1. SamePlace(u)
    BY <1>1, OthersStay
  <2>2. CASE pc[u] \in WritingNew
    <3>1. UNCHANGED <<block_cnt, free_slots_cnt, disk_slots>>
      BY <1>1, <2>2, OthersQuiet DEF SlotInv, WritingNew, Owning, UsingNew
    <3> QED
      BY <2>1, <3>1 DEF AppendsOK, ReuseOnDisk, GrownLast, SamePlace
  <2>3. CASE pc[u] \notin WritingNew
    BY <2>1, <2>3 DEF ReuseOnDisk, GrownLast, SamePlace, WritingNew
  <2> QED
    BY <2>2, <2>3
<1>2. ASSUME ReuseSlot(w) PROVE ReuseOnDisk(w)' /\ GrownLast(w)'
  <2>1. PICK g \in Files : g = NewBlock(w)
    BY <1>2 DEF ReuseSlot, TypeInv, CallsOK
  <2>2. PICK q \in Positions : q = free_slots_cnt[g] - 1 /\ q < free_slots_cnt[g]
    <3>1. free_slots_cnt[g] \in 0 .. MAX_FREE_SLOTS /\ free_slots_cnt[g] # 0 /\ MAX_FREE_SLOTS \in Nat
      BY <1>0, <1>2, <2>1, StorageAssumption DEF ReuseSlot
    <3> QED
      BY <3>1 DEF Positions
  <2>3. /\ pc'[w] = "append_reuse" /\ new_iv'[w].block_id = g
        /\ new_iv'[w].offset = free_slots_offset[g][q] /\ disk_slots' = disk_slots
        /\ free_slots_cnt'[g] = q
    BY <1>0, <1>2, <2>1, <2>2 DEF ReuseSlot, Goto, NewValue
  <2>4. ~SlotPending(g, q)
    <3> SUFFICES ASSUME NEW u \in Workers, pc[u] \in SlotWriter PROVE FALSE
      BY DEF SlotPending
    <3>1. pc[w] = "append" /\ pc[w] \in Owning /\ pc[u] \in Owning
      BY <1>2 DEF ReuseSlot, Owning, Deleting, SlotWriter
    <3> QED
      BY <3>1, OneOwner DEF SlotInv, SlotWriter
  <2>5. disk_slots[g][q] = free_slots_offset[g][q]
    BY <2>2, <2>4 DEF SlotsNear
  <2> QED
    BY <2>2, <2>3, <2>5 DEF ReuseOnDisk, GrownLast
<1>3. ASSUME GrowFile(w) PROVE ReuseOnDisk(w)' /\ GrownLast(w)'
  <2>1. PICK g \in Files : g = NewBlock(w)
    BY <1>3 DEF GrowFile, TypeInv, CallsOK
  <2>2. /\ pc'[w] = "append_grow" /\ new_iv'[w].block_id = g /\ new_iv'[w].offset = block_cnt[g] + 1
        /\ block_cnt'[g] = block_cnt[g] + 1 /\ free_slots_cnt'[g] = 0
    BY <1>0, <1>3, <2>1 DEF GrowFile, Goto, NewValue
  <2> QED
    BY <2>2 DEF ReuseOnDisk, GrownLast
<1>4. ASSUME ~(ReuseSlot(w) \/ GrowFile(w)) PROVE ReuseOnDisk(w)' /\ GrownLast(w)'
  BY <1>4, NewPlaces DEF ReuseOnDisk, GrownLast
<1> QED
  BY <1>1, <1>2, <1>3, <1>4 DEF AppendsOK

\* A worker indexes what it has written.
LEMMA WroteStep ==
    ASSUME WritesSucceed, TypeInv, SlotInv, AllWrote, NEW w \in Workers, Steps(w)
    PROVE  AllWrote'
<1>0. /\ pc \in [Workers -> Places] /\ iv \in [Workers -> Entry \cup {NoEntry}]
      /\ new_iv \in [Workers -> Entry \cup {NoEntry}]
      /\ content \in [Files -> [Slots -> Data \cup {None, Torn}]]
  BY DEF TypeInv, TypeOK
<1>1. ASSUME NEW u \in Workers, u # w PROVE Wrote(u)'
  <2>1. SamePlace(u)
    BY <1>1, OthersStay
  <2>2. CASE pc[u] \in {"modify_put"} \cup UsingNew
    <3>1. UNCHANGED content
      BY <1>1, <2>2, OthersQuiet DEF SlotInv, Owning
    <3> QED
      BY <2>1, <3>1 DEF AllWrote, Wrote, SamePlace
  <2>3. CASE pc[u] \notin {"modify_put"} \cup UsingNew
    BY <2>1, <2>3 DEF Wrote, SamePlace, UsingNew
  <2> QED
    BY <2>2, <2>3
<1>2. ASSUME ModifyWrite(w) PROVE Wrote(w)'
  <2>1. PICK f \in Files, s \in Slots : f = iv[w].block_id /\ s = iv[w].offset
    BY <1>2 DEF ModifyWrite, TypeInv, CallsOK, UsingIv, Entry
  <2>2. /\ pc'[w] = "modify_put" /\ content' = [content EXCEPT ![f][s] = req[w].data] /\ req' = req
        /\ iv'[w].crc32 = req[w].data /\ iv'[w].block_id = f /\ iv'[w].offset = s
    BY <1>0, <1>2, <2>1 DEF ModifyWrite, Goto
  <2>3. content'[f][s] = req[w].data
    BY <1>0, <2>2
  <2> QED
    BY <2>2, <2>3 DEF Wrote, UsingNew
<1>3. ASSUME ReuseSlot(w) \/ GrowFile(w) PROVE Wrote(w)'
  <2>1. pc'[w] \in WritingNew /\ new_iv'[w].crc32 = req[w].data /\ req' = req
    BY <1>0, <1>3 DEF ReuseSlot, GrowFile, Goto, NewValue, WritingNew
  <2> QED
    BY <2>1 DEF Wrote, WritingNew
<1>4. ASSUME AppendWrite(w) PROVE Wrote(w)'
  <2>1. PICK f \in Files, s \in Slots : f = new_iv[w].block_id /\ s = new_iv[w].offset
    BY <1>4 DEF AppendWrite, TypeInv, CallsOK, UsingNew, Entry
  <2>2. /\ pc'[w] = "append_put" /\ content' = [content EXCEPT ![f][s] = req[w].data] /\ req' = req
        /\ new_iv' = new_iv /\ pc[w] \in UsingNew
    BY <1>0, <1>4, <2>1 DEF AppendWrite, Goto, locals, MayFail, WritesSucceed, UsingNew
  <2>3. content'[f][s] = req[w].data
    BY <1>0, <2>2
  <2> QED
    BY <2>1, <2>2, <2>3 DEF AllWrote, Wrote
<1>5. ASSUME ~(ModifyWrite(w) \/ ReuseSlot(w) \/ GrowFile(w) \/ AppendWrite(w)) PROVE Wrote(w)'
  BY <1>5, NewPlaces DEF Wrote, UsingNew
<1> QED
  BY <1>1, <1>2, <1>3, <1>4, <1>5 DEF AllWrote

\* A record that is rewritten stays so until its entry is put.
LEMMA RewritingEnds ==
    ASSUME TypeInv, NEW w \in Workers, Steps(w), NEW b, NEW k,
           \A u \in Workers : ~Rewriting(u, b, k)',
           ~(ModifyPut(w) /\ b = req[w].bucket /\ k = req[w].key)
    PROVE  \A u \in Workers : ~Rewriting(u, b, k)
<1> SUFFICES ASSUME NEW u \in Workers, Rewriting(u, b, k) PROVE FALSE
  OBVIOUS
<1>1. CASE u # w
  <2>1. SamePlace(u)
    BY <1>1, OthersStay
  <2> QED
    BY <2>1 DEF Rewriting, SamePlace
<1>2. CASE u = w
  <2>1. pc[w] \in {"modify_write", "modify_put"} /\ b = req[w].bucket /\ k = req[w].key
    BY <1>2 DEF Rewriting
  <2>2. ModifyWrite(w)
    BY <2>1 DEF Steps, FindRecord, FindNothing, FindNoMemory, FindLockFile, FindRead, ModifyStart,
       ReuseSlot, GrowFile, AppendWrite, AppendPut, DeleteRecord, FreeSlot, LeakSlot,
       DeleteSyncHeader, DeleteSyncSlot, UpdateFound, UpdateNotFound, DeleteFound,
       DeleteNotFound, LookupFails, UnlockIndex, Return, Call
  <2>3. pc'[w] = "modify_put" /\ req' = req
    BY <2>2 DEF ModifyWrite, Goto, TypeInv, TypeOK
  <2> QED
    BY <2>1, <2>3 DEF Rewriting
<1> QED
  BY <1>1, <1>2

\* Records keep their data, through every step of a worker.
LEMMA DataKeptStep ==
    ASSUME WritesSucceed, TypeInv, SlotInv, SlotInv', LockInv, AllWrote, DataKept, UNCHANGED victims,
           NEW w \in Workers, Steps(w)
    PROVE  DataKept'
<1> SUFFICES ASSUME NEW b \in Buckets, NEW k \in Keys, index'[b][k] # None, <<b, k>> \notin victims,
                    \A u \in Workers : ~Rewriting(u, b, k)'
             PROVE  content'[index'[b][k].block_id][index'[b][k].offset] = index'[b][k].crc32
  BY DEF DataKept
<1>1. CASE ModifyPut(w) /\ b = req[w].bucket /\ k = req[w].key
  <2>1. index' = [index EXCEPT ![b][k] = iv[w]]
    BY <1>1 DEF ModifyPut, MayFail, WritesSucceed
  <2>2. index'[b][k] = iv[w]
    BY <2>1 DEF TypeInv, TypeOK
  <2>3. UNCHANGED content
    BY <1>1 DEF ModifyPut, filevars
  <2> QED
    BY <1>1, <2>2, <2>3 DEF ModifyPut, AllWrote, Wrote
<1>2. CASE AppendPut(w) /\ index'[b][k] = new_iv[w]
  <2>1. UNCHANGED content
    BY <1>2 DEF AppendPut, filevars
  <2> QED
    BY <1>2, <2>1 DEF AppendPut, AllWrote, Wrote, UsingNew
<1>3. CASE index'[b][k] = index[b][k] /\ ~(ModifyPut(w) /\ b = req[w].bucket /\ k = req[w].key)
  <2>1. \A u \in Workers : ~Rewriting(u, b, k)
    BY <1>3, RewritingEnds
  <2>2. content[index[b][k].block_id][index[b][k].offset] = index[b][k].crc32
    BY <1>3, <2>1 DEF DataKept
  <2>3. content'[index[b][k].block_id][index[b][k].offset] = content[index[b][k].block_id][index[b][k].offset]
    BY <1>3, LiveBlockStays
  <2> QED
    BY <1>3, <2>2, <2>3
<1> QED
  BY <1>1, <1>2, <1>3, IndexBecomes

-----------------------------------------------------------------------------
(* The steps of an open storage.                                           *)

\* The writes of data, headers and index entries succeed, and no value is
\* larger than an int can say.
DiskWorks == {"pwrite", "put", "hwrite"} \cap Faults = {} /\ SizesFitInt

\* A step of a worker on open files.
LEMMA ServeKeeps ==
    ASSUME DiskWorks, TypeInv, WorkInv, DataKept, UNCHANGED victims,
           NEW w \in Workers, Call(w) \/ Work(w)
    PROVE  TypeInv' /\ WorkInv' /\ DataKept'
<1>0. WritesSucceed /\ "hwrite" \notin Faults /\ "pwrite" \notin Faults /\ SizesFitInt
  BY DEF DiskWorks, WritesSucceed
<1>1. Next
  BY DEF Next
<1>2. TypeInv' /\ SlotInv' /\ NoAbort'
  BY <1>0, <1>1, TypeStep, SlotStep, RunningStep DEF WorkInv
<1>3. Steps(w)
  <2>1. ~Abort
    BY <1>2 DEF Abort, NoAbort
  <2> QED
    BY <2>1, WorkSteps
<1>4. LockInv'
  BY <1>3, LockStep DEF WorkInv
<1>5. HeaderNear' /\ SlotsNear'
  BY <1>0, <1>2, <1>3, HeaderStep, SlotsStep DEF WorkInv
<1>6. AppendsOK' /\ AllWrote'
  BY <1>0, <1>3, AppendsStep, WroteStep DEF WorkInv
<1>7. DataKept'
  BY <1>0, <1>2, <1>3, DataKeptStep DEF WorkInv
<1> QED
  BY <1>2, <1>4, <1>5, <1>6, <1>7 DEF WorkInv

\* The header of a file is written without its lock.
LEMMA SyncKeeps ==
    ASSUME TypeInv, WorkInv, DataKept, UNCHANGED victims, NEW f, sync_storage(f)
    PROVE  TypeInv' /\ WorkInv' /\ DataKept'
<1>1. /\ UNCHANGED <<index, index_lock, file_lock, block_cnt, free_slots_cnt, free_slots_offset, content,
                     disk_slots, pc, req, iv, new_iv, slot_pos>>
      /\ \E h \in RacyHeaders(f, Workers) : disk_hdr' = [disk_hdr EXCEPT ![f] = h]
  BY DEF sync_storage, indexvars, locals
<1>2. [Next]_vars
  <2>1. CASE f \in Files
    BY <2>1 DEF Next
  <2>2. CASE f \notin Files
    <3>1. disk_hdr' = disk_hdr
      BY <1>1, <2>2 DEF TypeInv, TypeOK
    <3> QED
      BY <1>1, <3>1 DEF sync_storage, vars, indexvars, locals
  <2> QED
    BY <2>1, <2>2
<1>3. TypeInv' /\ SlotInv'
  BY <1>2, TypeStep, SlotStep DEF WorkInv
<1>4. \A g : RacyHeaders(g, Workers)' = RacyHeaders(g, Workers)
  BY <1>1 DEF RacyHeaders, Reusing, Growing, Freeing
<1>5. HeaderNear'
  <2>1. \A g \in Files : disk_hdr'[g] = disk_hdr[g] \/ disk_hdr'[g] \in RacyHeaders(g, Workers)
    BY <1>1 DEF TypeInv, TypeOK
  <2> QED
    BY <1>4, <2>1 DEF HeaderNear, WorkInv
<1>6. SlotsNear' /\ AppendsOK' /\ AllWrote' /\ LockInv' /\ NoAbort' /\ DataKept'
  BY <1>1 DEF WorkInv, SlotsNear, SlotPending, AppendsOK, ReuseOnDisk, GrownLast, AllWrote, Wrote, LockInv,
     LocksApart, Apart, AllLocked, Locked, NoAbort, DataKept, Rewriting
<1> QED
  BY <1>3, <1>5, <1>6 DEF WorkInv

\* A step that leaves the storage alone keeps what is known of it.
LEMMA StillWork ==
    ASSUME WorkInv,
           UNCHANGED <<index, index_lock, file_lock, block_cnt, free_slots_cnt, free_slots_offset, content,
                       disk_hdr, disk_slots, pc, req, iv, new_iv, slot_pos>>
    PROVE  WorkInv'
<1>1. SlotInv'
  BY DEF WorkInv, SlotInv, Exclusive, IvCurrent, Current, Record, Bounded, NoSharedSlot, Live, Free, Held
<1>2. (LockInv /\ NoAbort /\ AppendsOK /\ AllWrote)'
  BY DEF WorkInv, LockInv, LocksApart, Apart, AllLocked, Locked, NoAbort, AppendsOK, ReuseOnDisk,
     GrownLast, AllWrote, Wrote
<1>3. \A f : RacyHeaders(f, Workers)' = RacyHeaders(f, Workers)
  BY DEF RacyHeaders, Reusing, Growing, Freeing
<1>4. (SlotsNear /\ HeaderNear)'
  BY <1>3 DEF WorkInv, SlotsNear, SlotPending, HeaderNear
<1> QED
  BY <1>1, <1>2, <1>4 DEF WorkInv

\* The same for all of the invariant that speaks of the storage.
LEMMA StillKeeps ==
    ASSUME TypeInv, WorkInv, DataKept, UNCHANGED <<vars, victims>>
    PROVE  TypeInv' /\ WorkInv' /\ DataKept'
<1>1. UNCHANGED <<index, journal, index_lock, file_lock, block_cnt, free_slots_cnt, free_slots_offset, content,
                  disk_hdr, disk_slots, pc, req, iv, new_iv, slot_pos, ret, out, victims>>
  BY DEF vars
<1>2. WorkInv'
  BY <1>1, StillWork
<1>3. TypeInv' /\ DataKept'
  BY <1>1 DEF TypeInv, TypeOK, CallsOK, NewBlock, OffsetsOK, DataKept, Rewriting
<1> QED
  BY <1>2, <1>3

\* A call that is turned away leaves the files, the index and the other calls
\* alone.
TurnedAway(w) ==
    /\ pc[w] \in {"find_read", "modify", "append", "update"} /\ pc'[w] \in {"done", "unlock"}
    /\ \A u \in Workers : u # w => pc'[u] = pc[u]
    /\ UNCHANGED <<index, block_cnt, free_slots_cnt, free_slots_offset, content, disk_hdr, disk_slots,
                   req, iv, new_iv, slot_pos>>

\* A read of a closed file, and an update that finds no file.
LEMMA ClosedTurnsAway ==
    ASSUME TypeInv, NEW w \in Workers, ReadClosed(w) \/ Refused(w)
    PROVE  TurnedAway(w)
  BY DEF ReadClosed, Refused, Goto, TurnedAway, indexvars, memvars, diskvars, TypeInv, TypeOK

\* ... keeps every variable in its type.
LEMMA TurnedAwayType ==
    ASSUME TypeInv, NEW w \in Workers, ReadClosed(w) \/ Refused(w)
    PROVE  TypeInv'
<1>0. TurnedAway(w) /\ UNCHANGED <<journal, out>>
  BY ClosedTurnsAway DEF ReadClosed, Refused, indexvars
<1>1. index_lock' \in [Buckets -> LockType(Workers)]
  <2>1. UNCHANGED index_lock \/ (OwnIndex(w) /\ pc[w] \notin {"idle", "abort"})
    BY DEF ReadClosed, Refused
  <2> QED
    BY <2>1, IndexLockType DEF TypeInv, TypeOK
<1>2. file_lock' \in [Files -> LockType(Workers)]
  <2>1. CASE ReadClosed(w)
    <3>1. iv[w] \in Entry
      BY <2>1 DEF ReadClosed, TypeInv, CallsOK, UsingIv
    <3> QED
      BY <2>1, <3>1, LockOpsType DEF ReadClosed, TypeInv, TypeOK, Entry
  <2>2. CASE Refused(w)
    BY <2>2 DEF Refused, TypeInv, TypeOK
  <2> QED
    BY <2>1, <2>2
<1>3. ret' \in [Workers -> {0, -1, -2, -3, -4, DB_NOTFOUND}]
  BY DEF ReadClosed, Refused, Returns, TypeInv, TypeOK
<1>4. pc' \in [Workers -> Places]
  BY DEF ReadClosed, Refused, Goto, TypeInv, TypeOK, Places
<1>5. TypeOK'
  BY <1>0, <1>1, <1>2, <1>3, <1>4 DEF TurnedAway, TypeInv, TypeOK
<1>6. CallsOK'
  <2> SUFFICES ASSUME NEW u \in Workers
               PROVE  /\ pc'[u] \notin {"idle", "abort"} => req'[u] \in Requests
                      /\ pc'[u] \in Setting => req'[u].op = "set"
                      /\ pc'[u] \in Deleting \cup {"delete"} => req'[u].op \in {"set", "del"}
                      /\ pc'[u] = "append" => NewBlock(u)' \in Files
                      /\ pc'[u] \in UsingIv => iv'[u] \in Entry /\ iv'[u].offset \in Slots
                      /\ pc'[u] \in UsingNew => new_iv'[u] \in Entry /\ new_iv'[u].offset \in Slots
    BY DEF CallsOK
  <2>1. CASE u = w
    <3>1. req'[u] \in Requests /\ pc'[u] \in {"done", "unlock"}
      BY <1>0, <2>1 DEF TurnedAway, TypeInv, CallsOK
    <3> QED
      BY <3>1 DEF Setting, Deleting, UsingIv, UsingNew
  <2>2. CASE u # w
    <3>1. pc'[u] = pc[u] /\ UNCHANGED <<req, iv, new_iv>>
      BY <1>0, <2>2 DEF TurnedAway
    <3> QED
      BY <3>1 DEF TypeInv, CallsOK, NewBlock
  <2> QED
    BY <2>1, <2>2
<1>7. OffsetsOK'
  BY <1>0 DEF TurnedAway, TypeInv, OffsetsOK
<1> QED
  BY <1>5, <1>6, <1>7 DEF TypeInv

\* ... gives no slot a new owner.
LEMMA TurnedAwaySlots ==
    ASSUME TypeInv, SlotInv, NEW w \in Workers, ReadClosed(w) \/ Refused(w)
    PROVE  SlotInv'
<1>0. TurnedAway(w) /\ TypeInv'
  BY ClosedTurnsAway, TurnedAwayType
<1>1. \A f \in Files, s \in Slots : Fewer(f, s)
  <2>1. \A u \in Workers, f \in Files, s \in Slots : Held(f, s, u)' => Held(f, s, u)
    BY <1>0 DEF TurnedAway, Held
  <2> QED
    BY <1>0, <2>1 DEF TurnedAway, Fewer, Live, Free
<1>2. NoSharedSlot'
  BY <1>1, NotShared DEF SlotInv
<1>3. \A f \in Files : block_cnt'[f] + free_slots_cnt'[f] >= block_cnt[f] + free_slots_cnt[f]
  BY <1>0 DEF TurnedAway, TypeInv, TypeOK
<1>4. Bounded'
  BY <1>0, <1>1, <1>3, StaysBounded DEF SlotInv
<1>5. IvCurrent'
  BY <1>0 DEF TurnedAway, SlotInv, IvCurrent, Editing, Current, Record
<1>6. Exclusive'
  <2> SUFFICES ASSUME NEW u \in Workers, pc'[u] \in Owning PROVE index_lock'[req'[u].bucket].wr = {u}
    BY DEF Exclusive
  <2>1. req' = req /\ (u # w => pc[u] \in Owning)
    BY <1>0 DEF TurnedAway
  <2>2. CASE ~OwnIndex(w)
    <3>1. UNCHANGED index_lock /\ (pc[w] \in {"modify", "append"} \/ pc'[w] = "done")
      BY <2>2 DEF ReadClosed, Refused, Goto, TypeInv, TypeOK
    <3>2. pc[u] \in Owning
      BY <2>1, <3>1 DEF Owning, UsingNew, Deleting
    <3> QED
      BY <2>1, <3>1, <3>2 DEF SlotInv, Exclusive
  <2>3. CASE OwnIndex(w)
    <3>1. pc[w] \notin {"idle", "abort"}
      BY <1>0 DEF TurnedAway
    <3>2. PICK d \in Buckets : d = req[w].bucket
      BY <3>1, RequestOfCall
    <3>a. /\ CanOwn(index_lock[d]) /\ index_lock' = [index_lock EXCEPT ![d] = Own(@, w)]
          /\ index_lock \in [Buckets -> LockType(Workers)]
      BY <2>3, <3>2 DEF OwnIndex, TypeInv, TypeOK
    <3>3. /\ index_lock[d].wr = {}
          /\ \A b \in Buckets : index_lock'[b].wr = IF b = d THEN {w} ELSE index_lock[b].wr
      BY <3>2, <3>a DEF CanOwn, Own
    <3>4. CASE u = w
      BY <2>1, <3>2, <3>3, <3>4
    <3>5. CASE u # w
      <4>1. req[u].bucket \in Buckets /\ index_lock[req[u].bucket].wr = {u}
        BY <2>1, <3>5, RequestOfCall DEF SlotInv, Exclusive, Owning, UsingNew, Deleting
      <4> QED
        BY <2>1, <3>3, <4>1
    <3> QED
      BY <3>4, <3>5
  <2> QED
    BY <2>2, <2>3
<1> QED
  BY <1>2, <1>4, <1>5, <1>6 DEF SlotInv

\* ... keeps readers and writers apart.
LEMMA TurnedAwayLocks ==
    ASSUME TypeInv, LockInv, NEW w \in Workers, ReadClosed(w) \/ Refused(w)
    PROVE  LockInv'
<1>0. TurnedAway(w)
  BY ClosedTurnsAway
<1>1. index_lock \in [Buckets -> LockType(Workers)] /\ file_lock \in [Files -> LockType(Workers)]
  BY DEF TypeInv, TypeOK
<1>2. \A b \in Buckets :
        /\ Apart(index_lock'[b])
        /\ \A u \in Workers : u # w => index_lock'[b].rd[u] = index_lock[b].rd[u]
  <2>1. OneLockMoves(Buckets, index_lock, index_lock', w)
    <3>1. CASE UNCHANGED index_lock
      BY <3>1 DEF OneLockMoves
    <3>2. CASE OwnIndex(w)
      <4>1. req[w].bucket \in Buckets
        BY <1>0, RequestOfCall DEF TurnedAway
      <4>2. LockMove(index_lock[req[w].bucket], Own(index_lock[req[w].bucket], w), w)
        BY <3>2 DEF OwnIndex, LockMove
      <4> QED
        BY <3>2, <4>1, <4>2 DEF OwnIndex, OneLockMoves
    <3> QED
      BY <3>1, <3>2 DEF ReadClosed, Refused
  <2> QED
    BY <1>1, <2>1, OneLockMovesEffect DEF LockInv, LocksApart
<1>3. \A f \in Files :
        /\ Apart(file_lock'[f])
        /\ \A u \in Workers : u # w =>
             file_lock'[f].rd[u] = file_lock[f].rd[u] /\ (file_lock[f].wr = {u} => file_lock'[f].wr = {u})
  <2>1. OneLockMoves(Files, file_lock, file_lock', w)
    <3>1. CASE Refused(w)
      BY <3>1 DEF Refused, OneLockMoves
    <3>2. CASE ReadClosed(w)
      <4>1. iv[w].block_id \in Files
        BY <3>2 DEF ReadClosed, TypeInv, CallsOK, UsingIv, Entry
      <4>2. LockMove(file_lock[iv[w].block_id], Unshare(file_lock[iv[w].block_id], w), w)
        BY DEF LockMove
      <4> QED
        BY <3>2, <4>1, <4>2 DEF ReadClosed, OneLockMoves
    <3> QED
      BY <3>1, <3>2
  <2> QED
    BY <1>1, <2>1, OneLockMovesEffect DEF LockInv, LocksApart
<1>4. LocksApart'
  BY <1>2, <1>3 DEF LocksApart, Apart
<1>5. ASSUME NEW u \in Workers, u # w PROVE Locked(u)'
  <2>1. pc'[u] = pc[u] /\ UNCHANGED <<req, iv, new_iv>> /\ Locked(u)
    BY <1>0, <1>5 DEF TurnedAway, LockInv, AllLocked
  <2>2. pc[u] = "find_file" => req[u].bucket \in Buckets
    BY RequestOfCall
  <2>3. pc[u] \in {"find_read", "modify_write"} => iv[u].block_id \in Files
    BY DEF TypeInv, CallsOK, UsingIv, Entry
  <2>4. pc[u] \in WritingNew => new_iv[u].block_id \in Files
    BY DEF TypeInv, CallsOK, UsingNew, WritingNew, Entry
  <2> QED
    BY <1>2, <1>3, <1>5, <2>1, <2>2, <2>3, <2>4 DEF Locked
<1>6. Locked(w)'
  BY <1>0 DEF TurnedAway, Locked, WritingNew
<1> QED
  BY <1>4, <1>5, <1>6 DEF LockInv, AllLocked

\* A call on a closed file, or on a storage without files.
LEMMA TurnedAwayKeeps ==
    ASSUME TypeInv, WorkInv, DataKept, UNCHANGED victims, NEW w \in Workers, ReadClosed(w) \/ Refused(w)
    PROVE  TypeInv' /\ WorkInv' /\ DataKept'
<1>0. TurnedAway(w)
  BY ClosedTurnsAway
<1>1. TypeInv' /\ SlotInv' /\ LockInv'
  BY TurnedAwayType, TurnedAwaySlots, TurnedAwayLocks DEF WorkInv
<1>2. NoAbort'
  BY <1>0 DEF TurnedAway, WorkInv, NoAbort
<1>3. HeaderNear'
  <2>1. \A f : /\ Reusing(f, Workers)' = Reusing(f, Workers) /\ Growing(f, Workers)' = Growing(f, Workers)
               /\ Freeing(f, Workers)' = Freeing(f, Workers)
    BY <1>0 DEF TurnedAway, Reusing, Growing, Freeing
  <2>2. UNCHANGED <<block_cnt, free_slots_cnt, disk_hdr>>
    BY <1>0 DEF TurnedAway
  <2>3. \A f : RacyHeaders(f, Workers)' = RacyHeaders(f, Workers)
    BY <2>1, <2>2 DEF RacyHeaders
  <2> QED
    BY <2>2, <2>3 DEF WorkInv, HeaderNear
<1>4. SlotsNear'
  <2>1. \A f, p : SlotPending(f, p) => SlotPending(f, p)'
    BY <1>0 DEF TurnedAway, SlotPending, SlotWriter
  <2> QED
    BY <1>0, <2>1 DEF TurnedAway, WorkInv, SlotsNear
<1>5. AppendsOK' /\ AllWrote'
  <2> SUFFICES ASSUME NEW u \in Workers PROVE ReuseOnDisk(u)' /\ GrownLast(u)' /\ Wrote(u)'
    BY DEF AppendsOK, AllWrote
  <2>1. CASE u = w
    BY <1>0, <2>1 DEF TurnedAway, ReuseOnDisk, GrownLast, Wrote, UsingNew
  <2>2. CASE u # w
    BY <1>0, <2>2 DEF TurnedAway, WorkInv, AppendsOK, AllWrote, ReuseOnDisk, GrownLast, Wrote
  <2> QED
    BY <2>1, <2>2
<1>6. DataKept'
  <2>1. \A u \in Workers, b \in Buckets, k \in Keys : Rewriting(u, b, k) => Rewriting(u, b, k)'
    BY <1>0 DEF TurnedAway, Rewriting
  <2> QED
    BY <1>0, <2>1 DEF TurnedAway, DataKept
<1> QED
  BY <1>1, <1>2, <1>3, <1>4, <1>5, <1>6 DEF WorkInv

-----------------------------------------------------------------------------
(* A process ends outside the moments of Exposed.                          *)

\* With nobody freeing a slot of f, at most one worker has changed the counters
\* of f and not written them.
LEMMA OnePending ==
    ASSUME TypeInv, Exclusive, NEW f, ~FreeingSlot(f)
    PROVE  /\ Freeing(f, Workers) = {}
           /\ \/ Reusing(f, Workers) = {} /\ Growing(f, Workers) = {}
              \/ Growing(f, Workers) = {} /\ \E w \in Workers : Reusing(f, Workers) = {w}
              \/ Reusing(f, Workers) = {} /\ \E w \in Workers : Growing(f, Workers) = {w}
<1>1. Freeing(f, Workers) = {}
  BY DEF FreeingSlot, Freeing
<1>2. \A u, w \in Workers : pc[u] \in WritingNew /\ pc[w] \in WritingNew => u = w
  BY OneOwner DEF WritingNew, Owning, UsingNew
<1>3. \A u \in Reusing(f, Workers) : u \in Workers /\ pc[u] = "append_reuse"
  BY DEF Reusing
<1>4. \A u \in Growing(f, Workers) : u \in Workers /\ pc[u] = "append_grow"
  BY DEF Growing
<1>5. CASE Reusing(f, Workers) # {}
  BY <1>1, <1>2, <1>3, <1>4, <1>5 DEF WritingNew
<1>6. CASE Growing(f, Workers) # {}
  BY <1>1, <1>2, <1>3, <1>4, <1>6 DEF WritingNew
<1> QED
  BY <1>1, <1>5, <1>6

\* Where the counters on disk then are.
LEMMA DiskCounters ==
    ASSUME TypeInv, WorkInv, NEW f \in Files, ~FreeingSlot(f), ~MixedHeader(f)
    PROVE  /\ disk_hdr[f].block_cnt \in Int /\ disk_hdr[f].free_slots_cnt \in Int
           /\ disk_hdr[f].free_slots_cnt >= free_slots_cnt[f]
           /\ disk_hdr[f].free_slots_cnt <= free_slots_cnt[f] + 1
           /\ Reusing(f, Workers) = {} => disk_hdr[f].free_slots_cnt = free_slots_cnt[f]
           /\ disk_hdr[f].block_cnt + disk_hdr[f].free_slots_cnt >= block_cnt[f] + free_slots_cnt[f] - 1
           /\ Growing(f, Workers) = {} =>
                disk_hdr[f].block_cnt + disk_hdr[f].free_slots_cnt >= block_cnt[f] + free_slots_cnt[f]
<1>1. PICK m \in Int, n \in Int : m = block_cnt[f] /\ n = free_slots_cnt[f]
  BY DEF TypeInv, TypeOK
<1>2. Cardinality({}) = 0 /\ \A w : Cardinality({w}) = 1
  BY FS_EmptySet, FS_Singleton
<1>3. PICK r \in 0 .. 1, g \in 0 .. 1 :
        /\ Cardinality(Freeing(f, Workers)) = 0
        /\ r = Cardinality(Reusing(f, Workers)) /\ g = Cardinality(Growing(f, Workers))
        /\ Reusing(f, Workers) = {} => r = 0
        /\ Growing(f, Workers) = {} => g = 0
  <2>1. /\ Freeing(f, Workers) = {}
        /\ \/ Reusing(f, Workers) = {} /\ Growing(f, Workers) = {}
           \/ Growing(f, Workers) = {} /\ \E w \in Workers : Reusing(f, Workers) = {w}
           \/ Reusing(f, Workers) = {} /\ \E w \in Workers : Growing(f, Workers) = {w}
    BY OnePending DEF WorkInv, SlotInv
  <2>2. /\ Cardinality(Reusing(f, Workers)) \in 0 .. 1 /\ Cardinality(Growing(f, Workers)) \in 0 .. 1
        /\ Reusing(f, Workers) = {} => Cardinality(Reusing(f, Workers)) = 0
        /\ Growing(f, Workers) = {} => Cardinality(Growing(f, Workers)) = 0
    <3>1. ASSUME NEW S, S = {} \/ \E w \in Workers : S = {w}
          PROVE  Cardinality(S) \in 0 .. 1 /\ (S = {} => Cardinality(S) = 0)
      <4>1. CASE S = {}
        <5>1. Cardinality(S) = 0
          BY <1>2, <4>1
        <5> QED
          BY <5>1
      <4>2. ASSUME NEW w \in Workers, S = {w} PROVE Cardinality(S) = 1 /\ S # {}
        BY <1>2, <4>2
      <4> QED
        BY <3>1, <4>1, <4>2
    <3>2. /\ Reusing(f, Workers) = {} \/ \E w \in Workers : Reusing(f, Workers) = {w}
          /\ Growing(f, Workers) = {} \/ \E w \in Workers : Growing(f, Workers) = {w}
      BY <2>1
    <3> QED
      BY <3>1, <3>2
  <2> QED
    BY <1>2, <2>1, <2>2
<1>4. disk_hdr[f] \in [block_cnt: m - r - g .. m + 0, free_slots_cnt: n - 0 .. n + r]
  BY <1>1, <1>3 DEF WorkInv, HeaderNear, RacyHeaders
<1>5. PICK i \in Int, j \in Int :
        /\ i = disk_hdr[f].block_cnt /\ j = disk_hdr[f].free_slots_cnt
        /\ m - r - g <= i /\ i <= m /\ n <= j /\ j <= n + r
  BY <1>4
<1>6. i + j >= m + n - g
  BY <1>1, <1>3, <1>5 DEF MixedHeader
<1>7. /\ j <= n + 1 /\ i + j >= m + n - 1
      /\ (r = 0 => j = n) /\ (g = 0 => i + j >= m + n)
  BY <1>5, <1>6
<1> QED
  BY <1>1, <1>3, <1>5, <1>7

\* A free slot of the list on disk is free in memory, too, or is the one that
\* an append has just taken.
LEMMA DiskFreeSlots ==
    ASSUME TypeInv, WorkInv, NEW f \in Files, ~FreeingSlot(f), ~MixedHeader(f), NEW p \in Positions,
           p < disk_hdr[f].free_slots_cnt
    PROVE  \/ Free(f, disk_slots[f][p], p)
           \/ p = free_slots_cnt[f] /\ \E w \in Reusing(f, Workers) : Held(f, disk_slots[f][p], w)
<1>1. p \in Nat /\ free_slots_cnt[f] \in Nat
  BY StorageAssumption DEF Positions, TypeInv, TypeOK
<1>2. CASE p < free_slots_cnt[f]
  <2>1. ~SlotPending(f, p)
    BY DEF FreeingSlot, SlotPending, SlotWriter
  <2>2. disk_slots[f][p] = free_slots_offset[f][p]
    BY <1>2, <2>1 DEF WorkInv, SlotsNear
  <2> QED
    BY <1>2, <2>2 DEF Free
<1>3. CASE ~(p < free_slots_cnt[f])
  <2>1. Reusing(f, Workers) # {} /\ p = free_slots_cnt[f]
    BY <1>1, <1>3, DiskCounters
  <2>2. PICK w \in Reusing(f, Workers) : TRUE
    BY <2>1
  <2>3. w \in Workers /\ pc[w] = "append_reuse" /\ new_iv[w].block_id = f
    BY <2>2 DEF Reusing
  <2>4. disk_slots[f][p] = new_iv[w].offset
    BY <2>1, <2>3 DEF WorkInv, AppendsOK, ReuseOnDisk
  <2>5. Held(f, disk_slots[f][p], w)
    BY <2>3, <2>4 DEF Held
  <2> QED
    BY <2>1, <2>2, <2>5
<1> QED
  BY <1>2, <1>3

\* ... and lies inside the file, as the counters on disk have it.
LEMMA DiskEnds ==
    ASSUME TypeInv, WorkInv, NEW f \in Files, ~FreeingSlot(f), ~MixedHeader(f), NEW s \in Slots,
           \/ \E b \in Buckets, k \in Keys : Live(f, s, b, k)
           \/ \E p \in Positions : DiskFree(f, s, p)
    PROVE  s <= disk_hdr[f].block_cnt + disk_hdr[f].free_slots_cnt
<1>1. PICK m \in Int, n \in Nat : m = block_cnt[f] /\ n = free_slots_cnt[f]
  BY DEF TypeInv, TypeOK
<1>2. PICK i \in Int, j \in Int :
        /\ i = disk_hdr[f].block_cnt /\ j = disk_hdr[f].free_slots_cnt
        /\ i + j >= m + n - 1 /\ (Growing(f, Workers) = {} => i + j >= m + n)
        /\ Reusing(f, Workers) = {} => j = n
  BY <1>1, DiskCounters
<1>3. s \in Int
  BY DEF Slots
<1>4. s <= m + n
  <2>1. ASSUME NEW p \in Positions, DiskFree(f, s, p)
        PROVE  (\E q \in Positions : Free(f, s, q)) \/ (\E w \in Workers : Held(f, s, w))
    BY <2>1, DiskFreeSlots DEF DiskFree, Reusing
  <2>2. s <= block_cnt[f] + free_slots_cnt[f]
    BY <2>1 DEF WorkInv, SlotInv, Bounded
  <2> QED
    BY <1>1, <2>2
<1>5. CASE Growing(f, Workers) = {}
  BY <1>2, <1>3, <1>4, <1>5
<1>6. CASE Growing(f, Workers) # {}
  <2>1. PICK w \in Workers : pc[w] = "append_grow" /\ new_iv[w].block_id = f
    BY <1>6 DEF Growing
  <2>2. n = 0 /\ new_iv[w].offset = m
    BY <1>1, <2>1 DEF WorkInv, AppendsOK, GrownLast
  <2>3. Reusing(f, Workers) = {}
    BY <1>6, OnePending DEF WorkInv, SlotInv
  <2>4. ~ \E p \in Positions : DiskFree(f, s, p)
    <3>1. \A p \in Positions : p \in Nat
      BY StorageAssumption DEF Positions
    <3> QED
      BY <1>2, <2>2, <2>3, <3>1 DEF DiskFree
  <2>5. PICK b \in Buckets, k \in Keys : Live(f, s, b, k)
    BY <2>4
  <2>6. s # m
    BY <2>1, <2>2, <2>5 DEF WorkInv, SlotInv, NoSharedSlot, Held
  <2> QED
    BY <1>2, <1>3, <1>4, <2>2, <2>6
<1> QED
  BY <1>5, <1>6

\* The index that Berkeley DB has written refers to slots that the index in
\* memory refers to.
LEMMA DiskLive ==
    ASSUME NEW b \in Buckets, NEW k \in Keys, ~Stale(b, k), index' = index_disk, NEW f, NEW s,
           Live(f, s, b, k)'
    PROVE  Live(f, s, b, k)
  BY DEF Live, Stale

\* What a process leaves on disk can be opened again.
LEMMA StopLeavesSafeDisk ==
    ASSUME TypeInv, WorkInv, Loaded, ~Exposed, index' = index_disk, UNCHANGED <<disk_hdr, disk_slots>>
    PROVE  DiskSafe'
<1> SUFFICES ASSUME NEW f \in Files PROVE DiskFile(f)' /\ \A s \in Slots : DiskSlot(f, s)'
  BY DEF DiskSafe
<1>1. ~FreeingSlot(f) /\ ~MixedHeader(f) /\ \A b \in Buckets, k \in Keys : ~Stale(b, k)
  BY DEF Exposed, Loaded
<1>2. PICK n \in Nat, j \in Int :
        /\ n = free_slots_cnt[f] /\ n <= MAX_FREE_SLOTS /\ j = disk_hdr[f].free_slots_cnt
        /\ n <= j /\ j <= n + 1 /\ (Reusing(f, Workers) = {} => j = n)
  BY <1>1, DiskCounters, StorageAssumption DEF TypeInv, TypeOK
<1>3. DiskFile(f)'
  <2>1. disk_hdr[f].free_slots_cnt \in 0 .. MAX_FREE_SLOTS
    <3>1. CASE Reusing(f, Workers) = {}
      BY <1>2, <3>1, StorageAssumption
    <3>2. CASE Reusing(f, Workers) # {}
      <4>1. PICK w \in Workers : pc[w] = "append_reuse" /\ new_iv[w].block_id = f
        BY <3>2 DEF Reusing
      <4>2. n \in Positions
        BY <1>2, <4>1 DEF WorkInv, AppendsOK, ReuseOnDisk
      <4>3. n + 1 <= MAX_FREE_SLOTS
        BY <4>2, StorageAssumption DEF Positions
      <4> QED
        BY <1>2, <4>3, StorageAssumption
    <3> QED
      BY <3>1, <3>2
  <2>2. ASSUME NEW p \in Positions, p < disk_hdr[f].free_slots_cnt PROVE disk_slots[f][p] \in Slots
    <3>1. CASE Free(f, disk_slots[f][p], p)
      BY <3>1 DEF Free, TypeInv, OffsetsOK
    <3>2. ASSUME NEW w \in Reusing(f, Workers), Held(f, disk_slots[f][p], w)
          PROVE  disk_slots[f][p] \in Slots
      BY <3>2 DEF Reusing, Held, TypeInv, CallsOK, UsingNew
    <3> QED
      BY <1>1, <2>2, <3>1, <3>2, DiskFreeSlots
  <2> QED
    BY <2>1, <2>2 DEF DiskFile
<1>4. ASSUME NEW s \in Slots PROVE DiskSlot(f, s)'
  <2>1. \A b \in Buckets, k \in Keys : Live(f, s, b, k)' => Live(f, s, b, k)
    BY <1>1, DiskLive
  <2>2. \A p \in Positions : DiskFree(f, s, p)' => DiskFree(f, s, p)
    BY DEF DiskFree
  <2>3. \A p \in Positions : DiskFree(f, s, p) =>
          Free(f, s, p) \/ (p = free_slots_cnt[f] /\ \E w \in Workers : Held(f, s, w))
    BY <1>1, DiskFreeSlots DEF DiskFree, Reusing
  <2>4. \A b1, b2 \in Buckets, k1, k2 \in Keys :
          Live(f, s, b1, k1)' /\ Live(f, s, b2, k2)' => b1 = b2 /\ k1 = k2
    BY <2>1 DEF WorkInv, SlotInv, NoSharedSlot
  <2>5. \A p1, p2 \in Positions : DiskFree(f, s, p1)' /\ DiskFree(f, s, p2)' => p1 = p2
    BY <2>2, <2>3 DEF WorkInv, SlotInv, NoSharedSlot
  <2>6. \A b \in Buckets, k \in Keys, p \in Positions : ~ (Live(f, s, b, k)' /\ DiskFree(f, s, p)')
    BY <2>1, <2>2, <2>3 DEF WorkInv, SlotInv, NoSharedSlot
  <2>7. \/ \E b \in Buckets, k \in Keys : Live(f, s, b, k)'
        \/ \E p \in Positions : DiskFree(f, s, p)'
        => s <= disk_hdr'[f].block_cnt + disk_hdr'[f].free_slots_cnt
    BY <1>1, <2>1, <2>2, DiskEnds
  <2> QED
    BY <2>4, <2>5, <2>6, <2>7 DEF DiskSlot
<1> QED
  BY <1>3, <1>4

\* A process that ends leaves a state of the right type.
LEMMA StopType ==
    ASSUME TypeInv, DiskIndexOK, Stop
    PROVE  TypeInv' /\ DiskIndexOK'
<1>1. /\ index' = index_disk /\ UNCHANGED <<index_disk, journal, content, disk_hdr, disk_slots>>
      /\ index_lock' = [b \in Buckets |-> NewLock(Workers)]
      /\ file_lock' = [f \in Files |-> NewLock(Workers)]
      /\ block_cnt' = [f \in Files |-> 0]
      /\ free_slots_cnt' = [f \in Files |-> 0]
      /\ free_slots_offset' = [f \in Files |-> [p \in Positions |-> 0]]
      /\ pc' = [w \in Workers |-> "idle"]
      /\ req' = [w \in Workers |-> NoRequest]
      /\ iv' = [w \in Workers |-> NoEntry]
      /\ new_iv' = [w \in Workers |-> NoEntry]
      /\ slot_pos' = [w \in Workers |-> 0]
      /\ ret' = [w \in Workers |-> 0]
      /\ out' = [w \in Workers |-> None]
  BY DEF Stop, EndProcess, diskvars
<1>2. 0 \in Positions /\ 0 \in 0 .. MAX_FREE_SLOTS /\ 0 \in 0 .. MaxSlot
  BY StorageAssumption DEF Positions
<1>3. NewLock(Workers) \in LockType(Workers)
  BY DEF NewLock, LockType
<1>4. TypeOK'
  BY <1>1, <1>2, <1>3 DEF TypeInv, TypeOK, DiskIndexOK, Places
<1>5. CallsOK'
  BY <1>1 DEF CallsOK, Setting, Deleting, UsingIv, UsingNew
<1>6. OffsetsOK'
  <2>1. \A p \in Positions : p \in Nat
    BY StorageAssumption DEF Positions
  <2> QED
    BY <1>1, <2>1 DEF OffsetsOK, DiskIndexOK
<1> QED
  BY <1>1, <1>4, <1>5, <1>6 DEF TypeInv, DiskIndexOK

\* Every record that is not a victim is on disk with its data.
LEMMA StopKeepsData ==
    ASSUME DataKept, Stop, index = index_disk \/ \A b \in Buckets, k \in Keys : ~Stale(b, k)
    PROVE  DataKept'
<1> SUFFICES ASSUME NEW b \in Buckets, NEW k \in Keys, index_disk[b][k] # None, <<b, k>> \notin victims'
             PROVE  content[index_disk[b][k].block_id][index_disk[b][k].offset] = index_disk[b][k].crc32
  BY DEF DataKept, Stop, EndProcess, diskvars
<1>1. <<b, k>> \in Buckets \X Keys /\ <<b, k>>[1] = b /\ <<b, k>>[2] = k
  OBVIOUS
<1>2. <<b, k>> \notin victims /\ ~HalfRewritten(b, k)
  BY <1>1 DEF Stop, EndProcess
<1>3. index_disk[b][k] = index[b][k] /\ \A w \in Workers : ~Rewriting(w, b, k)
  BY <1>2 DEF HalfRewritten
<1> QED
  BY <1>2, <1>3 DEF DataKept

\* A process that ends leaves a directory at rest.
LEMMA StopRests ==
    ASSUME TypeInv, FilesInv, DiskIndexOK, DataKept, Loaded => WorkInv, ~Loaded => RestInv, Stop, ~Exposed
    PROVE  TypeInv' /\ DiskIndexOK' /\ DataKept' /\ RestInv'
<1>1. TypeInv' /\ DiskIndexOK'
  BY StopType
<1>2. DataKept'
  BY StopKeepsData DEF Exposed, Loaded, RestInv
<1>3. /\ index' = index_disk /\ UNCHANGED <<index_disk, disk_hdr, disk_slots, file_state>> /\ opened' = {}
      /\ index_lock' = [b \in Buckets |-> NewLock(Workers)]
      /\ file_lock' = [f \in Files |-> NewLock(Workers)]
      /\ \A f \in Files : block_cnt'[f] = 0 /\ free_slots_cnt'[f] = 0
      /\ \A w \in Workers : pc'[w] = "idle"
  BY DEF Stop, EndProcess, diskvars
<1>4. DiskSafe'
  <2>1. CASE Loaded
    BY <1>3, <2>1, StopLeavesSafeDisk
  <2>2. CASE ~Loaded
    BY <1>3, <2>2 DEF RestInv, DiskSafe, DiskFile, DiskSlot, DiskFree, Live
  <2> QED
    BY <2>1, <2>2
<1>5. \A f \in Files : Blank(f)'
  BY <1>3 DEF Blank
<1>6. \A f \in Files : file_state'[f] # "whole" => Blank(f)' /\ Read(f)'
  <2> SUFFICES ASSUME NEW f \in Files, file_state[f] # "whole" PROVE Read(f)'
    BY <1>3, <1>5
  <2>1. Blank(f) /\ Read(f)
    BY DEF FilesInv, RestInv
  <2>2. disk_hdr'[f] = CurrentHeader(f)'
    BY <1>3, <2>1 DEF Blank, Read, CurrentHeader
  <2>3. \A p \in Positions : ~(p < free_slots_cnt'[f])
    BY <1>3, StorageAssumption DEF Positions
  <2> QED
    BY <2>2, <2>3 DEF Read
<1> QED
  BY <1>1, <1>2, <1>3, <1>4, <1>5, <1>6 DEF RestInv

-----------------------------------------------------------------------------
(* A process opens what others have left.                                  *)

\* load_data_file() takes the counters and the free list from the header.
LEMMA LoadKeeps ==
    ASSUME TypeInv, FilesInv, DataKept, RestInv, load_data_file
    PROVE  TypeInv' /\ DataKept' /\ RestInv'
<1>0. PICK f \in Files : f = NextFile /\ f \notin opened
  BY NextFileExists DEF load_data_file, FilesInv
<1>1. /\ block_cnt' = [block_cnt EXCEPT ![f] = disk_hdr[f].block_cnt]
      /\ free_slots_cnt' = [free_slots_cnt EXCEPT ![f] = disk_hdr[f].free_slots_cnt]
      /\ free_slots_offset' = [free_slots_offset EXCEPT ![f] = disk_slots[f]]
      /\ opened' = opened \cup {f} /\ file_state[f] = "whole"
      /\ UNCHANGED <<index, journal, index_lock, file_lock, content, disk_hdr, disk_slots, file_state, pc, req,
                     iv, new_iv, slot_pos, ret, out, index_disk, victims>>
  BY <1>0 DEF load_data_file, indexvars, diskvars, workvars, locals, history
<1>2. DiskFile(f)
  BY DEF RestInv, DiskSafe
<1>3. TypeInv'
  <2>1. /\ block_cnt' \in [Files -> Int] /\ free_slots_cnt' \in [Files -> 0 .. MAX_FREE_SLOTS]
        /\ free_slots_offset' \in [Files -> [Positions -> 0 .. MaxSlot]]
    BY <1>1, <1>2 DEF DiskFile, TypeInv, TypeOK
  <2>2. TypeOK'
    BY <1>1, <2>1 DEF TypeInv, TypeOK
  <2>3. CallsOK'
    BY <1>1 DEF TypeInv, CallsOK, NewBlock
  <2>4. OffsetsOK'
    <3>1. \A g \in Files : /\ free_slots_cnt'[g] = IF g = f THEN disk_hdr[f].free_slots_cnt ELSE free_slots_cnt[g]
                           /\ free_slots_offset'[g] = IF g = f THEN disk_slots[f] ELSE free_slots_offset[g]
      BY <1>1 DEF TypeInv, TypeOK
    <3> QED
      BY <1>1, <1>2, <3>1 DEF DiskFile, TypeInv, OffsetsOK
  <2> QED
    BY <2>2, <2>3, <2>4 DEF TypeInv
<1>4. Read(f)'
  <2>1. /\ block_cnt'[f] = disk_hdr[f].block_cnt /\ free_slots_cnt'[f] = disk_hdr[f].free_slots_cnt
        /\ free_slots_offset'[f] = disk_slots[f]
    BY <1>1 DEF TypeInv, TypeOK
  <2>2. disk_hdr[f] \in [block_cnt: Int, free_slots_cnt: Int]
    BY DEF TypeInv, TypeOK
  <2> QED
    BY <1>1, <2>1, <2>2 DEF Read, CurrentHeader
<1>5. \A g \in Files : g # f => (Blank(g)' <=> Blank(g)) /\ (Read(g)' <=> Read(g))
  BY <1>1 DEF Blank, Read, CurrentHeader, TypeInv, TypeOK
<1>6. DiskSafe' /\ DataKept'
  BY <1>1 DEF RestInv, DiskSafe, DiskFile, DiskSlot, DiskFree, Live, DataKept, Rewriting
<1>7. RestInv'
  BY <1>1, <1>4, <1>5, <1>6 DEF RestInv, FilesInv
<1> QED
  BY <1>3, <1>6, <1>7

\* The other steps of open_storage() before the index is opened.
LEMMA OpeningKeeps ==
    ASSUME TypeInv, FilesInv, DataKept, RestInv,
           Start \/ create_data_file \/ CreateWrite \/ OpenFails \/ IndexFails
    PROVE  TypeInv' /\ DataKept' /\ RestInv'
<1>1. UNCHANGED <<vars, index_disk, victims>>
  BY DEF Start, create_data_file, CreateWrite, OpenFails, IndexFails, history
<1>2. UNCHANGED <<index, journal, index_lock, file_lock, block_cnt, free_slots_cnt, free_slots_offset, content,
                  disk_hdr, disk_slots, pc, req, iv, new_iv, slot_pos, ret, out, index_disk, victims>>
  BY <1>1 DEF vars
<1>3. TypeInv'
  BY <1>2 DEF TypeInv, TypeOK, CallsOK, NewBlock, OffsetsOK
<1>4. DiskSafe' /\ DataKept' /\ \A f \in Files : (Blank(f)' <=> Blank(f)) /\ (Read(f)' <=> Read(f))
  BY <1>2 DEF RestInv, DiskSafe, DiskFile, DiskSlot, DiskFree, Live, DataKept, Rewriting, Blank, Read,
     CurrentHeader
<1>5. /\ \A f \in opened' : Read(f)
      /\ \A f \in Files : file_state'[f] # "whole" => Blank(f) /\ Read(f)
  <2>1. CASE Start
    BY <2>1 DEF Start, RestInv
  <2>2. CASE OpenFails \/ IndexFails
    BY <2>2 DEF OpenFails, IndexFails, RestInv
  <2>3. CASE create_data_file
    <3>1. NextFile \in Files
      BY <2>3, NextFileExists DEF create_data_file, FilesInv
    <3>2. \A f \in Files : file_state'[f] # "whole" => file_state[f] # "whole"
      BY <2>3, <3>1 DEF create_data_file, FilesInv
    <3> QED
      BY <2>3, <3>2 DEF create_data_file, RestInv
  <2>4. CASE CreateWrite
    <3>1. NextFile \in Files /\ file_state[NextFile] = "short"
      BY <2>4, NextFileExists DEF CreateWrite, FilesInv
    <3>2. \A f \in Files : file_state'[f] # "whole" => file_state[f] # "whole"
      BY <2>4, <3>1 DEF CreateWrite, FilesInv
    <3> QED
      BY <2>4, <3>1, <3>2 DEF CreateWrite, RestInv
  <2> QED
    BY <2>1, <2>2, <2>3, <2>4
<1>6. opened' \subseteq Files
  BY NextFileExists DEF Start, create_data_file, CreateWrite, OpenFails, IndexFails, FilesInv
<1>7. RestInv'
  BY <1>2, <1>4, <1>5, <1>6 DEF RestInv
<1> QED
  BY <1>3, <1>4, <1>7

\* The slots of a storage whose files have been read are those on disk.
LEMMA OpenedSlots ==
    ASSUME RestInv, opened = Files
    PROVE  SlotInv
<1>1. Exclusive /\ IvCurrent
  BY DEF RestInv, Exclusive, IvCurrent, Owning, Editing, UsingNew, Deleting
<1>2. \A f \in Files, s \in Slots, p \in Positions : Free(f, s, p) => DiskFree(f, s, p)
  <2> SUFFICES ASSUME NEW f \in Files, NEW s \in Slots, NEW p \in Positions, Free(f, s, p)
               PROVE  DiskFree(f, s, p)
    OBVIOUS
  <2>1. Read(f)
    BY DEF RestInv
  <2>2. disk_hdr[f].free_slots_cnt = free_slots_cnt[f]
    BY <2>1 DEF Read, CurrentHeader
  <2> QED
    BY <2>1, <2>2 DEF Read, Free, DiskFree
<1>3. \A f \in Files, s \in Slots, w \in Workers : ~Held(f, s, w)
  BY DEF RestInv, Held
<1>4. \A f \in Files, s \in Slots : DiskSlot(f, s)
  BY DEF RestInv, DiskSafe
<1>5. Bounded
  <2> SUFFICES ASSUME NEW f \in Files, NEW s \in Slots,
                      \/ \E b \in Buckets, k \in Keys : Live(f, s, b, k)
                      \/ \E p \in Positions : Free(f, s, p)
               PROVE  s <= block_cnt[f] + free_slots_cnt[f]
    BY <1>3 DEF Bounded
  <2>1. s <= disk_hdr[f].block_cnt + disk_hdr[f].free_slots_cnt
    BY <1>2, <1>4 DEF DiskSlot
  <2>2. disk_hdr[f] = CurrentHeader(f)
    BY DEF RestInv, Read
  <2> QED
    BY <2>1, <2>2 DEF CurrentHeader
<1>6. NoSharedSlot
  BY <1>2, <1>3, <1>4 DEF NoSharedSlot, DiskSlot
<1> QED
  BY <1>1, <1>5, <1>6 DEF SlotInv

\* open_index_file(): the storage is open.
LEMMA OpenIndexKeeps ==
    ASSUME TypeInv, FilesInv, DiskIndexOK, DataKept, RestInv, open_index_file
    PROVE  TypeInv' /\ DataKept' /\ WorkInv'
<1>1. /\ index' = index /\ journal' = index_disk /\ opened = Files
      /\ UNCHANGED <<index_lock, file_lock, block_cnt, free_slots_cnt, free_slots_offset, content, disk_hdr,
                     disk_slots, pc, req, iv, new_iv, slot_pos, ret, out, victims>>
  BY DEF open_index_file, open_transaction_bdb, RestInv, memvars, workvars, locals, history
<1>2. TypeInv' /\ DataKept'
  BY <1>1 DEF TypeInv, TypeOK, CallsOK, NewBlock, OffsetsOK, DiskIndexOK, DataKept, Rewriting
<1>3. SlotInv
  BY <1>1, OpenedSlots
<1>4. LockInv /\ NoAbort /\ AppendsOK /\ AllWrote
  BY DEF RestInv, LockInv, LocksApart, Apart, NewLock, AllLocked, Locked, WritingNew, NoAbort, AppendsOK,
     ReuseOnDisk, GrownLast, AllWrote, Wrote, UsingNew
<1>5. SlotsNear
  BY <1>1 DEF RestInv, Read, SlotsNear
<1>6. HeaderNear
  <2> SUFFICES ASSUME NEW f \in Files PROVE disk_hdr[f] \in RacyHeaders(f, Workers)
    BY DEF HeaderNear
  <2>1. disk_hdr[f] = CurrentHeader(f) /\ block_cnt[f] \in Int /\ free_slots_cnt[f] \in Int
    BY <1>1 DEF RestInv, Read, TypeInv, TypeOK
  <2> QED
    BY <2>1, PendingCounts DEF RacyHeaders, CurrentHeader
<1>7. WorkInv
  BY <1>3, <1>4, <1>5, <1>6 DEF WorkInv
<1>8. WorkInv'
  BY <1>1, <1>7, StillWork
<1> QED
  BY <1>2, <1>8

-----------------------------------------------------------------------------
(* The invariant and the theorems.                                         *)

\* An empty directory.
LEMMA SafeInit == RInit => SafeInv
<1> SUFFICES ASSUME RInit PROVE SafeInv
  OBVIOUS
<1>1. FilesInv
  BY FilesInit
<1>2. Init /\ index_disk = index /\ opened = {} /\ phase = "down"
  BY DEF RInit
<1>3. TypeInv /\ DiskIndexOK /\ DataKept
  <2>1. TypeInv
    BY <1>2, TypeInit
  <2>2. \A b \in Buckets, k \in Keys : index[b][k] = None
    BY <1>2 DEF Init
  <2> QED
    BY <1>2, <2>1, <2>2 DEF TypeInv, TypeOK, DiskIndexOK, DataKept
<1>4. \A f \in Files : /\ disk_hdr[f] = [block_cnt |-> 0, free_slots_cnt |-> 0]
                       /\ block_cnt[f] = 0 /\ free_slots_cnt[f] = 0
  BY <1>2 DEF Init
<1>5. \A p \in Positions : p \in Nat
  BY StorageAssumption DEF Positions
<1>6. DiskSafe
  <2>1. \A f \in Files : DiskFile(f)
    BY <1>4, <1>5, StorageAssumption DEF DiskFile
  <2>2. \A f \in Files, s \in Slots, p \in Positions : ~DiskFree(f, s, p)
    BY <1>4, <1>5 DEF DiskFree
  <2>3. \A f \in Files, s \in Slots, b \in Buckets, k \in Keys : ~Live(f, s, b, k)
    BY <1>2 DEF Init, Live
  <2> QED
    BY <2>1, <2>2, <2>3 DEF DiskSafe, DiskSlot
<1>7. \A f \in Files : Blank(f) /\ Read(f)
  BY <1>4, <1>5 DEF Blank, Read, CurrentHeader
<1>8. RestInv
  BY <1>2, <1>6, <1>7 DEF RestInv, Init
<1> QED
  BY <1>1, <1>2, <1>3, <1>8 DEF SafeInv, Loaded

\* The inductive step, whatever the process does and wherever it ends.
LEMMA SafeStep ==
    ASSUME DiskWorks, SafeInv, [RNext]_rvars
    PROVE  SafeInv'
<1>0. FilesInv /\ FilesInv'
  BY FilesStep DEF SafeInv
<1> SUFFICES ASSUME ~damaged'
             PROVE  /\ TypeInv' /\ DiskIndexOK' /\ DataKept'
                    /\ Loaded' => WorkInv'
                    /\ ~Loaded' => RestInv'
                    /\ phase' = "exiting" => index_disk' = index'
  BY <1>0 DEF SafeInv
<1> DEFINE Goal == /\ TypeInv' /\ DiskIndexOK' /\ DataKept'
                   /\ Loaded' => WorkInv'
                   /\ ~Loaded' => RestInv'
                   /\ phase' = "exiting" => index_disk' = index'
<1>a. ~damaged
  <2>1. CASE Start \/ load_data_file \/ create_data_file \/ CreateWrite \/ open_index_file
                \/ OpenFails \/ IndexFails
    BY <2>1 DEF Start, load_data_file, create_data_file, CreateWrite, open_index_file, OpenFails, IndexFails,
                history
  <2>2. ASSUME NEW w \in Workers,
               Request(w) \/ Serve(w) \/ WriteClosed(w) \/ AppendClosed(w) \/ ReadClosed(w) \/ Refused(w)
        PROVE  ~damaged
    BY <2>2 DEF Request, Serve, WriteClosed, AppendClosed, ReadClosed, Refused, history
  <2>3. ASSUME NEW b \in Buckets, NEW k \in Keys, BdbWrites(b, k) PROVE ~damaged
    BY <2>3 DEF BdbWrites, history
  <2>4. CASE SyncIndex \/ SyncHeader \/ CloseFile \/ FilesClosed \/ close_bdb \/ Stop \/ UseFreedStorage
                \/ UNCHANGED rvars
    BY <2>4 DEF SyncIndex, SyncHeader, CloseFile, FilesClosed, close_bdb, Stop, UseFreedStorage, EndProcess, rvars,
                history
  <2> QED
    BY <2>1, <2>2, <2>3, <2>4 DEF RNext, open_storage, close_storage
<1>b. /\ TypeInv /\ DiskIndexOK /\ DataKept /\ (Loaded => WorkInv) /\ (~Loaded => RestInv)
      /\ phase = "exiting" => index_disk = index
  BY <1>a DEF SafeInv
<1>1. CASE Start \/ load_data_file \/ create_data_file \/ CreateWrite \/ OpenFails \/ IndexFails
  <2>1. ~Loaded /\ ~Loaded' /\ phase' # "exiting" /\ UNCHANGED index_disk
    BY <1>1 DEF Start, load_data_file, create_data_file, CreateWrite, OpenFails, IndexFails, Loaded
  <2>2. TypeInv' /\ DataKept' /\ RestInv'
    BY <1>0, <1>1, <1>b, <2>1, LoadKeeps, OpeningKeeps
  <2> QED
    BY <1>b, <2>1, <2>2 DEF DiskIndexOK
<1>2. CASE open_index_file
  <2>1. ~Loaded /\ Loaded' /\ phase' # "exiting" /\ UNCHANGED index_disk
    BY <1>2 DEF open_index_file, Loaded
  <2>2. TypeInv' /\ DataKept' /\ WorkInv'
    BY <1>0, <1>2, <1>b, <2>1, OpenIndexKeeps
  <2> QED
    BY <1>b, <2>1, <2>2 DEF DiskIndexOK
<1>3. ASSUME NEW w \in Workers, Request(w) \/ Serve(w) PROVE Goal
  <2>1. /\ phase \in {"up", "closing_files", "closing_index"} /\ phase' = phase
        /\ UNCHANGED <<index_disk, victims>>
    BY <1>3 DEF Request, Serve, Running, procvars, history
  <2>2. Call(w) \/ Work(w)
    BY <1>3 DEF Request, Serve
  <2>3. TypeInv' /\ WorkInv' /\ DataKept'
    BY <1>b, <2>1, <2>2, ServeKeeps DEF Loaded
  <2> QED
    BY <1>b, <2>1, <2>3 DEF DiskIndexOK, Loaded
<1>4. ASSUME NEW w \in Workers, WriteClosed(w) \/ AppendClosed(w) PROVE Goal
  BY <1>4 DEF WriteClosed, AppendClosed
<1>5. ASSUME NEW w \in Workers, ReadClosed(w) \/ Refused(w) PROVE Goal
  <2>1. /\ phase \in {"up", "closing_files", "closing_index"} /\ phase' = phase
        /\ UNCHANGED <<index_disk, victims>>
    BY <1>5 DEF ReadClosed, Refused, Running, procvars, history
  <2>2. TypeInv' /\ WorkInv' /\ DataKept'
    BY <1>5, <1>b, <2>1, TurnedAwayKeeps DEF Loaded
  <2> QED
    BY <1>b, <2>1, <2>2 DEF DiskIndexOK, Loaded
<1>6. ASSUME NEW b \in Buckets, NEW k \in Keys, BdbWrites(b, k) PROVE Goal
  <2>1. /\ phase \in {"up", "closing_files", "closing_index"} /\ phase' = phase /\ UNCHANGED <<vars, victims>>
        /\ index_disk' = [index_disk EXCEPT ![b][k] = index[b][k]]
    BY <1>6 DEF BdbWrites, Running, procvars, history
  <2>2. TypeInv' /\ WorkInv' /\ DataKept'
    BY <1>b, <2>1, StillKeeps DEF Loaded
  <2>3. DiskIndexOK'
    <3>1. /\ index \in [Buckets -> [Keys -> Entry \cup {None}]]
          /\ index_disk \in [Buckets -> [Keys -> Entry \cup {None}]]
      BY <1>b DEF TypeInv, TypeOK, DiskIndexOK
    <3>2. /\ index_disk' \in [Buckets -> [Keys -> Entry \cup {None}]]
          /\ \A c \in Buckets, j \in Keys : index_disk'[c][j] = index_disk[c][j] \/ index_disk'[c][j] = index[c][j]
      BY <2>1, <3>1
    <3> QED
      BY <1>b, <3>2 DEF TypeInv, OffsetsOK, DiskIndexOK
  <2> QED
    BY <2>1, <2>2, <2>3 DEF Loaded
<1>7. CASE SyncIndex \/ FilesClosed \/ close_bdb
  <2>1. /\ Loaded /\ Loaded' /\ UNCHANGED <<vars, victims>>
        /\ index_disk' = index \/ (index_disk' = index_disk /\ phase' # "exiting")
    BY <1>7 DEF SyncIndex, sync_bdb, FilesClosed, close_bdb, Loaded, history
  <2>2. TypeInv' /\ WorkInv' /\ DataKept'
    BY <1>b, <2>1, StillKeeps
  <2>3. index' = index
    BY <2>1 DEF vars
  <2>4. DiskIndexOK'
    BY <1>b, <2>1 DEF TypeInv, TypeOK, OffsetsOK, DiskIndexOK
  <2> QED
    BY <2>1, <2>2, <2>3, <2>4
<1>8. CASE SyncHeader \/ CloseFile
  <2>1. /\ phase \in {"up", "closing_files"} /\ phase' = phase /\ UNCHANGED <<index_disk, victims>>
        /\ \E f : sync_storage(f)
    BY <1>8 DEF SyncHeader, CloseFile, history
  <2>2. TypeInv' /\ WorkInv' /\ DataKept'
    BY <1>b, <2>1, SyncKeeps DEF Loaded
  <2> QED
    BY <1>b, <2>1, <2>2 DEF DiskIndexOK, Loaded
<1>9. CASE Stop
  <2>1. ~Exposed /\ phase' = "down"
    BY <1>9 DEF Stop, EndProcess
  <2>2. TypeInv' /\ DiskIndexOK' /\ DataKept' /\ RestInv'
    BY <1>0, <1>9, <1>b, <2>1, StopRests
  <2> QED
    BY <2>1, <2>2 DEF Loaded
<1>10. CASE UNCHANGED rvars
  <2>1. UNCHANGED <<vars, index, phase, index_disk, victims, opened, file_state>>
    BY <1>10 DEF rvars, vars
  <2>2. CASE Loaded
    <3>1. TypeInv' /\ WorkInv' /\ DataKept'
      BY <1>b, <2>1, <2>2, StillKeeps
    <3> QED
      BY <1>b, <2>1, <2>2, <3>1 DEF DiskIndexOK, Loaded
  <2>3. CASE ~Loaded
    <3>1. UNCHANGED <<index, journal, index_lock, file_lock, block_cnt, free_slots_cnt, free_slots_offset, content,
                      disk_hdr, disk_slots, pc, req, iv, new_iv, slot_pos, ret, out, victims>>
      BY <2>1 DEF vars
    <3>2. TypeInv' /\ DataKept'
      BY <1>b, <3>1 DEF TypeInv, TypeOK, CallsOK, NewBlock, OffsetsOK, DataKept, Rewriting
    <3>3. RestInv'
      BY <1>b, <2>1, <2>3, <3>1 DEF RestInv, DiskSafe, DiskFile, DiskSlot, DiskFree, Live, Blank, Read,
         CurrentHeader
    <3> QED
      BY <1>b, <2>1, <2>3, <3>2, <3>3 DEF DiskIndexOK, Loaded
  <2> QED
    BY <2>2, <2>3
<1>11. ~UseFreedStorage
  BY DEF UseFreedStorage, EndProcess
<1> QED
  BY <1>1, <1>2, <1>3, <1>4, <1>5, <1>6, <1>7, <1>8, <1>9, <1>10, <1>11 DEF RNext, open_storage, close_storage

\* Whatever fails and whenever processes end, open_storage() succeeds only when
\* every data file has a whole header: create_data_file() may be cut short, and
\* load_data_file() refuses what it left.
THEOREM OpenNeedsWholeFiles == RSpec => []OpensWholeFiles
<1>1. FilesInv => OpensWholeFiles
  BY DEF FilesInv, Loaded, Running, OpensWholeFiles
<1> QED
  BY <1>1, FilesInit, FilesStep, PTL DEF RSpec

\* A file without a whole header stays as it is: the next process meets it as a
\* file that exists, and does not write its header.
LEMMA HalfCreatedStep == FilesInv /\ HalfCreated /\ [RNext]_rvars => HalfCreated'
<1> SUFFICES ASSUME FilesInv, HalfCreated, [RNext]_rvars PROVE HalfCreated'
  OBVIOUS
<1>0. PICK f \in Files : file_state[f] = "short" /\ ~ (phase = "creating" /\ f = NextFile)
  BY DEF HalfCreated
<1>1. CASE \/ Start \/ load_data_file \/ open_index_file \/ OpenFails \/ IndexFails
           \/ SyncIndex \/ FilesClosed \/ close_bdb \/ Stop \/ UseFreedStorage
  <2>1. phase' # "creating" /\ file_state' = file_state
    BY <1>1 DEF Start, load_data_file, open_index_file, OpenFails, IndexFails, SyncIndex, FilesClosed, close_bdb,
                Stop, UseFreedStorage, EndProcess, diskvars
  <2> QED
    BY <1>0, <2>1 DEF HalfCreated
<1>2. CASE create_data_file
  <2>1. NextFile' = NextFile /\ f # NextFile /\ file_state' = [file_state EXCEPT ![NextFile] = "short"]
    BY <1>0, <1>2 DEF create_data_file, NextFile
  <2>2. file_state'[f] = "short"
    BY <1>0, <2>1 DEF FilesInv
  <2> QED
    BY <2>1, <2>2 DEF HalfCreated
<1>3. CASE CreateWrite
  <2>1. f # NextFile /\ phase' # "creating" /\ file_state' = [file_state EXCEPT ![NextFile] = "whole"]
    BY <1>0, <1>3 DEF CreateWrite
  <2>2. file_state'[f] = "short"
    BY <1>0, <2>1 DEF FilesInv
  <2> QED
    BY <2>1, <2>2 DEF HalfCreated
<1>4. CASE UNCHANGED <<phase, opened, file_state>>
  BY <1>0, <1>4 DEF HalfCreated, NextFile
<1> QED
  BY <1>1, <1>2, <1>3, <1>4, WorkKeepsFiles DEF RNext, open_storage, close_storage

\* One process that ends in create_data_file() between open() and write(), or
\* whose write() fails, and no later process opens the storage again: each runs
\* on with a freed g_storage.
THEOREM HalfCreatedIsForEver == RSpec => [](HalfCreated => []~Running)
<1>1. FilesInv /\ HalfCreated => ~Running
  BY DEF FilesInv, HalfCreated, Loaded, Running
<1> QED
  BY <1>1, FilesInit, FilesStep, HalfCreatedStep, PTL DEF RSpec

\* When the writes of data, headers and index entries succeed and sizes fit an
\* int, a directory that processes open, use and leave at any moment but those
\* of Exposed is opened with whole files, and has free lists and file ends
\* apart from the slots of the records, and records with their data, except
\* those whose block a dead process was rewriting.
THEOREM RestartsAreSafe ==
    ASSUME DiskWorks
    PROVE  RSpec => []RestartIsSafe
<1>1. SafeInv => RestartIsSafe
  <2> SUFFICES ASSUME SafeInv PROVE RestartIsSafe
    OBVIOUS
  <2>1. OpensWholeFiles
    BY DEF SafeInv, FilesInv, Loaded, Running, OpensWholeFiles
  <2>2. ASSUME Serving, ~damaged
        PROVE  TypeInv /\ WorkInv /\ DataKept
    BY <2>2 DEF SafeInv, Serving, Loaded
  <2>3. RestartKeepsData
    BY <2>2 DEF RestartKeepsData, DataKept
  <2>4. RestartKeepsSlots
    <3> SUFFICES ASSUME Serving, ~damaged
                 PROVE  /\ NoSharedSlot
                        /\ \A b \in Buckets, k \in Keys : index[b][k] # None =>
                             index[b][k].offset
                               <= block_cnt[index[b][k].block_id] + free_slots_cnt[index[b][k].block_id]
      BY DEF RestartKeepsSlots
    <3>1. NoSharedSlot /\ Bounded
      BY <2>2 DEF WorkInv, SlotInv
    <3>2. ASSUME NEW b \in Buckets, NEW k \in Keys, index[b][k] # None
          PROVE  index[b][k].offset <= block_cnt[index[b][k].block_id] + free_slots_cnt[index[b][k].block_id]
      <4>1. PICK f \in Files, s \in Slots : f = index[b][k].block_id /\ s = index[b][k].offset
        BY <2>2, <3>2 DEF TypeInv, TypeOK, OffsetsOK, Entry
      <4>2. Live(f, s, b, k)
        BY <3>2, <4>1 DEF Live
      <4> QED
        BY <3>1, <4>1, <4>2 DEF Bounded
    <3> QED
      BY <3>1, <3>2
  <2> QED
    BY <2>1, <2>3, <2>4 DEF RestartIsSafe
<1>2. SafeInv /\ [RNext]_rvars => SafeInv'
  BY SafeStep
<1> QED
  BY <1>1, <1>2, SafeInit, PTL DEF RSpec

\* With nobody in a call, the headers on disk are those in memory.
LEMMA IdleHeaders ==
    ASSUME TypeInv, WorkInv, \A w \in Workers : pc[w] = "idle", NEW f \in Files
    PROVE  /\ disk_hdr[f] = CurrentHeader(f)
           /\ \A p \in Positions : p < free_slots_cnt[f] => disk_slots[f][p] = free_slots_offset[f][p]
<1>1. Reusing(f, Workers) = {} /\ Growing(f, Workers) = {} /\ Freeing(f, Workers) = {}
  BY DEF Reusing, Growing, Freeing
<1>2. /\ Cardinality(Reusing(f, Workers)) = 0 /\ Cardinality(Growing(f, Workers)) = 0
      /\ Cardinality(Freeing(f, Workers)) = 0
  BY <1>1, FS_EmptySet
<1>3. block_cnt[f] \in Int /\ free_slots_cnt[f] \in Int
  BY DEF TypeInv, TypeOK
<1>4. disk_hdr[f] \in [block_cnt: {block_cnt[f]}, free_slots_cnt: {free_slots_cnt[f]}]
  BY <1>2, <1>3 DEF WorkInv, HeaderNear, RacyHeaders
<1>5. disk_hdr[f] = CurrentHeader(f)
  BY <1>4 DEF CurrentHeader
<1>6. \A p \in Positions : ~SlotPending(f, p)
  BY DEF SlotPending, SlotWriter
<1> QED
  BY <1>5, <1>6 DEF WorkInv, SlotsNear

\* When writes succeed, a "power halt" of a storage that nobody is using leaves
\* the index, the counters and the free lists on disk as they are in memory.
THEOREM HaltLosesNothing ==
    ASSUME DiskWorks
    PROVE  RSpec => []HaltKeepsAll
<1>1. SafeInv => HaltKeepsAll
  BY IdleHeaders DEF SafeInv, Loaded, HaltKeepsAll
<1>2. SafeInv /\ [RNext]_rvars => SafeInv'
  BY SafeStep
<1> QED
  BY <1>1, <1>2, SafeInit, PTL DEF RSpec

\* A storage that was halted with nobody using it can be opened again: it is at
\* none of the moments of Exposed, and no record becomes a victim.
HaltIsClean ==
    phase = "exiting" /\ ~ damaged /\ (\A w \in Workers : pc[w] = "idle") =>
        ~ Exposed /\ \A b \in Buckets, k \in Keys : ~ HalfRewritten(b, k)

\* When writes succeed, what "power halt" leaves behind is never one of the
\* states for which Recovery claims nothing.
THEOREM HaltedStorageReopens ==
    ASSUME DiskWorks
    PROVE  RSpec => []HaltIsClean
<1>1. SafeInv => HaltIsClean
  <2> SUFFICES ASSUME SafeInv, phase = "exiting", ~damaged, \A w \in Workers : pc[w] = "idle"
               PROVE  ~Exposed /\ \A b \in Buckets, k \in Keys : ~HalfRewritten(b, k)
    BY DEF HaltIsClean
  <2>1. TypeInv /\ WorkInv /\ index_disk = index
    BY DEF SafeInv, Loaded
  <2>2. \A b \in Buckets, k \in Keys : ~Stale(b, k) /\ ~HalfRewritten(b, k)
    BY <2>1 DEF Stale, HalfRewritten, Rewriting
  <2>3. ASSUME NEW f \in Files PROVE ~FreeingSlot(f) /\ ~MixedHeader(f)
    <3>1. ~FreeingSlot(f)
      BY DEF FreeingSlot
    <3>a. disk_hdr[f] = CurrentHeader(f)
      BY <2>1, IdleHeaders
    <3>2. disk_hdr[f].block_cnt = block_cnt[f] /\ disk_hdr[f].free_slots_cnt = free_slots_cnt[f]
      BY <3>a DEF CurrentHeader
    <3>3. PICK m \in Int, n \in Int, g \in Nat :
            m = block_cnt[f] /\ n = free_slots_cnt[f] /\ g = Cardinality(Growing(f, Workers))
      BY <2>1, PendingCounts DEF TypeInv, TypeOK
    <3>4. ~(m + n < m + n - g)
      BY <3>3
    <3> QED
      BY <3>1, <3>2, <3>3, <3>4 DEF MixedHeader
  <2> QED
    BY <2>2, <2>3 DEF Exposed
<1>2. SafeInv /\ [RNext]_rvars => SafeInv'
  BY SafeStep
<1> QED
  BY <1>1, <1>2, SafeInit, PTL DEF RSpec

=============================================================================
