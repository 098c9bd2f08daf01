----------------------------- MODULE Recovery -----------------------------
(***************************************************************************)
(* The life of a data directory across processes: open_storage() on what   *)
(* an earlier process left, the storage at work (module Storage), the      *)
(* power command that closes it beside the workers, and a process that     *)
(* dies at any moment.                                                     *)
(*                                                                         *)
(* What survives a process is what write() has handed to the kernel: the   *)
(* data files with their headers (content, disk_hdr, disk_slots) and as    *)
(* much of the index as Berkeley DB has written.  The database has a       *)
(* memory pool, an in-memory log and no transactions: it writes a dirty    *)
(* record when it likes, when it is synced and when it is closed.          *)
(* The journal is emptied by every opening, so replaying it starts from    *)
(* the index that was opened: that is what the variable journal shows.     *)
(***************************************************************************)
EXTENDS Storage

CONSTANTS
    OpenFaults,         \* what may fail when a storage is opened: a subset of data, index, journal
    MaxStops,           \* bound: processes that end
    MaxCalls            \* bound: calls of the storage

\* The data node opens one bucket.
ASSUME RecoveryAssumption ==
    /\ IsFiniteSet(Buckets) /\ Cardinality(Buckets) = 1
    /\ OpenFaults \subseteq {"data", "index", "journal"}
    /\ MaxStops \in Nat
    /\ MaxCalls \in Nat

VARIABLES
    phase,              \* what the process does: see Phases
    opened,             \* data files that the process has opened
    closed,             \* data files that close_storage() has closed
    file_state,         \* per data file on disk: absent, short (of its header) or whole
    logger,             \* index_logger is not NULL
    sync_next,          \* the data file whose header sync_storage() writes next, or NoFile
    index_disk,         \* the index as Berkeley DB has written it
    stops,              \* processes that have ended
    calls,              \* calls of the storage, over all processes
    victims,            \* records whose block a dead process was writing (history)
    damaged             \* a process has ended at a moment for which nothing is claimed (history)

diskvars == <<content, disk_hdr, disk_slots, file_state>>
memvars == <<block_cnt, free_slots_cnt, free_slots_offset>>
history == <<stops, calls, victims, damaged>>
workvars == <<pc, req, locals>>
procvars == <<phase, opened, closed, logger, sync_next>>
rvars == <<vars, phase, opened, closed, file_state, logger, sync_next, index_disk,
           stops, calls, victims, damaged>>

\* "dangling": open_storage() has failed and main() has gone on.
Phases == {"down", "opening", "creating", "dangling", "up", "closing_files", "closing_index", "exiting"}

\* Workers run from open_storage() on, and while close_storage() does.
Running == phase \in {"up", "closing_files", "closing_index"}

NoFile == -1

\* An empty directory and no process.
RInit ==
    /\ Init
    /\ phase = "down"
    /\ opened = {}
    /\ closed = {}
    /\ file_state = [f \in Files |-> "absent"]
    /\ logger = TRUE
    /\ sync_next = NoFile
    /\ index_disk = index
    /\ stops = 0
    /\ calls = 0
    /\ victims = {}
    /\ damaged = FALSE

-----------------------------------------------------------------------------
(* open_storage()                                                          *)

\* init_storage() clears the table of data files.  (A directory that was left
\* at one of the moments of Exposed is not opened again: bound.)
Start ==
    /\ phase = "down"
    /\ ~ damaged
    /\ phase' = "opening"
    /\ opened' = {} /\ closed' = {}
    /\ UNCHANGED <<vars, file_state, logger, sync_next, index_disk, history>>

\* open_data_files() takes the files in the order of their sizes.
NextFile == CHOOSE f \in Files \ opened : \A g \in Files \ opened : f <= g

\* The defect "open the file and do not read its header".
LoadWithoutHeader ==
    /\ phase = "opening"
    /\ opened # Files
    /\ file_state[NextFile] = "whole"
    /\ opened' = opened \cup {NextFile}
    /\ UNCHANGED <<vars, phase, closed, file_state, logger, sync_next, index_disk, history>>

\* load_data_file(): the header gives the counters and the free list.
load_data_file ==
    LET f == NextFile IN
    /\ phase = "opening"
    /\ opened # Files
    /\ file_state[f] = "whole"
    /\ block_cnt' = [block_cnt EXCEPT ![f] = disk_hdr[f].block_cnt]
    /\ free_slots_cnt' = [free_slots_cnt EXCEPT ![f] = disk_hdr[f].free_slots_cnt]
    /\ free_slots_offset' = [free_slots_offset EXCEPT ![f] = disk_slots[f]]
    /\ opened' = opened \cup {f}
    /\ UNCHANGED <<indexvars, index_lock, file_lock, diskvars, workvars, phase, closed, logger, sync_next,
                   index_disk, history>>

\* create_data_file(): open() with O_CREAT ...
create_data_file ==
    LET f == NextFile IN
    /\ phase = "opening"
    /\ opened # Files
    /\ file_state[f] = "absent"
    /\ file_state' = [file_state EXCEPT ![f] = "short"]
    /\ phase' = "creating"
    /\ UNCHANGED <<vars, opened, closed, logger, sync_next, index_disk, history>>

\* ... and the write() of an empty header.
CreateWrite ==
    LET f == NextFile IN
    /\ phase = "creating"
    /\ file_state' = [file_state EXCEPT ![f] = "whole"]
    /\ opened' = opened \cup {f}
    /\ phase' = "opening"
    /\ UNCHANGED <<vars, closed, logger, sync_next, index_disk, history>>

\* The environment is opened without recovery, its log is in memory: the
\* database is what the file holds.
open_transaction_bdb == index' = index_disk

\* The defect "open the journal without O_TRUNC".
OpenKeepsJournal ==
    /\ phase = "opening"
    /\ opened = Files
    /\ open_transaction_bdb
    /\ logger' = TRUE
    /\ phase' = "up"
    /\ UNCHANGED <<journal, index_lock, file_lock, memvars, diskvars, workvars, opened, closed, sync_next,
                   index_disk, history>>

\* open_index_file(): the index as it is on disk, a new lock, and a journal
\* that O_TRUNC has emptied.  An error of index_logger_create() is logged and
\* not returned: index_logger is NULL and open_storage() succeeds.
open_index_file ==
    /\ phase = "opening"
    /\ opened = Files
    /\ open_transaction_bdb
    /\ journal' = index_disk
    /\ logger' \in {TRUE} \cup {j \in {FALSE} : "journal" \in OpenFaults}
    /\ phase' = "up"
    /\ UNCHANGED <<index_lock, file_lock, memvars, content, disk_hdr, disk_slots, workvars, opened, closed,
                   file_state, sync_next, index_disk, history>>

\* A data file cannot be opened, its header is not whole, or the write() of
\* its first header fails and leaves it short: open_storage() frees *bsp, which
\* still points there, and returns an error.  init_datanode_vars() returns it,
\* main() does not look at it and starts the threads of the node.
OpenFails ==
    /\ \/ phase = "opening" /\ opened # Files /\ (file_state[NextFile] = "short" \/ "data" \in OpenFaults)
       \/ phase = "creating" /\ "data" \in OpenFaults
    /\ phase' = "dangling"
    /\ UNCHANGED <<vars, opened, closed, file_state, logger, sync_next, index_disk, history>>

\* open_transaction_bdb() fails: it ends the process itself, or returns NULL
\* when it has no memory for its result.
IndexFails ==
    /\ phase = "opening"
    /\ opened = Files
    /\ "index" \in OpenFaults
    /\ phase' \in {"down", "dangling"}
    /\ UNCHANGED <<vars, opened, closed, file_state, logger, sync_next, index_disk, history>>

open_storage ==
    Start \/ load_data_file \/ create_data_file \/ CreateWrite \/ open_index_file
    \/ OpenFails \/ IndexFails

-----------------------------------------------------------------------------
(* The storage at work                                                     *)

\* The next step of w reads or writes data file f.
Touches(w, f) ==
    \/ pc[w] \in {"find_read", "modify", "modify_write", "delete_header", "delete_sync_slot"} /\ iv[w].block_id = f
    \/ pc[w] \in {"append_reuse", "append_grow"} /\ new_iv[w].block_id = f
    \/ pc[w] = "append" /\ NewBlock(w) = f

\* The next step of w writes to the journal.
Journals(w) == pc[w] \in {"modify_put", "append_put", "delete_record"}

\* A step of a worker on files that are open, with a journal that is there:
\* index_logger_append(NULL) and an assert() on a closed file end the process
\* (Stop).
Serve(w) ==
    /\ Running
    /\ \A f \in closed : ~ Touches(w, f)
    /\ Journals(w) => logger
    /\ phase = "closing_index" => ~ (pc[w] = "update" /\ Record(w) = None)
    /\ Work(w)
    /\ UNCHANGED <<procvars, file_state, index_disk, history>>

\* Requests that are queued are taken while the storage closes, too.
Request(w) ==
    /\ Running
    /\ calls < MaxCalls
    /\ Call(w)
    /\ calls' = calls + 1
    /\ UNCHANGED <<procvars, file_state, index_disk, stops, victims, damaged>>

\* Berkeley DB writes a record that it has in its cache.
BdbWrites(b, k) ==
    /\ Running
    /\ index_disk[b][k] # index[b][k]
    /\ index_disk' = [index_disk EXCEPT ![b][k] = index[b][k]]
    /\ UNCHANGED <<vars, procvars, file_state, history>>

-----------------------------------------------------------------------------
(* sync_storage() and close_storage(), by the assign thread, for "sync"    *)
(* and for "power halt", while the workers go on.                          *)

sync_bdb == index_disk' = index

\* sync_bdb() and the flush of the journal: all there is to "sync index", the
\* start of "sync all", and of "power halt", which closes the storage next.
SyncIndex ==
    /\ phase = "up"
    /\ sync_next = NoFile
    /\ sync_bdb
    /\ \/ UNCHANGED <<phase, sync_next>>
       \/ sync_next' = 0 /\ phase' \in {"up", "closing_files"}
    /\ UNCHANGED <<vars, opened, closed, logger, file_state, history>>

\* The loop of sync_data_file_header(), without the locks of the files.
SyncHeader ==
    /\ phase \in {"up", "closing_files"}
    /\ sync_next # NoFile
    /\ sync_storage(sync_next)
    /\ sync_next' = IF sync_next + 1 \in Files THEN sync_next + 1 ELSE NoFile
    /\ UNCHANGED <<phase, opened, closed, logger, file_state, index_disk, history>>

\* The header of each file is written, without its lock, and the file closed.
CloseFile ==
    /\ phase = "closing_files"
    /\ sync_next = NoFile
    /\ \E f \in Files \ closed :
        /\ \A g \in Files \ closed : f <= g
        /\ sync_storage(f)
        /\ closed' = closed \cup {f}
    /\ UNCHANGED <<phase, opened, file_state, logger, sync_next, index_disk, history>>

\* A write to a file that is closed by now: append_block() and
\* do_delete_block() do not look at the result and go on.  (modify_block()
\* asserts that it succeeded: Stop.)
WriteClosed(w) ==
    /\ phase = "closing_files"
    /\ \E f \in closed : Touches(w, f)
    /\ \/ /\ pc[w] \in {"append_reuse", "append_grow"}
          /\ file_lock' = [file_lock EXCEPT ![new_iv[w].block_id] = Disown(@, w)]
          /\ Goto(w, "append_put")
          /\ UNCHANGED ret
       \/ /\ pc[w] = "delete_header"
          /\ Goto(w, "delete_sync_slot")
          /\ UNCHANGED <<file_lock, ret>>
       \/ /\ pc[w] = "delete_sync_slot"
          /\ AfterDelete(w)
          /\ UNCHANGED file_lock
    /\ damaged' = TRUE
    /\ UNCHANGED <<indexvars, index_lock, memvars, diskvars, req, iv, new_iv, slot_pos, out, procvars,
                   index_disk, stops, calls, victims>>

\* An append that had passed assert(fh->fd > 0) before the file was closed: a
\* slot is taken, the writes fail, and the record is indexed next.
AppendClosed(w) ==
    LET f == NewBlock(w)
        reuse == free_slots_cnt[f] # 0
        p == free_slots_cnt[f] - 1
        s == IF reuse THEN free_slots_offset[f][p] ELSE block_cnt[f] + 1
    IN
    /\ phase = "closing_files"
    /\ pc[w] = "append" /\ f \in closed
    /\ CanOwn(file_lock[f])
    /\ new_iv' = [new_iv EXCEPT ![w] = NewValue(w, s)]
    /\ block_cnt' = [block_cnt EXCEPT ![f] = @ + 1]
    /\ free_slots_cnt' = [free_slots_cnt EXCEPT ![f] = IF reuse THEN p ELSE 0]
    /\ free_slots_offset' = [free_slots_offset EXCEPT ![f] = IF reuse THEN [@ EXCEPT ![p] = 0] ELSE @]
    /\ Goto(w, "append_put")
    /\ damaged' = TRUE
    /\ UNCHANGED <<indexvars, index_lock, file_lock, diskvars, req, iv, slot_pos, ret, out, procvars,
                   index_disk, stops, calls, victims>>

\* A read from a file that is closed by now.
ReadClosed(w) ==
    /\ Running
    /\ pc[w] = "find_read" /\ iv[w].block_id \in closed
    /\ file_lock' = [file_lock EXCEPT ![iv[w].block_id] = Unshare(@, w)]
    /\ Returns(w, -1)
    /\ Goto(w, "done")
    /\ UNCHANGED <<indexvars, index_lock, memvars, diskvars, req, iv, new_iv, slot_pos, out, procvars,
                   index_disk, history>>

\* block_type_count is 0.
FilesClosed ==
    /\ phase = "closing_files"
    /\ closed = Files
    /\ phase' = "closing_index"
    /\ UNCHANGED <<vars, opened, closed, file_state, logger, sync_next, index_disk, history>>

\* No block_id is valid any more: modify_block() and append_block() refuse
\* theirs, and for a new record find_block_file() has none, which
\* update_block() reports with ret still 0.
Refused(w) ==
    /\ phase = "closing_index"
    /\ \/ pc[w] = "modify" /\ Returns(w, -1) /\ UNCHANGED index_lock
       \/ pc[w] = "append" /\ Returns(w, IF iv[w] = NoEntry THEN -4 ELSE -3) /\ UNCHANGED index_lock
       \/ pc[w] = "update" /\ Record(w) = None /\ OwnIndex(w) /\ UNCHANGED ret
    /\ Goto(w, "unlock")
    /\ UNCHANGED <<indexvars, file_lock, memvars, diskvars, req, iv, new_iv, slot_pos, out, procvars,
                   index_disk, history>>

\* The defect "close with DB_NOSYNC".
CloseWithoutSync ==
    /\ phase = "closing_index"
    /\ phase' = "exiting"
    /\ UNCHANGED <<vars, opened, closed, file_state, logger, sync_next, index_disk, history>>

\* close_bdb() writes the rest of the index; indexdb is NULL afterwards.
close_bdb ==
    /\ phase = "closing_index"
    /\ index_disk' = index
    /\ phase' = "exiting"
    /\ UNCHANGED <<vars, opened, closed, file_state, logger, sync_next, history>>

close_storage == CloseFile \/ FilesClosed \/ close_bdb

-----------------------------------------------------------------------------
(* The end of a process                                                    *)

\* The record of k on disk is not where the index has it: the record was
\* deleted or moved, its slot may be free, and the database has not written
\* that yet.
Stale(b, k) ==
    /\ index_disk[b][k] # None
    /\ \/ index[b][k] = None
       \/ index[b][k].block_id # index_disk[b][k].block_id
       \/ index[b][k].offset # index_disk[b][k].offset

\* A worker is in do_delete_block(): the counters and the entry of the free
\* list go to disk one after the other.
FreeingSlot(f) ==
    \E w \in Workers : pc[w] \in {"delete_header", "delete_sync_slot"} /\ iv[w].block_id = f

\* A header written without the file lock mixes old and new counters.
MixedHeader(f) ==
    disk_hdr[f].block_cnt + disk_hdr[f].free_slots_cnt
        < block_cnt[f] + free_slots_cnt[f] - Cardinality(Growing(f, Workers))

\* The block of k has been rewritten in place, or is being rewritten, and the
\* database has not written the new index entry yet.
HalfRewritten(b, k) ==
    \/ \E w \in Workers : Rewriting(w, b, k)
    \/ ~ Stale(b, k) /\ index_disk[b][k] # None /\ index_disk[b][k] # index[b][k]

\* The moments for which nothing is claimed about the next process.
Exposed ==
    /\ phase \in {"up", "closing_files", "closing_index", "exiting"}
    /\ \/ \E b \in Buckets, k \in Keys : Stale(b, k)
       \/ \E f \in Files : FreeingSlot(f) \/ MixedHeader(f)

\* The process is gone, with it locks, calls, counters and the cache of the
\* database.
EndProcess(harm) ==
    /\ stops < MaxStops
    /\ stops' = stops + 1
    /\ phase' = "down"
    /\ damaged' = (damaged \/ harm)
    /\ victims' = {bk \in Buckets \X Keys :
                      bk \in victims \/ HalfRewritten(bk[1], bk[2])}
    /\ logger' = TRUE
    /\ sync_next' = NoFile
    /\ index' = index_disk
    /\ index_lock' = [b \in Buckets |-> NewLock(Workers)]
    /\ file_lock' = [f \in Files |-> NewLock(Workers)]
    /\ block_cnt' = [f \in Files |-> 0]
    /\ free_slots_cnt' = [f \in Files |-> 0]
    /\ free_slots_offset' = [f \in Files |-> [p \in Positions |-> 0]]
    /\ pc' = [w \in Workers |-> "idle"]
    /\ req' = [w \in Workers |-> NoRequest]
    /\ iv' = [w \in Workers |-> NoEntry]
    /\ new_iv' = [w \in Workers |-> NoEntry]
    /\ slot_pos' = [w \in Workers |-> 0]
    /\ ret' = [w \in Workers |-> 0]
    /\ out' = [w \in Workers |-> None]
    /\ opened' = {} /\ closed' = {}
    /\ UNCHANGED <<journal, diskvars, index_disk, calls>>

\* abort(), a signal, or exit() after close_storage().  A node that goes on after
\* open_storage() has failed ends so with its first request, as long as the
\* freed g_storage is still zero: index_lock and indexdb are NULL.
Stop == phase # "down" /\ EndProcess(Exposed)

\* The chunk of g_storage serves something else by then: the request uses
\* whatever is there as index, lock and journal.  Nothing is claimed of the
\* directory afterwards.
UseFreedStorage == phase = "dangling" /\ EndProcess(TRUE)

RNext ==
    \/ open_storage
    \/ \E w \in Workers : Request(w) \/ Serve(w)
    \/ \E w \in Workers : WriteClosed(w) \/ AppendClosed(w) \/ ReadClosed(w) \/ Refused(w)
    \/ \E b \in Buckets, k \in Keys : BdbWrites(b, k)
    \/ SyncIndex \/ SyncHeader
    \/ close_storage
    \/ Stop \/ UseFreedStorage

RSpec == RInit /\ [][RNext]_rvars

-----------------------------------------------------------------------------
Serving == phase \in {"up", "closing_files"}

\* However many processes have opened the directory before, and wherever they
\* stopped outside the moments of Exposed: no slot that a record of the index
\* refers to is on the free list or will be handed out as a new one.
RestartKeepsSlots ==
    Serving /\ ~ damaged =>
        /\ NoSharedSlot
        /\ \A b \in Buckets, k \in Keys : index[b][k] # None =>
             index[b][k].offset <= block_cnt[index[b][k].block_id] + free_slots_cnt[index[b][k].block_id]

\* ... and every record of the index still has its data, except those whose
\* block was being rewritten when a process died.
RestartKeepsData ==
    Serving /\ ~ damaged =>
        \A b \in Buckets, k \in Keys :
            index[b][k] # None /\ <<b, k>> \notin victims /\ (\A w \in Workers : ~ Rewriting(w, b, k))
                => content[index[b][k].block_id][index[b][k].offset] = index[b][k].crc32

\* The journal, replayed over the index that the process opened, gives its
\* index whenever nobody is updating: nothing of an earlier process is in it.
JournalMatchesOpenedIndex ==
    Serving /\ logger => JournalMatchesIndex

\* "power halt" of a storage that nobody is using loses nothing: index,
\* counters and free lists are on disk before the process exits.
HaltKeepsAll ==
    phase = "exiting" /\ ~ damaged /\ (\A w \in Workers : pc[w] = "idle") =>
        /\ index_disk = index
        /\ \A f \in Files :
            /\ disk_hdr[f] = CurrentHeader(f)
            /\ \A p \in Positions : p < free_slots_cnt[f] => disk_slots[f][p] = free_slots_offset[f][p]

\* open_storage() succeeds only on data files whose headers were all written
\* whole.  (When it does not succeed the node runs on, with a freed g_storage:
\* "dangling".)
OpensWholeFiles == Running => \A f \in Files : file_state[f] = "whole"

\* A data file was left without a whole header: a process ended between the
\* open() and the write() of create_data_file(), or that write() failed.
HalfCreated == \E f \in Files : file_state[f] = "short" /\ ~ (phase = "creating" /\ f = NextFile)

\* What a process may rely on when it opens a directory that others have used
\* and left: whole files, free lists and file ends apart from the indexed
\* slots, and records with their data.
RestartIsSafe == RestartKeepsSlots /\ RestartKeepsData /\ OpensWholeFiles
=============================================================================
