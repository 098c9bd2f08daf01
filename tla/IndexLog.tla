------------------------------ MODULE IndexLog ------------------------------
(***************************************************************************)
(* The journal of an index, src/indexlog.c: two buffers that swap roles,   *)
(* index_logger_append() by the workers, index_logger_flush() by whoever   *)
(* syncs the storage, a crash, the reopening that truncates the file, and  *)
(* a reader that fetches the items again.                                  *)
(*                                                                         *)
(* An item is the number it gets when it enters the working buffer: 1, 2,  *)
(* 3 ... in the order of the appends.  A block of the file is the count in *)
(* its header and the items that were written after it.                    *)
(***************************************************************************)
EXTENDS Integers, Sequences, FiniteSets, SequencesExt

CONSTANTS
    Threads,        \* threads that append and flush
    BUF_ITEMS,      \* items that fit LOG_BUF_SIZE
    WriteFailures,  \* how a write() may fail: a subset of {"nothing", "short"}
    MaxItems,       \* bound: items appended between two openings
    MaxCrashes,     \* bound: crashes
    None

ASSUME IndexLogAssumption ==
    /\ BUF_ITEMS \in Nat \ {0}
    /\ WriteFailures \subseteq {"nothing", "short"}
    /\ MaxItems \in Nat
    /\ MaxCrashes \in Nat
    /\ None \notin Threads

VARIABLES
    buffer,             \* buffer1 and buffer2: the items they hold
    curr_working_buf,   \* 1 or 2
    working_lock,       \* the thread that holds it, or None
    storing_lock,
    file,               \* the blocks of the journal
    pc,                 \* per thread: where it is
    call,               \* per thread: "append", "flush" or "close"
    appended,           \* items that have entered the working buffer
    flushed,            \* the value of appended when a flush last reported success
    failed,             \* a write has failed since the journal was opened
    up,                 \* the process runs
    crashes,
    reader              \* a reading index_logger_s: its position and what it has returned

locks == <<working_lock, storing_lock>>
vars == <<buffer, curr_working_buf, working_lock, storing_lock, file, pc, call, appended, flushed, failed,
          up, crashes, reader>>

Items == 1 .. MaxItems
Storing == 3 - curr_working_buf
NoReader == [open |-> FALSE, block |-> 0, fetch_id |-> -1, got |-> << >>, lost |-> FALSE, stale |-> FALSE]

\* index_logger_create(): O_TRUNC empties the journal.
Init ==
    /\ buffer = [i \in {1, 2} |-> << >>]
    /\ curr_working_buf = 1
    /\ working_lock = None
    /\ storing_lock = None
    /\ file = << >>
    /\ pc = [t \in Threads |-> "idle"]
    /\ call = [t \in Threads |-> "append"]
    /\ appended = 0
    /\ flushed = 0
    /\ failed = FALSE
    /\ up = TRUE
    /\ crashes = 0
    /\ reader = NoReader

-----------------------------------------------------------------------------
Goto(t, place) == pc' = [pc EXCEPT ![t] = place]

\* Threads that may still add an item.
Appending == {t \in Threads : call[t] = "append" /\ pc[t] # "idle"}

\* A thread calls index_logger_append(), index_logger_flush() or, once,
\* index_logger_close().
Call(t) ==
    /\ up
    /\ pc[t] = "idle"
    /\ Goto(t, "lock")
    /\ \E c \in {"append", "flush", "close"} :
        /\ c = "close" => \A u \in Threads : pc[u] = "idle" \/ call[u] # "close"
        /\ c = "append" => appended + Cardinality(Appending) < MaxItems
        /\ call' = [call EXCEPT ![t] = c]
    /\ UNCHANGED <<buffer, curr_working_buf, locks, file, appended, flushed, failed, up, crashes, reader>>

\* The defect "the buffer that becomes the working one keeps its items".
SwitchBufferKeeps ==
    /\ curr_working_buf' = Storing
    /\ UNCHANGED buffer

\* switch_buffer(): the full buffer is stored next, the other one is emptied.
switch_buffer ==
    /\ curr_working_buf' = Storing
    /\ buffer' = [buffer EXCEPT ![Storing] = << >>]

\* The defect "one item more than the buffer holds".
FullLate == Len(buffer[curr_working_buf]) > BUF_ITEMS

Full == Len(buffer[curr_working_buf]) + 1 > BUF_ITEMS

\* index_logger_append(): Lock(working); a full buffer is switched under
\* Lock(storing).
AppendLock(t) ==
    /\ up
    /\ pc[t] = "lock" /\ call[t] = "append"
    /\ working_lock = None
    /\ working_lock' = t
    /\ IF Full
       THEN storing_lock = None /\ storing_lock' = t /\ switch_buffer /\ Goto(t, "write")
       ELSE Goto(t, "put") /\ UNCHANGED <<storing_lock, buffer, curr_working_buf>>
    /\ UNCHANGED <<file, call, appended, flushed, failed, up, crashes, reader>>

\* The defect "the item goes to the buffer that is being stored".
AppendPutStoring(t) ==
    /\ up
    /\ pc[t] = "put"
    /\ appended' = appended + 1
    /\ buffer' = [buffer EXCEPT ![Storing] = Append(@, appended')]
    /\ working_lock' = None
    /\ Goto(t, "idle")
    /\ UNCHANGED <<curr_working_buf, storing_lock, file, call, flushed, failed, up, crashes, reader>>

\* The item is copied to the working buffer, UnLock(working), RET_SUCCESS.
AppendPut(t) ==
    /\ up
    /\ pc[t] = "put"
    /\ appended' = appended + 1
    /\ buffer' = [buffer EXCEPT ![curr_working_buf] = Append(@, appended')]
    /\ working_lock' = None
    /\ Goto(t, "idle")
    /\ UNCHANGED <<curr_working_buf, storing_lock, file, call, flushed, failed, up, crashes, reader>>

\* The defect "flush an empty buffer as well".
FlushLockAlways(t) ==
    /\ up
    /\ pc[t] = "lock" /\ call[t] \in {"flush", "close"}
    /\ working_lock = None
    /\ storing_lock = None
    /\ working_lock' = t /\ storing_lock' = t
    /\ switch_buffer
    /\ Goto(t, "write")
    /\ UNCHANGED <<file, call, appended, flushed, failed, up, crashes, reader>>

\* Where a flush leads: index_logger_close() goes on, whatever it returned.
AfterFlush(t) == Goto(t, IF call[t] = "close" THEN "close" ELSE "idle")

\* index_logger_flush(): nothing to do for an empty buffer, else switch.
FlushLock(t) ==
    /\ up
    /\ pc[t] = "lock" /\ call[t] \in {"flush", "close"}
    /\ working_lock = None
    /\ IF buffer[curr_working_buf] = << >>
       THEN flushed' = appended /\ AfterFlush(t)
            /\ UNCHANGED <<locks, buffer, curr_working_buf>>
       ELSE /\ storing_lock = None
            /\ working_lock' = t /\ storing_lock' = t
            /\ switch_buffer /\ Goto(t, "write")
            /\ UNCHANGED flushed
    /\ UNCHANGED <<file, call, appended, failed, up, crashes, reader>>

Block(count, items) == [count |-> count, items |-> items]

\* sync_index_log(): one write() of header and items, then fsync(); the caller
\* goes on to its item (append) or returns (flush).
sync_index_log(t) ==
    /\ up
    /\ pc[t] = "write"
    /\ file' = Append(file, Block(Len(buffer[Storing]), buffer[Storing]))
    /\ storing_lock' = None
    /\ IF call[t] = "append"
       THEN Goto(t, "put") /\ UNCHANGED <<working_lock, flushed>>
       ELSE AfterFlush(t) /\ working_lock' = None /\ flushed' = appended
    /\ UNCHANGED <<buffer, curr_working_buf, call, appended, failed, up, crashes, reader>>

\* write() fails: nothing or only a part of the block reaches the file, and
\* the call returns RET_FAILED.  The items of the buffer are given up, and so
\* is the item of an append.
SyncFails(t) ==
    /\ up
    /\ pc[t] = "write"
    /\ \/ "nothing" \in WriteFailures /\ UNCHANGED file
       \/ /\ "short" \in WriteFailures
          /\ \E n \in 0 .. Len(buffer[Storing]) - 1 :
                file' = Append(file, Block(Len(buffer[Storing]), SubSeq(buffer[Storing], 1, n)))
    /\ failed' = TRUE
    /\ storing_lock' = None
    /\ working_lock' = None
    /\ AfterFlush(t)
    /\ UNCHANGED <<buffer, curr_working_buf, call, appended, flushed, up, crashes, reader>>

-----------------------------------------------------------------------------
\* The process is gone: so are buffers and locks; what fsync() wrote stays.
Gone ==
    /\ up' = FALSE
    /\ buffer' = [i \in {1, 2} |-> << >>]
    /\ curr_working_buf' = 1
    /\ working_lock' = None /\ storing_lock' = None
    /\ pc' = [t \in Threads |-> "idle"]
    /\ UNCHANGED <<file, call, appended, flushed, failed, reader>>

Crash ==
    /\ up
    /\ crashes < MaxCrashes
    /\ crashes' = crashes + 1
    /\ Gone

\* The rest of index_logger_close(), in close_storage(): the file is closed,
\* the logger freed, and the process exits, with it whatever the other
\* threads have appended since the flush.
WriterClose(t) ==
    /\ up
    /\ pc[t] = "close"
    /\ Gone
    /\ UNCHANGED crashes

\* A reader that has gone beyond the magic header of the journal, and one whose
\* journal is no longer the one it began to read.
Advanced == reader.block # 0 \/ reader.lost \/ reader.stale
StaleReader == [NoReader EXCEPT !.open = TRUE, !.stale = TRUE]

\* open_index_file() of the next process calls index_logger_create(): O_TRUNC
\* empties the file under a reader that has it open, and leaves the reader its
\* position in bytes, which means nothing in the new journal (the model forgets
\* it).  Only a reader that has not read beyond the magic header is at a place
\* both files have.
index_logger_create ==
    /\ ~up
    /\ up' = TRUE
    /\ file' = << >>
    /\ appended' = 0
    /\ flushed' = 0
    /\ failed' = FALSE
    /\ reader' = IF Advanced THEN StaleReader ELSE reader
    /\ UNCHANGED <<buffer, curr_working_buf, locks, pc, call, crashes>>

\* index_logger_open(), as replay_journal does.
index_logger_open ==
    /\ ~reader.open
    /\ reader' = [NoReader EXCEPT !.open = TRUE]
    /\ UNCHANGED <<buffer, curr_working_buf, locks, file, pc, call, appended, flushed, failed, up, crashes>>

\* index_logger_fetch(): with fetch_id = -1 read the header of the next block,
\* then one item.  A block with fewer items than its header says makes the
\* following bytes pass for items: the reader is lost.
index_logger_fetch ==
    LET block == IF reader.fetch_id = -1 THEN reader.block + 1 ELSE reader.block
        id == IF reader.fetch_id = -1 THEN 0 ELSE reader.fetch_id
    IN  /\ reader.open /\ ~reader.lost /\ ~reader.stale
        /\ block <= Len(file)
        /\ IF id < Len(file[block].items)
           THEN reader' = [reader EXCEPT !.block = block,
                               !.fetch_id = IF id + 1 = file[block].count THEN -1 ELSE id + 1,
                               !.got = Append(@, file[block].items[id + 1])]
           ELSE reader' = [reader EXCEPT !.lost = TRUE]
        /\ UNCHANGED <<buffer, curr_working_buf, locks, file, pc, call, appended, flushed, failed, up, crashes>>

\* index_logger_fetch() of a reader whose journal was truncated: it finds the
\* end of the file until the new journal has grown past its position, then
\* takes the bytes it meets there for a header or an item.
FetchStale ==
    /\ reader.open /\ ~reader.lost /\ reader.stale
    /\ file # << >>
    /\ reader' = [reader EXCEPT !.lost = TRUE]
    /\ UNCHANGED <<buffer, curr_working_buf, locks, file, pc, call, appended, flushed, failed, up, crashes>>

\* index_logger_close() of a reader.
ReaderClose ==
    /\ reader.open
    /\ reader' = NoReader
    /\ UNCHANGED <<buffer, curr_working_buf, locks, file, pc, call, appended, flushed, failed, up, crashes>>

Next ==
    \/ \E t \in Threads : \/ Call(t) \/ AppendLock(t) \/ AppendPut(t) \/ FlushLock(t)
                          \/ sync_index_log(t) \/ SyncFails(t) \/ WriterClose(t)
    \/ Crash \/ index_logger_create
    \/ index_logger_open \/ index_logger_fetch \/ FetchStale \/ ReaderClose

Spec == Init /\ [][Next]_vars

-----------------------------------------------------------------------------
\* Type invariant.  Neither buffer ever holds more than LOG_BUF_SIZE.
TypeOK ==
    /\ buffer \in [{1, 2} -> Seq(Items)]
    /\ \A i \in {1, 2} : Len(buffer[i]) <= BUF_ITEMS
    /\ curr_working_buf \in {1, 2}
    /\ working_lock \in Threads \cup {None}
    /\ storing_lock \in Threads \cup {None}
    /\ file \in Seq([count: 0 .. BUF_ITEMS, items: Seq(Items)])
    /\ pc \in [Threads -> {"idle", "lock", "put", "write", "close"}]
    /\ call \in [Threads -> {"append", "flush", "close"}]
    /\ appended \in 0 .. MaxItems
    /\ flushed \in 0 .. MaxItems
    /\ failed \in BOOLEAN
    /\ up \in BOOLEAN
    /\ crashes \in 0 .. MaxCrashes
    /\ reader.got \in Seq(Items) /\ reader.fetch_id \in -1 .. BUF_ITEMS
    /\ reader.block \in 0 .. Len(file)

\* The items in the file, and those still on their way to it.
Written == FlattenSeq([i \in 1 .. Len(file) |-> file[i].items])
BeingStored == IF storing_lock # None THEN buffer[Storing] ELSE << >>
Journalled == Written \o BeingStored \o buffer[curr_working_buf]

UpTo(n) == [i \in 1 .. n |-> i]

\* While writes succeed, file and buffers together hold every item that was
\* appended, once, in order, whatever the threads are doing in
\* index_logger_append() and index_logger_flush().
JournalComplete == up /\ ~failed => Journalled = UpTo(appended)

\* A flush that reports success has put every earlier item in the file, and a
\* crash does not take it back.
FlushDurable == 1 .. flushed \subseteq Range(Written)

\* It holds as long as no write has failed: for the flush itself, an append
\* that switched buffers before it, and a crash at any point.
FlushDurableUnlessFailed == ~failed => FlushDurable

\* Whatever writes fail, no item is journalled twice or out of order.
JournalInOrder == \A i, j \in 1 .. Len(Journalled) : i < j => Journalled[i] < Journalled[j]

\* The journal is the sequence of the appended items: in order and without
\* repetition always, without gaps while writes succeed.
JournalExact == JournalInOrder /\ JournalComplete

\* While writes succeed, a reader gets the items in order from the first, none
\* skipped, also while the journal grows and across a crash of the writer, and
\* never reads one thing for another.  The one exception is a reader that has
\* begun to read when index_logger_create() truncates the file under it: it
\* goes on at its old position, and nothing is claimed of what it gets there.
\* One that has the file open but has not begun reads the new journal whole.
FetchedInOrder == ~failed /\ ~reader.stale => ~reader.lost /\ reader.got = UpTo(Len(reader.got))

=============================================================================
