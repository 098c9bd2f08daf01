# A verification project for linglongta

linglongta is a storage node for many small objects.  A process (the *data
node*) serves a subset of the memcached text protocol; one *assign thread*
accepts connections and reads requests, a pool of *worker threads* executes them
against a *storage engine* that keeps records in fixed-size slots of data files
and finds them through a Berkeley DB index.  This directory holds TLA+ models of
those parts, TLC configurations that check them on small instances, and TLAPS
proofs for every instance.  `PROJECT.json` lists, for machines and for readers,
which definition stands for which lines, what each run checks, the hazards the
properties are for, and the theorems.

## 1. Inventory

| Component | Source | State | Operations | Module |
|---|---|---|---|---|
| read-write lock | `src/rwlock.c` | three queue lengths, a condition variable | rdlock, unrdlock, wrlock, unwrlock | `RWLock`, `SharedLock`, `LockOps` |
| storage engine | `src/storage.c` | per bucket: index, journal, index lock; per data file: counters, free list, file lock, blocks, header on disk | find_block, update_block, delete_block, sync_storage; open_storage, close_storage | `BlockSizes`, `Storage`, `KVStore`, `Recovery` |
| index journal | `src/indexlog.c` | two buffers that swap roles, two mutexes, a file of blocks | append, flush, fetch, create, open, close | `IndexLog` |
| assign thread | `src/assign_thread.c` | the libev loop, a `query_task_s` per connection with two watchers, `last_fd` | accept, receive and parse, time out, dispatch, sync, power | `DataNode` |
| worker threads | `src/query_thread.c` | one pipe and one task each | read pipe, call the storage, build and send the answer, free | `DataNode` |
| parser | `src/memcached_protocol.c` | two nested state machines over a copy of the header | parse a request head | `Parser`; its outcomes in `DataNode` |
| Berkeley DB wrapper | `src/bdblib.c` | the database (external) | open, insert, find, delete, sync, close | `Storage`, as a map that may fail; `Recovery`, with its copy on disk |
| slab allocator | `src/slab.c` | per class: free list, pages, spin lock; shared: `mem_malloced` | alloc, free, realloc | `SlabClasses`, `Slab` |
| I/O layer | `src/iolayer.c` | none | net_read, net_write | how they end, in `DataNode` |

Not modelled: logging, hashing and checksums (pure functions), the unfinished
`master_mirror.c`, vendored libraries, scripts.

**How the parts interact.**  The assign thread owns a task from `accept()` until
it writes the task's pointer into a pipe; the worker that reads the pointer owns
it until it frees it.  Workers call the storage concurrently.  A call takes its
bucket's index lock (shared for a get, exclusive otherwise) and then the lock of
one data file.  Buckets have separate index locks and *share* the data files, so
two updates of different buckets meet in the free lists and counters.  Updates
append to the journal before they change the index.  `sync` and `power` run
`sync_storage()` in the assign thread, beside the workers and without file locks;
`power` then closes the storage under them and exits.  All threads allocate from the
slab allocator.

**What is hard to test** is listed under "hazards" in `PROJECT.json`.  The main
themes: the index lock that a get drops before it reads; slots and counters
shared between buckets; header writes outside every lock; a lock that prefers
readers and decides from counters whether to broadcast; a timer that races the
last bytes of a request; a task that must not be touched after it was handed
over; writes without a time limit; a journal whose failed write forgets its
buffer; calls that fail half-way; a process that ends between two writes, and the next
one that opens what it left; one counter shared by classes that have separate locks;
the ends of header buffers and keys.

**What makes each component correct.**
- Lock: exclusion, exact counters, no lost wakeup, priority for readers, readers
  always get in, writers get in once readers stop.
- Storage: calls are linearizable; a slot has at most one owner; every lock is
  returned; the bytes a get reads are those of the record it found; the header on
  disk catches up; journal and index agree; nobody waits for ever.
- Journal: each item once and in order; a flush that says so is durable; a reader
  never takes one thing for another.
- Restart: no slot of a record is handed out again, records keep their data, a journal
  belongs to one process, an orderly halt loses nothing.
- Slab: each chunk in one place, the smallest class serves, the limit is passed only
  where the code cannot help it.
- Parser: it ends, its two results agree, and it accepts what the command asks for.
- Data node: one owner per task; no answer that is false; no connection dropped
  without a reason; every connection ends; no assertion fails.

## 2. Modules

**`RWLock`** is the monitor of `rwlock.c`.  `pthread_mutex` makes each stretch
between lock, wait and unlock one step; `cond` is the set of sleepers, and
`SpuriousWakeup` lets any of them wake.  `rdlock` and `wrlock` are calls that
enter or go to sleep, `RdWake` and `WrWake` what a woken thread does.
**`SharedLock`** is the abstract readers-writer lock, and **`LockOps`** its
operations as functions of a lock value; `RWLock!RefinesSharedLock` connects the
two, and `Storage` uses `LockOps` for its locks.

**`BlockSizes`** translates `init_storage()`, `calc_block_size()` and
`find_block_file()`: the table of block sizes, the conversion to a signed int, and
the file chosen for a size.

**`Storage`** has one action per stretch of a worker's code that runs under one
set of locks.  `pc` names the place: `find`, `find_file`, `find_read` for
`find_block()`; `update`, `delete`, `unlock` for the frames of `update_block()`
and `delete_block()`; `modify*`, `append*` and `delete_*` for the functions they
call.  Slot *n* stands for its file offset; the crc32 in an index entry stands for
the bytes it was computed from, and `Torn` for a block in the middle of a
`pwrite()`.  A header write outside the file lock may catch either counter before
or after a concurrent change (`RacyHeaders`).  What may fail is a parameter
(`Faults`): index lookups, puts and deletes, data writes, header writes, reads,
allocations, the journal.  A failed `assert()` stops every worker.

**`KVStore`** is what the storage promises: buckets that map keys to values and
calls that take effect at one moment between invocation and return.  `Storage`
implements it (`Linearizable`): a get takes effect at its lookup, a set when the
index entry is put, a del when it is removed; while a set moves a record to a
larger block, the abstract map still shows the old value.  `DataNode` implements
the same module with connections in place of workers (`ServesKVStore`).

**`IndexLog`** models appends and flushes by concurrent threads, the buffer
switch under two locks, writes that fail or are cut short, a crash, the reopening
that truncates the file, and a reader that follows the file as `replay_journal`
does.  `index_logger_create()` may truncate under an open reader; one that had begun to
read is then `stale` and may find anything at its old position (`FetchStale`).  Items are
numbered as they enter the working buffer.

**`DataNode`** models the libev loop (an iteration collects events, then handles
them one by one), the state machine of `query_io_event_handler()` with one step
per pass of its loop, timers, pipes of bounded capacity, the workers, and clients
that send in pieces, send too much, close, reset or stop reading.  Requests are
counted in units of text; the parser appears through its outcomes.  A request says for
each position of its text what the parser would find from there on: `recv_req_head()`
reads every piece of a header over the one before, so that the last piece alone is parsed
(`Seen`), and `have_read` still counts the lost ones.  The storage is
the atomic map that `Storage` is shown to implement.

**`Recovery`** puts a life cycle around `Storage`: a process opens the directory file by
file (`load_data_file()`, `create_data_file()` with the moment between the creation and
the header), opens the index and the journal (`open_index_file()`, either may fail),
serves, syncs, halts (`close_storage()` beside a worker that is still in a call: what a
closed descriptor does to each place is `WriteClosed`, `AppendClosed`, `ReadClosed`,
`Refused`) and may stop at any step.  A process whose `open_storage()` has failed runs on,
because `main()` ignores the result (datanode.c:28), with a pointer to a freed storage:
phase `dangling`, in which nothing is promised of memory and which ends, with unknown
harm, when a thread uses the pointer (`UseFreedStorage`).  Writes to data files survive a stop; the index does
so only as far as Berkeley DB has written it, which it does record by record when it
likes (`BdbWrites`) and completely in `sync_bdb()` and `close_bdb()`.  All actions of
`Storage` are reused unchanged (`Serve`).

**`SlabClasses`** is the table that `slab_init()` computes and the binary search of
`slab_clsid()`; **`Slab`** is the allocator: what runs under the spin lock of a class is
one step, but the test of `mem_malloced` and the load and store of
`mem_malloced += len` are steps of their own, because other classes change it meanwhile.

**`Parser`** runs the states of `parse_memcached_string_head()` and `parse_set_cmd()` on
a header of symbols: separators, letters, digits, and each protocol word as one symbol.
`strtok_r()`, `strncpy()` and `atoi()` are modelled by what they do to such a buffer.
The reference it is compared with (`Word`, `Words`) reads the words off the header
directly.

**`MCStorage`**, **`MCDataNode`**, **`MCRecovery`**, **`MCSlab`**, **`MCParser`** give constants for TLC; `RWLock` and `IndexLog`
need no MC module.  The proofs are in **`RWLockProofs`**, **`StorageProofs`**,
**`StorageDataProofs`** (extends it), **`RecoveryProofs`** (extends that and `Recovery`),
**`DataNodeProofs`**, **`SlabProofs`**, **`IndexLogProofs`** and **`ParserProofs`**, see
section 4.

Definitions called "the defect ..." are deliberate mistakes.  No specification
uses them; each run is repeated with one in place of the definition after it, to
see that the property it belongs to notices.

## 3. Runs

| Run | Instance | States | Shows |
|---|---|---|---|
| `rwlock` | 4 threads | 1 k | the seven properties of the lock, liveness under `FairSpec` |
| `storage_shared_file` | 2 workers, 2 buckets, 1 key each, one data file | 285 k | linearizability, stability of a reader's slot, header on disk, counters |
| `storage_one_bucket` | 2 workers, 1 bucket, two block sizes, failing journal | 49 k | data intact, linearizability, calls finish |
| `storage_failures` | 2 workers, 2 buckets, free list of 1, six kinds of fault, a size beyond `INT_MAX` | 1.7 M | types, no shared slot, locks returned |
| `recovery_restart` | 1 worker and the assign thread, 2 keys, two block sizes, 4 calls, 1 stop at any step | 1.6 M | a restart is safe, the journal is the process's own, a halt keeps everything |
| `node_tasks` | 2 connections, 2 workers, eight kinds of request, all faults | 3.8 M | one owner, answers true of what was read, no task logged twice by the assign thread, justified drops |
| `node_serves` | 2 connections, 1 worker, pipe of 1 | 163 k | the node serves `KVStore`; every connection ends, or a worker is blocked for ever |
| `indexlog_journal` | 2 threads, 5 items, buffers of 2, 1 crash | 1.3 M | the journal's four properties |
| `slab_alloc` | 2 threads, 3 classes and `malloc()`, 3 pages | 2.2 M | each chunk in one place, smallest class, copies within bounds, the limit |
| `parser_lines` | every header of up to five symbols after a command, sets with up to five arguments | 40 k | it ends with results that agree, keys, exact acceptance |

Two runs show a disagreement between the code and what the repository says of it; TLC
finds a counterexample, and "findings" in `PROJECT.json` quotes the line.

| Run | What happens |
|---|---|
| `storage_oversize` | a set of a new key whose value fits no block returns 0 and stores nothing |
| `node_log_twice` | a get of a missing key, on a connection that is reset, aborts the process |

**Exceptions stated in the properties.**  The passing properties name what they cannot
promise, each a behaviour of the code that the models contain:
- `LocksReturned` allows the shared index lock that `find_block()` keeps when it cannot
  allocate the value (storage.c:532): the next update of the bucket waits for ever.
- `FlushDurableUnlessFailed`: after a failed write the buffers have been switched, so a
  second `index_logger_flush()` meets an empty buffer and reports success.
- `FetchedInOrder` excepts a reader that had begun to read when the next process truncated
  the journal under it (indexlog.c:111).
- `AnswersFit` relates an answer to the request that the server read.  When a header comes
  in pieces that is its last piece: of `set ` and `get 0 0 3\r\n` the second is served as
  a get, and the client that sent a set is told END.
- `ConnectionsEnd` assumes nothing of the clients and excepts one case: a worker that is
  blocked for ever in `send_response()` on a client that does not read (`Blocked`).
  query_thread.h:77 describes the timer as "controlling timeout event of both request and
  response", but `dispatch_query_task()` stops it (assign_thread.c:453) and the write to a
  blocking socket has no timeout.  Connections behind such a worker wait with it, and once
  its pipe is full so does the assign thread.  A connection whose task could not be allocated
  (assign_thread.c:535) is never closed; that fault is not enabled there.
- `RestartIsSafe` promises whole files of a storage that was *opened*.  A data file without
  a whole header is refused, and then the node is `dangling`, in this process and, as
  `HalfCreatedIsForEver` says, in every later one.  It says nothing after a stop at one of the moments of `Exposed`: a delete
  or a move that Berkeley DB has not written yet (the old entry comes back while its slot
  is free), the two writes of `do_delete_block()` (the counters say there is one more
  free slot than the list on disk holds, so the next process hands out a zero or an old
  offset), and a header that mixes counters.  Records whose block was being rewritten,
  or was rewritten and their new entry not yet on disk, lose their data; the rest keep it.
- `HaltKeepsAll` is about a storage nobody is using at the moment of exit; a call that
  races the halt may report an error, or 0, for what is not stored.
- `GrowthWithinLimit` allows one page for each page allocation that overlapped another.
- `KeyIsSecondWord` is about keys with at most one space behind them.  `get \r\n` has an
  empty key, and with two spaces and no key the CR LF becomes the key, although the
  comment at memcached_protocol.c:84 asks for a name; get and delete cut a key that is
  too long, set refuses it; a header that fills its buffer loses its LF and is refused.

**Bounds and why they are enough.**  Two workers are the smallest number at which
locks and shared counters matter; the three interesting parties of the reader
race (reader, deleter, reuser of the slot) fit in two, because the deleter may
reuse.  Four threads in `rwlock` allow two readers and two writers at once.  A
free list of one entry overflows with two deletes.  `MaxSlot` is never what stops
an append: `Call` admits a set only when every worker could still get a slot.
`MaxHolds` bounds the shared holds that one worker may leave behind.  Buffers of
two items and five appends fill both buffers twice.  In `recovery_restart` one worker
is enough, because updates of the one bucket exclude each other and the thread that
syncs and halts is a second actor; four calls make a record, free its slot, reuse it and
move a record, before or after the stop; a directory left at an exposed moment is not
opened again.  Three pages and a limit of two let two classes pass the limit together.
`MAX_KEY_SIZE` 3 and `MAX_QUERY_HEADER_SIZE` 14 let keys and headers just fit and just
not fit.  `HEAD_BUF` of three units
holds a whole set, or the head of a request in two pieces; what is left after the first
piece is no command, a get, or a set with data (`SplitGet`, `Twofold`, `BadSet`).
The fault `hwrite` (a header write that fails) is part of the model and of the
theorems and is enabled in no run: it multiplies the states of the header on disk,
about which nothing could be claimed any more.

Deadlock is not checked where the system may rightly stop: when every connection
has ended, when an assertion has ended the process, and in `storage_failures`,
where the leaked index lock blocks an update for ever; also when the calls of
`recovery_restart` are used up, and when a header is parsed.  It is checked in
`slab_alloc`, where a lock left behind would show as a deadlock.

**Fairness.**  `RWLock!Fairness`: a woken thread gets the mutex and a holder
reaches its unlock; nobody has to ask for the lock.  `Storage!Fairness`: a worker
in a call is scheduled (weak fairness), and a reader gets each lock it waits for
(strong fairness), which is `ReadersGetIn` of the lock; writers get weak fairness
only, because the lock may starve them.  For that reason `GetsReturn` and
`OwnersFinish` are claimed for one bucket, which is what the data node opens: with
several buckets, readers of one may keep an updater of another, who owns its index
lock, from a shared data file.  `DataNode!ServerFairness`: the threads run, time
passes, and a blocked write completes when the peer's window opens again and
again.  Clients owe nothing: they may never send, never read and never go away.  `Parser!Spec`: the function runs on.

## 4. Proofs

The proof modules are checked by TLAPS for every value of the constants that
satisfies the named assumptions:
- `ThreadsAssumption`, `StorageAssumption`: the types of the parameters, and finitely
  many threads or workers; `DataNodeAssumption`, `SlabAssumption`, `IndexLogAssumption`:
  the types of the parameters.
- `NoneAssumption`: `None` is no index entry.
- `BlockSizesAssumption`: a table of block sizes that `init_storage()` accepts.
- `SlabClassesAssumption`: besides types, that rounding up to `CHUNK_ALIGN_BYTES` does not
  take a size below half a page past the page, and that the growth factor raises even the
  smallest size by at least a byte, without which all classes would have one size.  Both
  are true of the constants of `slab.h` and the factor in use (8 and 4 MB; 16 and 9/8).

- `ParserAssumption`: the separators, `\0` and the command words are different symbols;
  `qr->key` has room for at least two symbols and the terminator (it has 251 bytes);
  each header ends at its first CR LF, holds no `\0` (`strstr()` in
  `memcached_protocol.c` finds no CR LF behind one) and fits `query_head_buf`.  Headers
  may be infinitely many.
- `RecoveryAssumption`: the data node opens one bucket, as the code does; the bounds
  `MaxStops` and `MaxCalls` are any natural numbers.

The inductive invariants of `DataNode`, `IndexLog`, `Recovery` and `Parser` and `LimitInv`
of `Slab` were checked by TLC on small instances before they were proved.

**`RWLockProofs`.**  Inductive invariant `IInv` = `TypeOK` /\ `CountersExact` /\
`MutualExclusion` /\ `NoLostWakeup`.  A writer enters on
`read_queue_len = 0 = write_queue_len`, so exclusion needs counters that are exact
whatever wakeups happen; a broadcast is skipped on a counter too, so the absence
of lost wakeups needs both.  From `IInv` follow the invariants, the action
property `ReaderPriority` and the refinement of `SharedLock`.

**`StorageProofs`.**
- `TypeCorrect`: `TypeOK` is inductive together with `CallsOK` (each place comes
  with a request that leads there and the locals it uses) and `OffsetsOK` (indexed
  records and free slots have offsets inside the file).
- `AllLocksReturned`: `HoldsOK` says for every place exactly which locks its worker
  holds, and `LocksReturned` is that for the place `idle`.  The one exception is
  stated in it: the shared index lock of a `find_block()` without memory.
- `SlotsNotShared`: `NoSharedSlot` is not inductive alone.  `SlotInv` adds
  `Exclusive` (a worker that updates a bucket is the only owner of its index lock),
  hence `IvCurrent` (what `find_record()` returned stays true until the record is
  rewritten or deleted), and `Bounded` (no slot with an owner lies behind
  `block_cnt + free_slots_cnt`, so the slot at the end of a file is nobody's).  The
  argument is that a step moves slots: every slot keeps a part of its owners or has
  exactly one new one (`SlotsMove`).  It covers a full free list, where the slot is
  leaked and stays counted, and every fault of the model.

**`StorageDataProofs`** extends the slot invariant to what is in the slots.
- `SmallestBlockChosen`: `calc_block_size()` and `find_block_file()` choose a file with
  the smallest blocks that are large enough, for every size an int holds, although the
  first rounds and the second searches.
- `ReadersSeeTheirRecord` (hypothesis `WritesSucceed`: the `pwrite()` of a block and
  `insert_record()` succeed).  `LockInv`: a lock is owned or shared and not both, and each
  place has the locks it needs.  `DataInv`: every entry describes the bytes in its slot,
  and each worker knows of its own slot what it has written.  The reader's slot is stable
  because it takes the file lock *before* it gives up the index lock, so a slot that is
  freed afterwards cannot be written while it reads.
- `RecordsIntact` (`WritesSucceed`, and `SizesFitInt`, since a size beyond `INT_MAX` fails
  an assertion in mid-update).
- `HeadersSettle` (no failing `pwrite()` or header write, `SizesFitInt`): a worker that has
  changed a counter is in `Changing` until it has written a header after its change, and
  what it writes then is at least as new.
- `BlocksAreCounted` (no failing put, `FreeListsSuffice`: a free list can hold every slot,
  which a leaked slot would break).

These hypotheses are where the code itself gives up the property: the results of the two
writes are not looked at (storage.c:288), an overflowing free list leaks.  The runs
`storage_shared_file` and `storage_one_bucket` are instances that satisfy them.

The last part of the module is the refinement, `StorageLinearizable`: `Storage` implements
`KVStore` when nothing fails that a caller would be told of (`NothingFails`; headers and the journal may
fail) and every value fits some block (`ValuesFit`).  `CallInv` says for each place of a
call whether it has taken effect and what it will return; the record that is moved to a
larger block is the only one whose abstract value is not in the index.

**`DataNodeProofs`.**  `Inv` is one conjunct per connection (`ConnOK`: which watchers,
events, states and counts go with each owner), `WorkersInv` and `PipesInv` (a task is at
one place of the pipes, or with one worker) and `StoreOK` (a value in the storage was sent
completely by a set of its key, as the server read it: `head_at` is set by
`recv_req_head()` only, so it stays as it is from the dispatch on).  From it `TypeCorrect`, `TaskHasOneOwner`, `LoggedLeave`,
`AnswersAreTrue`, the action property `DropsAreJustified`, with all faults, and the
refinement `WorkersServeKVStore` when the storage's calls succeed (`StorageServes`; how
they are answered when they fail is in `AnswersAreTrue`).

**`SlabProofs`.**  `ClsidFinds`: the table of `slab_init()` grows strictly, and the binary
search keeps the class it looks for between its bounds.  `Inv` relates every chunk to its
place by class: free list (without repetition), uncut end of the last page, callers, calls
in progress.  `LimitInv` explains why an unlocked `mem_malloced` cannot be off by more
than the pages whose allocations overlapped: a page allocated while no other class
allocates one is counted in `mem_malloced` when it is added, every other page is in
`raced`.

**`IndexLogProofs`.**  Items are numbers, so buffers and blocks are *runs* of consecutive
numbers.  `Inv`: the buffer that is being stored holds the run after what is in the file,
the working buffer the run after that (`BufferInv`; whoever writes has both locks and has
emptied the other buffer, `LockInv`), what is in the file is in order and older
(`FileInv`), and without a failure the blocks are runs without a gap, each as long as its
header says and never empty (`BlocksInv`), so that a reader that is not stale knows where
it is (`ReaderInv`).

**`RecoveryProofs`** is about any number of processes that open, use and leave one
directory, one after the other.
- `OpenNeedsWholeFiles` and `HalfCreatedIsForEver` (no hypothesis): `FilesInv` ties the
  phase of the process to the state of each file.  `create_data_file()` may be cut short,
  or its write fail; `load_data_file()` refuses what it left, so no later process ever has
  an open storage.
- `JournalStartsAfresh` (`LogsSucceed`: no failing journal append, put or delete; it also
  holds while a halt closes files under a call): journal and index change together in an open storage, and
  both start from the index on disk.
- `RestartsAreSafe`, `HaltLosesNothing`, `HaltedStorageReopens` (`DiskWorks`: no failing
  `pwrite()`, put or header write, and `SizesFitInt`).  The invariant `SafeInv` has two
  halves.  While the storage is open, `WorkInv`: the slot, lock and header invariants of
  `StorageProofs` and `StorageDataProofs`, shown to survive the steps that only a halt
  brings (`TurnedAway`), and `AppendsOK`: the counters of a worker that appends are ahead
  of the header on disk by its own block, the slot it reuses is still the last one of the
  free list on disk, the slot it adds is the last one of the file.  While it is not open,
  `RestInv`: free lists and file ends *on disk* are apart from the slots of the index
  (`DiskSafe`), and every file opened so far has in memory what its header says.  `Stop`
  outside `Exposed` leads from the first to the second.  There the one bucket matters: with
  nobody in `do_delete_block()`, at most one worker has changed counters that are not on
  disk (`OnePending`), so the old header is wrong by at most the slot which that worker
  alone knew of, and which the index on disk does not refer to.  Opening file by file leads
  back.  `DataKept` carries the data of the records through both, minus `victims`.
- `HaltedStorageReopens` closes the circle: what a halt of an idle storage leaves behind is
  never one of the states of `Exposed`, so `RestartsAreSafe` applies to the next process.

**`ParserProofs`.**  `PInv` says, for headers of any length, what each state of the two
machines has read: `CommandRead` (the first token has been cut off), `TokensRead` (which
words `parse_set_cmd()` has stored) and `ResultRight` (what an accepted or a rejected
header is).  The step from code to reference is that `strtok_r()`, which overwrites the
buffer as it goes, meets the words of the untouched header one by one: the number of words
that begin before `saveptr` (`Before`) goes up by one with each token, and everything from
`saveptr` on is still as it came (`TailKept`).  `ParserTypes`, `ParserKeys`,
`ParserCommands` and `ParserResultsAgree` follow from `PInv`.

*Recursion.*  `FlattenSeq`, the table of `slab_init()`, the search of `slab_clsid()` and
`atoi()` are recursive functions.  What they compute is proved by the least counterexample
(`LeastNumber`), after the existence of a function that satisfies the recursive equation.

Only model-checked: what is about liveness, since TLAPS does not reason about fairness:
`WaitersGetIn`, `CallsFinish`, `ConnectionsEnd`, `ParseEnds`.  Every invariant, action
property and refinement that a passing run checks is also a theorem, under the hypotheses
named above; the runs `recovery_restart`, `storage_shared_file` and `storage_one_bucket`
satisfy those of the theorems they belong to.

## 5. Not modelled, and limits

- Of a header in pieces, what the parser finds in each remainder is part of the request
  (`text`), a split of CR LF being a remainder whose end is not there.  One case is left
  out: the last byte of a piece is CR and the byte of an earlier, longer piece that happens
  to follow it in the buffer is LF, so that `strstr()` finds an end across the two.
- When more than the announced data was read with the header, `memmove()` copies it past
  the end of the chunk before the check (assign_thread.c:281 and :294).  `ParseSet` lets the
  process go on or end (`aborted`); what else the overrun may damage is not modelled.
- Keys: the storage cuts or pads every key to `KEY_LEN` = 16 bytes (storage.h:21, said at
  :7), so client keys that agree in 16 bytes are one record.  `Keys` in `Storage`,
  `DataNode` and `Recovery` are keys after that; the keys of `Parser` are the client's.
- When `find_record()` cannot allocate, its caller's `dbt` stays uninitialised, and
  `update_block()` and `delete_block()` free `dbt.data` all the same (storage.c:482, :680).
  The model has the error return only (`LookupFails`).
- Numbers in `parser_lines` are not negative, and do not overflow.
- Berkeley DB is a map whose operations succeed or fail as a whole.  What it has on disk
  is record by record; its pages, log and recovery are not modelled (the code opens it
  without transactions or recovery).
- A stop is the end of the process, not of the machine: writes to data files survive it.
- `sync_storage()` in `Storage` is the writing of the headers; its flush of the
  journal is `IndexLog`'s flush; the sync of the database is in `Recovery`.
- Memory reuse: a freed task is `freed`, and `OneOwner` says that nobody reaches it.
- `slab_calloc()` is an allocation and a `memset()`; the printers of statistics are left out.
- `master_mirror.c`: `execute_one_slave()` stops in the middle of a call, so the file does
  not compile at this commit and what the mirror promises is not written yet.
- Logging, hashing, checksums, option parsing, socket set-up: plain calls or pure
  functions on bytes, without state that a property could be about.

## 6. Plan

In this order; the most important behaviour, concurrent calls on shared files, is
done first.

1. *Done:* lock, storage, journal, data node; type, lock and slot theorems.
2. *Done:* slab allocator, restart, parser, the writer's close of the journal.
3. *Done:* proofs of the data, headers and counters of `Storage` and its refinement of
   `KVStore`; of `DataNode`, `Slab` and `IndexLog`.
4. *Done:* proofs of `Parser`, and of `Recovery` over any number of restarts.
5. A `Recovery` in which a directory left at an exposed moment is opened again, with a
   property that bounds the damage.

New runs replace weaker ones, so that there stays one run for each question.
