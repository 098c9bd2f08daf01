------------------------------- MODULE Slab -------------------------------
(***************************************************************************)
(* The slab allocator of src/slab.c, which every thread of the data node   *)
(* calls.  Each size class has a free list, the rest of its last page and  *)
(* a spin lock; the count of the memory in pages, mem_malloced, is shared  *)
(* by the classes and has no lock of its own.                              *)
(*                                                                         *)
(* A chunk is its class and its number within the pages of that class, in  *)
(* the order in which the pages were allocated.  A chunk of class 0 is one *)
(* that malloc() returned because no class is large enough.  What is       *)
(* handed out is the memory after the chunk's slabhead_t; the model speaks *)
(* of the chunk.                                                           *)
(*                                                                         *)
(* Everything between slab_lock() and slab_unlock() is one step, except    *)
(* for the accesses to mem_malloced: "mem_malloced += len" is a load and a *)
(* store, and other classes may change it in between.                      *)
(***************************************************************************)
EXTENDS SlabClasses, FiniteSets, Sequences, FiniteSetsExt, SequencesExt

CONSTANTS
    Threads,
    Sizes,              \* sizes that callers ask for
    HEAD_SIZE,          \* sizeof(slabhead_t)
    mem_limit,          \* the limit given to slab_init(), 0 for none
    LIST_SIZE,          \* first size of slab_list (16)
    SLOTS_SIZE,         \* first size of the array of free slots (1024)
    Faults,             \* allocations of libc that may fail: a subset of FaultKinds
    MaxPages,           \* bound: pages that valloc() can return in all
    MaxMallocs,         \* bound: chunks of malloc() at a time
    MaxLive,            \* bound: chunks in use at a time
    MaxDropped,         \* bound: free lists that fail to grow
    None

FaultKinds == {"malloc", "list", "slots"}

ASSUME SlabAssumption ==
    /\ Sizes \subseteq Nat
    /\ HEAD_SIZE \in Nat \ {0}
    /\ mem_limit \in Nat
    /\ LIST_SIZE \in Nat \ {0} /\ SLOTS_SIZE \in Nat \ {0}
    /\ Faults \subseteq FaultKinds
    /\ MaxPages \in Nat /\ MaxMallocs \in Nat /\ MaxLive \in Nat /\ MaxDropped \in Nat
    /\ None \notin Threads

VARIABLES
    slots,              \* per class: the free list; its length is sl_curr
    sl_total,           \* per class: the size of the array behind it
    end_page_free,      \* per class: chunks left in the last page; 0 when end_page_ptr is NULL
    slabs,              \* per class: pages
    list_size,          \* per class: the size of slab_list
    lock,               \* per class: the thread inside, or None
    mem_malloced,
    head,               \* slabhead_t of every chunk that is in use
    live,               \* chunks that callers have
    pc,                 \* per thread: where it is
    call,               \* per thread: the size it asks for, the chunk it gives back, the chunk it got
    seen,               \* per thread: mem_malloced as loaded by "mem_malloced += len"
    overlapped,         \* threads whose page allocation has overlapped another one (history)
    raced,              \* pages whose allocation overlapped another one (history)
    dropped             \* chunks that _slab_free() could not put on a free list (history)

listvars == <<slots, sl_total>>
pagevars == <<end_page_free, slabs, list_size>>
racevars == <<seen, overlapped, raced>>
vars == <<slots, sl_total, end_page_free, slabs, list_size, lock, mem_malloced, head, live, pc, call,
          seen, overlapped, raced, dropped>>

Chunk == [class: Classes \cup {0}, n: Nat \ {0}]
NoChunk == [class |-> 0, n |-> 0]
NoCall == [size |-> 0, old |-> NoChunk, new |-> NoChunk, copied |-> 0]
SlabHead == [is_malloc: BOOLEAN, size: Nat]

TotalPages == MapThenSumSet(LAMBDA c : slabs[c], Classes)

\* slab_init(): no class has a page.
Init ==
    /\ slots = [c \in Classes |-> << >>]
    /\ sl_total = [c \in Classes |-> 0]
    /\ end_page_free = [c \in Classes |-> 0]
    /\ slabs = [c \in Classes |-> 0]
    /\ list_size = [c \in Classes |-> 0]
    /\ lock = [c \in Classes |-> None]
    /\ mem_malloced = 0
    /\ head = << >>
    /\ live = {}
    /\ pc = [t \in Threads |-> "idle"]
    /\ call = [t \in Threads |-> NoCall]
    /\ seen = [t \in Threads |-> 0]
    /\ overlapped = {}
    /\ raced = 0
    /\ dropped = {}

-----------------------------------------------------------------------------
Goto(t, place) == pc' = [pc EXCEPT ![t] = place]

MayFail(fault) == fault \in Faults

\* slab_clsid() of each size that is asked for, the head included.
ClassFor == [size \in {n + HEAD_SIZE : n \in Sizes} |-> slab_clsid(size)]

\* The class of t's request.
Id(t) == ClassFor[call[t].size + HEAD_SIZE]

\* A caller asks for memory: slab_alloc(size), or slab_realloc(ptr, size) of a
\* chunk it has.  (slab_realloc() of NULL is slab_alloc(), of size 0 nothing.)
Call(t) ==
    /\ pc[t] = "idle"
    /\ \E n \in Sizes, p \in live \cup {NoChunk} :
        /\ p # NoChunk => n # 0
        /\ Cardinality(DOMAIN head) < MaxLive
        /\ call' = [call EXCEPT ![t] = [size |-> n, old |-> p, new |-> NoChunk, copied |-> 0]]
        /\ live' = live \ {p}
    /\ Goto(t, "alloc")
    /\ UNCHANGED <<listvars, pagevars, lock, mem_malloced, head, racevars, dropped>>

\* _slab_alloc() returns NULL; slab_realloc() then leaves the old chunk alone.
ReturnNull(t) ==
    /\ live' = live \cup ({call[t].old} \ {NoChunk})
    /\ call' = [call EXCEPT ![t] = NoCall]
    /\ Goto(t, "idle")

\* _slab_alloc() fills in the head of chunk p and returns it; slab_realloc()
\* goes on to copy.
ReturnChunk(t, p, is_malloc) ==
    /\ head' = [q \in DOMAIN head \cup {p} |->
                    IF q = p THEN [is_malloc |-> is_malloc, size |-> call[t].size + HEAD_SIZE] ELSE head[q]]
    /\ IF call[t].old = NoChunk
       THEN /\ live' = live \cup {p}
            /\ call' = [call EXCEPT ![t] = NoCall]
            /\ Goto(t, "idle")
       ELSE /\ call' = [call EXCEPT ![t].new = p]
            /\ Goto(t, "copy")
            /\ UNCHANGED live

-----------------------------------------------------------------------------
(* _slab_alloc()                                                           *)

\* A size beyond the largest class goes to malloc().
Mallocs == {q \in DOMAIN head : q.class = 0}

AllocMalloc(t) ==
    /\ pc[t] = "alloc"
    /\ Id(t) > power_largest
    /\ \/ /\ Cardinality(Mallocs) < MaxMallocs
          /\ \E n \in 1 .. MaxMallocs :
                /\ [class |-> 0, n |-> n] \notin Mallocs
                /\ ReturnChunk(t, [class |-> 0, n |-> n], TRUE)
       \/ MayFail("malloc") /\ ReturnNull(t) /\ UNCHANGED head
    /\ UNCHANGED <<listvars, pagevars, lock, mem_malloced, racevars, dropped>>

\* The defect "read the last free slot and do not take it off the list".
AllocSlotKeeps(t) ==
    LET c == Id(t) IN
    /\ pc[t] = "alloc"
    /\ c \in Classes
    /\ lock[c] = None
    /\ slots[c] # << >>
    /\ ReturnChunk(t, Last(slots[c]), FALSE)
    /\ UNCHANGED <<listvars, pagevars, lock, mem_malloced, racevars, dropped>>

\* The last chunk on the free list.
AllocSlot(t) ==
    LET c == Id(t) IN
    /\ pc[t] = "alloc"
    /\ c \in Classes
    /\ lock[c] = None
    /\ slots[c] # << >>
    /\ slots' = [slots EXCEPT ![c] = Front(@)]
    /\ ReturnChunk(t, Last(slots[c]), FALSE)
    /\ UNCHANGED <<sl_total, pagevars, lock, mem_malloced, racevars, dropped>>

\* end_page_ptr: the first chunk of the last page that was never handed out.
EndPagePtr(c) == [class |-> c, n |-> slabs[c] * perslab[c] - end_page_free[c] + 1]

\* The defect "no test for the end of the page".
AllocEndPageUnbounded(t) ==
    LET c == Id(t) IN
    /\ pc[t] = "alloc"
    /\ c \in Classes
    /\ lock[c] = None
    /\ slots[c] = << >>
    /\ slabs[c] # 0
    /\ ReturnChunk(t, EndPagePtr(c), FALSE)
    /\ end_page_free' = [end_page_free EXCEPT ![c] = @ - 1]
    /\ UNCHANGED <<listvars, slabs, list_size, lock, mem_malloced, racevars, dropped>>

\* With nothing on the free list, the next chunk of the last page.
AllocEndPage(t) ==
    LET c == Id(t) IN
    /\ pc[t] = "alloc"
    /\ c \in Classes
    /\ lock[c] = None
    /\ slots[c] = << >>
    /\ end_page_free[c] # 0
    /\ ReturnChunk(t, EndPagePtr(c), FALSE)
    /\ end_page_free' = [end_page_free EXCEPT ![c] = @ - 1]
    /\ UNCHANGED <<listvars, slabs, list_size, lock, mem_malloced, racevars, dropped>>

\* Threads that are allocating a page, each with the lock of its own class.
Paging == {t \in Threads : pc[t] \in {"newslab", "newslab_add"}}

\* The defect "test the limit before the page is added to what is there".
OverLimitLate(c) == mem_limit # 0 /\ mem_malloced > mem_limit /\ slabs[c] > 0

\* do_slabs_newslab() refuses a class that has a page already, when one more
\* would exceed the limit.
OverLimit(c) == mem_limit # 0 /\ mem_malloced + POWER_BLOCK > mem_limit /\ slabs[c] > 0

\* Neither: slab_lock() and the limit of do_slabs_newslab().
NewslabCheck(t) ==
    LET c == Id(t) IN
    /\ pc[t] = "alloc"
    /\ c \in Classes
    /\ lock[c] = None
    /\ slots[c] = << >> /\ end_page_free[c] = 0
    /\ \/ OverLimit(c) /\ ReturnNull(t) /\ UNCHANGED <<lock, overlapped>>
       \/ /\ ~ OverLimit(c)
          /\ lock' = [lock EXCEPT ![c] = t]
          /\ overlapped' = IF Paging = {} THEN overlapped ELSE overlapped \cup Paging \cup {t}
          /\ Goto(t, "newslab")
          /\ UNCHANGED <<live, call>>
    /\ UNCHANGED <<listvars, pagevars, mem_malloced, head, seen, raced, dropped>>

\* grow_slab_list(): slab_list doubles when it is full.
GrownList(c) ==
    IF slabs[c] # list_size[c] THEN list_size[c]
    ELSE IF list_size[c] # 0 THEN list_size[c] * 2 ELSE LIST_SIZE

\* grow_slab_list() or valloc() fails: slab_unlock(), NULL.
NewslabFails(t) ==
    LET c == Id(t) IN
    /\ pc[t] = "newslab"
    /\ \/ MayFail("list") /\ GrownList(c) # list_size[c] /\ UNCHANGED list_size
       \/ TotalPages >= MaxPages /\ list_size' = [list_size EXCEPT ![c] = GrownList(c)]
    /\ lock' = [lock EXCEPT ![c] = None]
    /\ overlapped' = overlapped \ {t}
    /\ ReturnNull(t)
    /\ UNCHANGED <<listvars, end_page_free, slabs, mem_malloced, head, seen, raced, dropped>>

\* The page is there; "mem_malloced += len" loads mem_malloced.
NewslabPage(t) ==
    LET c == Id(t) IN
    /\ pc[t] = "newslab"
    /\ TotalPages < MaxPages
    /\ list_size' = [list_size EXCEPT ![c] = GrownList(c)]
    /\ end_page_free' = [end_page_free EXCEPT ![c] = perslab[c]]
    /\ slabs' = [slabs EXCEPT ![c] = @ + 1]
    /\ seen' = [seen EXCEPT ![t] = mem_malloced]
    /\ raced' = raced + (IF t \in overlapped THEN 1 ELSE 0)
    /\ Goto(t, "newslab_add")
    /\ UNCHANGED <<listvars, lock, mem_malloced, head, live, call, overlapped, dropped>>

\* It stores the sum (len is POWER_BLOCK, USE_FIXED_BLOCK is defined); then
\* _slab_alloc() takes the first chunk of the page, and slab_unlock().
NewslabAdd(t) ==
    LET c == Id(t) IN
    /\ pc[t] = "newslab_add"
    /\ mem_malloced' = seen[t] + POWER_BLOCK
    /\ seen' = [seen EXCEPT ![t] = 0]
    /\ ReturnChunk(t, EndPagePtr(c), FALSE)
    /\ end_page_free' = [end_page_free EXCEPT ![c] = @ - 1]
    /\ lock' = [lock EXCEPT ![c] = None]
    /\ overlapped' = overlapped \ {t}
    /\ UNCHANGED <<listvars, slabs, list_size, raced, dropped>>

-----------------------------------------------------------------------------
(* _slab_realloc() after a successful allocation, and _slab_free()         *)

\* The defect "copy the whole old chunk".
ReallocCopyAll(t) ==
    /\ pc[t] = "copy"
    /\ call' = [call EXCEPT ![t].copied = head[call[t].old].size]
    /\ Goto(t, "free")
    /\ UNCHANGED <<listvars, pagevars, lock, mem_malloced, head, live, racevars, dropped>>

\* memcpy() of the smaller of the new size and head->size, which includes the
\* head; then slab_free() of the old chunk.
ReallocCopy(t) ==
    LET n == call[t].size
        o == head[call[t].old].size
    IN
    /\ pc[t] = "copy"
    /\ call' = [call EXCEPT ![t].copied = IF n < o THEN n ELSE o]
    /\ Goto(t, "free")
    /\ UNCHANGED <<listvars, pagevars, lock, mem_malloced, head, live, racevars, dropped>>

\* A caller gives a chunk back with slab_free().
FreeCall(t) ==
    /\ pc[t] = "idle"
    /\ \E p \in live :
        /\ live' = live \ {p}
        /\ call' = [call EXCEPT ![t].old = p]
    /\ Goto(t, "free")
    /\ UNCHANGED <<listvars, pagevars, lock, mem_malloced, head, racevars, dropped>>

\* _slab_free() is over: slab_realloc() returns the new chunk.
FreeReturns(t) ==
    /\ live' = live \cup ({call[t].new} \ {NoChunk})
    /\ call' = [call EXCEPT ![t] = NoCall]
    /\ head' = [q \in DOMAIN head \ {call[t].old} |-> head[q]]
    /\ Goto(t, "idle")

FreeMalloc(t) ==
    /\ pc[t] = "free"
    /\ head[call[t].old].is_malloc
    /\ FreeReturns(t)
    /\ UNCHANGED <<listvars, pagevars, lock, mem_malloced, racevars, dropped>>

\* The free list needs more room: its array doubles.
GrownSlots(c) ==
    IF Len(slots[c]) # sl_total[c] THEN sl_total[c]
    ELSE IF sl_total[c] # 0 THEN sl_total[c] * 2 ELSE SLOTS_SIZE

\* The class is found again from the size in the head; the chunk goes to the
\* end of the free list, or nowhere if the array cannot grow.
FreeSlot(t) ==
    LET p == call[t].old
        c == ClassFor[head[p].size]
    IN
    /\ pc[t] = "free"
    /\ ~ head[p].is_malloc
    /\ c \in Classes
    /\ lock[c] = None
    /\ \/ /\ slots' = [slots EXCEPT ![c] = Append(@, p)]
          /\ sl_total' = [sl_total EXCEPT ![c] = GrownSlots(c)]
          /\ UNCHANGED dropped
       \/ /\ MayFail("slots") /\ GrownSlots(c) # sl_total[c] /\ Cardinality(dropped) < MaxDropped
          /\ dropped' = dropped \cup {p}
          /\ UNCHANGED listvars
    /\ FreeReturns(t)
    /\ UNCHANGED <<pagevars, lock, mem_malloced, racevars>>

-----------------------------------------------------------------------------
slab_alloc(t) ==
    \/ AllocMalloc(t) \/ AllocSlot(t) \/ AllocEndPage(t)
    \/ NewslabCheck(t) \/ NewslabFails(t) \/ NewslabPage(t) \/ NewslabAdd(t)

slab_free(t) == FreeMalloc(t) \/ FreeSlot(t)

Work(t) == slab_alloc(t) \/ ReallocCopy(t) \/ slab_free(t)

Next == \E t \in Threads : Call(t) \/ FreeCall(t) \/ Work(t)

Spec == Init /\ [][Next]_vars

-----------------------------------------------------------------------------
Places == {"idle", "alloc", "newslab", "newslab_add", "copy", "free"}

\* Every variable keeps its type; in particular a page always has a free
\* chunk when do_slabs_newslab() reports success.
TypeOK ==
    /\ slots \in [Classes -> Seq(Chunk)]
    /\ sl_total \in [Classes -> Nat]
    /\ end_page_free \in [Classes -> Nat]
    /\ slabs \in [Classes -> Nat]
    /\ list_size \in [Classes -> Nat]
    /\ lock \in [Classes -> Threads \cup {None}]
    /\ mem_malloced \in Nat
    /\ DOMAIN head \subseteq Chunk /\ \A q \in DOMAIN head : head[q] \in SlabHead
    /\ live \subseteq Chunk
    /\ pc \in [Threads -> Places]
    /\ call \in [Threads -> [size: Nat, old: Chunk \cup {NoChunk}, new: Chunk \cup {NoChunk}, copied: Nat]]
    /\ seen \in [Threads -> Nat]
    /\ overlapped \subseteq Threads
    /\ raced \in Nat
    /\ dropped \subseteq Chunk

\* Chunks a thread inside the allocator holds for its caller.
Held(t) == {call[t].old, call[t].new} \ {NoChunk}

\* Chunks of class c that were cut, and those never handed out.
Cut(c) == [class: {c}, n: 1 .. slabs[c] * perslab[c]]
Fresh(c) == [class: {c}, n: EndPagePtr(c).n .. slabs[c] * perslab[c]]

\* Chunks on the free list of class c.
Listed(c) == Range(slots[c])

\* Chunks that are with callers, with threads inside the allocator, or lost to
\* a free list that could not grow.
Out == live \cup dropped \cup UNION {Held(t) : t \in Threads}

\* A chunk is with one owner at most: a caller, a thread inside the allocator,
\* one place of one free list, or the part of the last page that was never
\* handed out (_slab_alloc() and _slab_free() by concurrent threads).
NoChunkTwice ==
    /\ \A t \in Threads : Held(t) \cap (live \cup dropped) = {}
    /\ \A t, u \in Threads : t # u => Held(t) \cap Held(u) = {}
    /\ live \cap dropped = {}
    /\ \A c \in Classes :
        /\ IsInjective(slots[c])
        /\ Listed(c) \cap Fresh(c) = {}
        /\ (Listed(c) \cup Fresh(c)) \cap Out = {}

\* Every chunk of every page is with somebody, on the free list of the class
\* it was cut for, or not yet handed out: none is lost, or moved to another
\* class, but for those that _slab_free() drops when its list cannot grow.
ChunksAccounted ==
    \A c \in Classes : {q \in Out : q.class = c} \cup Listed(c) \cup Fresh(c) = Cut(c)

\* Each chunk of each page is in exactly one place, whatever the order of the
\* calls and whichever allocations of libc fail.
ChunksPartitioned == NoChunkTwice /\ ChunksAccounted

\* A chunk in use has room for its head and the size asked for, and no
\* smaller class has; only what fits no class is from malloc().
SmallestClassServes ==
    \A q \in DOMAIN head :
        IF head[q].is_malloc THEN q.class = 0 /\ head[q].size > ClassSize[power_largest]
        ELSE /\ head[q].size <= ClassSize[q.class]
             /\ head[q].size > ClassSize[q.class - 1]

\* slab_realloc() copies no more than the new chunk has room for, and no less
\* than the smaller of what the two callers asked for.
ReallocCopies ==
    \A t \in Threads : pc[t] = "free" /\ call[t].new # NoChunk =>
        LET room == head[call[t].new].size - HEAD_SIZE
            had  == head[call[t].old].size - HEAD_SIZE
        IN  /\ call[t].copied <= room
            /\ call[t].copied >= (IF room < had THEN room ELSE had)

\* mem_malloced is not protected by one lock, so the limit is not exact; but a
\* class that has a page gets another one only within the limit, save for as
\* many pages as were allocated while another class was allocating one.
GrowthWithinLimit ==
    [][\A c \in Classes :
        mem_limit # 0 /\ slabs[c] > 0 /\ slabs'[c] > slabs[c]
            => POWER_BLOCK * TotalPages' <= mem_limit + POWER_BLOCK * raced']_vars
=============================================================================
