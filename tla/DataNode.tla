------------------------------ MODULE DataNode ------------------------------
(***************************************************************************)
(* The data node: one assign thread that accepts connections and reads     *)
(* requests in a libev loop (src/assign_thread.c), pipes that hand a       *)
(* request over to a worker thread, and the worker threads that call the   *)
(* storage and answer (src/query_thread.c).  A connection carries one      *)
(* request; it and its query_task_s are identified.                        *)
(*                                                                         *)
(* Request text is counted in units.  text[i] is what the parser finds in  *)
(* the text after its first i units: a command, its key, head units up to  *)
(* and including the first whole "\r\n", and data units that a set          *)
(* announces (with its "\r\n").  text[0] is the request that the client     *)
(* means; the others matter because a header that takes a second read is   *)
(* parsed from there on.  A head beyond the end is a "\r\n" that is not     *)
(* there, or was split between two reads.  len units are really sent.      *)
(* The storage is what KVStore promises, except where a fault is allowed.  *)
(***************************************************************************)
EXTENDS Integers, Sequences, FiniteSets

CONSTANTS
    Conns,              \* client connections
    Keys,               \* keys of the storage
    Requests,           \* requests a client may send
    worker_thread_cnt,  \* g_settings.worker_thread_cnt
    PIPE_BUF,           \* task pointers that fit a pipe
    HEAD_BUF,           \* units that fit query_head_buf
    ClientMoves,        \* what clients may do besides sending: a subset of Moves
    Faults,             \* what may fail in the server: a subset of FaultKinds
    None

Moves == {"close", "reset", "stall"}
FaultKinds == {"nomem", "find", "read", "update"}
Commands == {"get", "set", "delete", "sync", "power", "bad"}
Stored == {"get", "set", "delete"}      \* commands that reach the storage
Texts == [cmd: Commands, key: Keys, head: Nat \ {0}, data: Nat]

ASSUME DataNodeAssumption ==
    /\ Requests \subseteq [text: [0 .. HEAD_BUF -> Texts], len: Nat]
    /\ worker_thread_cnt \in Nat \ {0}
    /\ PIPE_BUF \in Nat \ {0}
    /\ HEAD_BUF \in Nat \ {0}
    /\ ClientMoves \subseteq Moves
    /\ Faults \subseteq FaultKinds
    /\ None \notin Conns \cup Keys

VARIABLES
    up,             \* the process: "running", "aborted" (or its memory damaged), "exited"
    req,            \* per connection: the request its client sends
    unsent,         \* units of it not sent yet
    inbox,          \* units in the socket's receive buffer
    peer,           \* the client: "open", "stalled", "closed" or "reset"
    answer,         \* what the client has received
    where,          \* who has the query_task_s
    state,          \* query_task_s: state,
    have_read,      \*   have_read,
    need_read,      \*   need_read,
    head_at,        \*   have_read before the read that filled query_head_buf,
    error_log,      \*   error_log # NULL,
    resp,           \*   query_response,
    io_w,           \*   query_io_w is active,
    timer_w,        \*   query_timer_w: "off", "armed" or "due"
    pending,        \* the assign loop: events collected and not yet handled
    current,        \* the task that query_io_event_handler() works on
    last_fd,        \* last_fd of dispatch_query_task()
    pipe,           \* per worker: the pointers in its pipe
    wpc,            \* per worker: where it is
    wtask,          \* per worker: the task it has read from its pipe
    store           \* the storage: key -> the connection that set it, or None

client == <<req, unsent, peer>>
task == <<have_read, need_read, head_at>>
watchers == <<io_w, timer_w, pending>>
workers == <<wpc, wtask>>
vars == <<up, req, unsent, inbox, peer, answer, where, state, have_read, need_read, head_at,
          error_log, resp, io_w, timer_w, pending, current, last_fd, pipe, wpc, wtask, store>>

Workers == 0 .. worker_thread_cnt - 1
NoText == [cmd |-> "none", key |-> None, head |-> 0, data |-> 0]
NoRequest == [text |-> [i \in 0 .. HEAD_BUF |-> NoText], len |-> 0]
NoResponse == [head |-> "none", data |-> None]
Listen == <<"listen", None>>
Events(c) == {<<"io", c>>, <<"timer", c>>}

\* net_read() of n units when m are there.
Upto(m, n) == IF m <= n THEN m ELSE n

\* init_datanode_vars() and main(): every thread waits in its loop.
Init ==
    /\ up = "running"
    /\ req = [c \in Conns |-> NoRequest]
    /\ unsent = [c \in Conns |-> 0]
    /\ inbox = [c \in Conns |-> 0]
    /\ peer = [c \in Conns |-> "open"]
    /\ answer = [c \in Conns |-> NoResponse]
    /\ where = [c \in Conns |-> "client"]
    /\ state = [c \in Conns |-> "s_recv_req_head"]
    /\ have_read = [c \in Conns |-> 0]
    /\ need_read = [c \in Conns |-> 0]
    /\ head_at = [c \in Conns |-> 0]
    /\ error_log = [c \in Conns |-> FALSE]
    /\ resp = [c \in Conns |-> NoResponse]
    /\ io_w = [c \in Conns |-> FALSE]
    /\ timer_w = [c \in Conns |-> "off"]
    /\ pending = {}
    /\ current = None
    /\ last_fd = 0
    /\ pipe = [w \in Workers |-> << >>]
    /\ wpc = [w \in Workers |-> "idle"]
    /\ wtask = [w \in Workers |-> None]
    /\ store = [k \in Keys |-> None]

-----------------------------------------------------------------------------
(* Clients and time.                                                       *)

\* connect(): the connection waits in the listen queue.
Connect(c) ==
    /\ up = "running"
    /\ where[c] = "client"
    /\ where' = [where EXCEPT ![c] = "backlog"]
    /\ \E r \in Requests :
        /\ req' = [req EXCEPT ![c] = r]
        /\ unsent' = [unsent EXCEPT ![c] = r.len]
    /\ UNCHANGED <<up, inbox, peer, answer, state, task, error_log, resp, watchers, current,
                   last_fd, pipe, workers, store>>

\* Some of the request arrives in the socket's buffer.
Send(c) ==
    /\ up = "running"
    /\ where[c] \in {"backlog", "assign"}
    /\ peer[c] \in {"open", "stalled"}
    /\ \E n \in 1 .. unsent[c] :
        /\ unsent' = [unsent EXCEPT ![c] = @ - n]
        /\ inbox' = [inbox EXCEPT ![c] = @ + n]
    /\ UNCHANGED <<up, req, peer, answer, where, state, task, error_log, resp, watchers, current,
                   last_fd, pipe, workers, store>>

\* The client closes its socket, loses its connection (what was not read yet is
\* lost with it), or stops reading while its receive window fills up.
Disturb(c) ==
    /\ up = "running"
    /\ where[c] \in {"backlog", "assign", "pipe", "worker"}
    /\ peer[c] \in {"open", "stalled"}
    /\ \/ "close" \in ClientMoves /\ peer' = [peer EXCEPT ![c] = "closed"] /\ UNCHANGED inbox
       \/ "reset" \in ClientMoves /\ peer' = [peer EXCEPT ![c] = "reset"]
                                  /\ inbox' = [inbox EXCEPT ![c] = 0]
       \/ "stall" \in ClientMoves /\ peer[c] = "open"
                                  /\ peer' = [peer EXCEPT ![c] = "stalled"] /\ UNCHANGED inbox
    /\ UNCHANGED <<up, req, unsent, answer, where, state, task, error_log, resp, watchers, current,
                   last_fd, pipe, workers, store>>

Resume(c) ==
    /\ up = "running"
    /\ peer[c] = "stalled"
    /\ peer' = [peer EXCEPT ![c] = "open"]
    /\ UNCHANGED <<up, req, unsent, inbox, answer, where, state, task, error_log, resp, watchers,
                   current, last_fd, pipe, workers, store>>

\* read_timeout has passed since the connection was accepted.
Elapse(c) ==
    /\ up = "running"
    /\ timer_w[c] = "armed"
    /\ timer_w' = [timer_w EXCEPT ![c] = "due"]
    /\ UNCHANGED <<up, client, inbox, answer, where, state, task, error_log, resp, io_w, pending,
                   current, last_fd, pipe, workers, store>>

-----------------------------------------------------------------------------
(* The assign thread's loop.                                               *)

\* The assign thread is in ev_run() and not in a handler.
InLoop == up = "running" /\ current = None

\* ev_run(): once every collected event is handled, collect the readable
\* descriptors and the timers that are due.  A timer without repeat is
\* stopped as it fires.
Poll ==
    LET readable == {c \in Conns : io_w[c] /\ (inbox[c] > 0 \/ peer[c] \in {"closed", "reset"})}
        due == {c \in Conns : timer_w[c] = "due"}
    IN  /\ InLoop
        /\ pending = {}
        /\ pending' = {<<"io", c>> : c \in readable} \cup {<<"timer", c>> : c \in due}
                        \cup {Listen : c \in {d \in Conns : where[d] = "backlog"}}
        /\ pending' # {}
        /\ timer_w' = [c \in Conns |-> IF c \in due THEN "off" ELSE timer_w[c]]
        /\ UNCHANGED <<up, client, inbox, answer, where, state, task, error_log, resp, io_w,
                       current, last_fd, pipe, workers, store>>

\* The defect "the timer of a new connection is never started".
AcceptUntimed(c) ==
    /\ InLoop
    /\ Listen \in pending
    /\ where[c] = "backlog"
    /\ pending' = pending \ {Listen}
    /\ where' = [where EXCEPT ![c] = "assign"]
    /\ need_read' = [need_read EXCEPT ![c] = HEAD_BUF]
    /\ io_w' = [io_w EXCEPT ![c] = TRUE]
    /\ UNCHANGED <<up, client, inbox, answer, state, have_read, head_at, error_log, resp, timer_w,
                   current, last_fd, pipe, workers, store>>

\* accept_event_handler(), accept_connection() and do_accept_connection(): one
\* connection per event.  Without memory for the task the socket stays open
\* and nobody looks at it again.
Accept(c) ==
    /\ InLoop
    /\ Listen \in pending
    /\ where[c] = "backlog"
    /\ pending' = pending \ {Listen}
    /\ \/ /\ where' = [where EXCEPT ![c] = "assign"]
          /\ need_read' = [need_read EXCEPT ![c] = HEAD_BUF]
          /\ io_w' = [io_w EXCEPT ![c] = TRUE]
          /\ timer_w' = [timer_w EXCEPT ![c] = "armed"]
       \/ /\ "nomem" \in Faults
          /\ where' = [where EXCEPT ![c] = "leaked"]
          /\ UNCHANGED <<need_read, io_w, timer_w>>
    /\ UNCHANGED <<up, client, inbox, answer, state, have_read, head_at, error_log, resp, current,
                   last_fd, pipe, workers, store>>

\* The Log() macro: a task that already has an error_log fails its assertion.
Log(c) ==
    IF error_log[c]
    THEN up' = "aborted" /\ UNCHANGED error_log
    ELSE error_log' = [error_log EXCEPT ![c] = TRUE] /\ UNCHANGED up

\* ev_io_stop() and ev_timer_stop(), which also drop the pending events.
StopWatchers(c) ==
    /\ io_w' = [io_w EXCEPT ![c] = FALSE]
    /\ timer_w' = [timer_w EXCEPT ![c] = "off"]
    /\ pending' = pending \ Events(c)

\* destroy_query_task(): stop the watchers, close the socket and free the task
\* with all it holds.  (head_at is kept, to judge a stored value by.)
destroy_query_task(c) ==
    /\ where' = [where EXCEPT ![c] = "freed"]
    /\ inbox' = [inbox EXCEPT ![c] = 0]
    /\ state' = [state EXCEPT ![c] = "s_recv_req_head"]
    /\ have_read' = [have_read EXCEPT ![c] = 0]
    /\ need_read' = [need_read EXCEPT ![c] = 0]
    /\ UNCHANGED head_at
    /\ error_log' = [error_log EXCEPT ![c] = FALSE]
    /\ resp' = [resp EXCEPT ![c] = NoResponse]
    /\ StopWatchers(c)

\* query_timer_event_handler(): Log(), whose assertion may fail, and destroy.
query_timer_event_handler(c) ==
    /\ InLoop
    /\ <<"timer", c>> \in pending
    /\ IF error_log[c]
       THEN up' = "aborted" /\ UNCHANGED <<where, inbox, state, task, error_log, resp, watchers>>
       ELSE destroy_query_task(c) /\ UNCHANGED up
    /\ UNCHANGED <<client, answer, current, last_fd, pipe, workers, store>>

\* query_io_event_handler() is entered; its loop handles one state per step.
query_io_event_handler(c) ==
    /\ InLoop
    /\ <<"io", c>> \in pending
    /\ pending' = pending \ {<<"io", c>>}
    /\ current' = c
    /\ UNCHANGED <<up, client, inbox, answer, where, state, task, error_log, resp, io_w, timer_w,
                   last_fd, pipe, workers, store>>

Handling(c, S) == up = "running" /\ current = c /\ state[c] \in S
ChangeState(c, s) == state' = [state EXCEPT ![c] = s]

\* need_loop: stay in the handler, or return to the event loop.
NeedLoop(b) == current' = IF b THEN current ELSE None

\* The defect "a failed read waits for the next event".
RecvHeadWaits(c) ==
    /\ Handling(c, {"s_recv_req_head"})
    /\ \/ /\ inbox[c] > 0
          /\ LET n == Upto(inbox[c], need_read[c])
             IN  /\ have_read' = [have_read EXCEPT ![c] = @ + n]
                 /\ inbox' = [inbox EXCEPT ![c] = @ - n]
          /\ head_at' = [head_at EXCEPT ![c] = have_read[c]]
          /\ need_read' = [need_read EXCEPT ![c] = 0]
          /\ ChangeState(c, "s_parse_req_head") /\ NeedLoop(TRUE)
          /\ UNCHANGED <<up, error_log>>
       \/ /\ inbox[c] = 0
          /\ Log(c)
          /\ ChangeState(c, "s_destroy_recv") /\ NeedLoop(FALSE)
          /\ UNCHANGED <<task, inbox>>
    /\ UNCHANGED <<client, answer, where, resp, watchers, last_fd, pipe, workers, store>>

\* recv_req_head(): read into the start of query_head_buf whatever is there.
\* Nothing there is an error unless the peer has closed.
recv_req_head(c) ==
    /\ Handling(c, {"s_recv_req_head"})
    /\ \/ /\ inbox[c] > 0
          /\ LET n == Upto(inbox[c], need_read[c])
             IN  /\ have_read' = [have_read EXCEPT ![c] = @ + n]
                 /\ inbox' = [inbox EXCEPT ![c] = @ - n]
          /\ head_at' = [head_at EXCEPT ![c] = have_read[c]]
          /\ need_read' = [need_read EXCEPT ![c] = 0]
          /\ ChangeState(c, "s_parse_req_head") /\ NeedLoop(TRUE)
          /\ UNCHANGED <<up, error_log>>
       \/ /\ inbox[c] = 0 /\ peer[c] = "closed"
          /\ ChangeState(c, "s_destroy_recv") /\ NeedLoop(FALSE)
          /\ UNCHANGED <<up, task, inbox, error_log>>
       \/ /\ inbox[c] = 0 /\ peer[c] # "closed"
          /\ Log(c)
          /\ ChangeState(c, "s_destroy_recv") /\ NeedLoop(TRUE)
          /\ UNCHANGED <<task, inbox>>
    /\ UNCHANGED <<client, answer, where, resp, watchers, last_fd, pipe, workers, store>>

-----------------------------------------------------------------------------
(* Parsing: the command of a header that one read has filled in.           *)

\* What query_head_buf begins with: recv_req_head() reads every piece of a
\* header to its start, over the piece before.
Seen(c) == req[c].text[head_at[c]]

\* try_parse_memcached_string_head(): the "\r\n" is in the latest read.
HeadFound(c) == Seen(c).head <= have_read[c] - head_at[c]

\* parse_memcached_string_head() on what query_head_buf holds.
ParseSucceeds(c) == Seen(c).cmd # "bad"

\* No terminator yet: change_query_task_state(s_recv_req_head), and read again
\* at once; the header buffer may be full.
ParseIncomplete(c) ==
    /\ Handling(c, {"s_parse_req_head"})
    /\ ~HeadFound(c)
    /\ IF have_read[c] < HEAD_BUF
       THEN /\ need_read' = [need_read EXCEPT ![c] = HEAD_BUF - have_read[c]]
            /\ ChangeState(c, "s_recv_req_head")
            /\ UNCHANGED <<up, error_log>>
       ELSE Log(c) /\ ChangeState(c, "s_destroy_recv") /\ UNCHANGED need_read
    /\ UNCHANGED <<client, inbox, answer, where, have_read, head_at, resp, watchers, current,
                   last_fd, pipe, workers, store>>

ParseFails(c) ==
    /\ Handling(c, {"s_parse_req_head"})
    /\ HeadFound(c) /\ ~ParseSucceeds(c)
    /\ Log(c)
    /\ ChangeState(c, "s_return_failed")
    /\ UNCHANGED <<client, inbox, answer, where, task, resp, watchers, current,
                   last_fd, pipe, workers, store>>

\* Units of data still to come, after those read together with the header.
\* The pieces that were overwritten count as data, too.
Missing(c) == Seen(c).data - (have_read[c] - Seen(c).head)

\* The defect "a set is dispatched before its data has arrived".
ParseSetHasty(c) ==
    /\ Handling(c, {"s_parse_req_head"})
    /\ HeadFound(c) /\ ParseSucceeds(c)
    /\ Seen(c).cmd = "set"
    /\ ChangeState(c, "s_dispatch_query_task") /\ NeedLoop(TRUE)
    /\ need_read' = [need_read EXCEPT ![c] = Missing(c)]
    /\ UNCHANGED <<up, client, inbox, answer, where, have_read, head_at, error_log, resp, watchers,
                   last_fd, pipe, workers, store>>

\* The defect "a set that is complete waits for data".
ParseSetWaits(c) ==
    /\ Handling(c, {"s_parse_req_head"})
    /\ HeadFound(c) /\ ParseSucceeds(c)
    /\ Seen(c).cmd = "set"
    /\ ChangeState(c, "s_recv_req_data") /\ NeedLoop(FALSE)
    /\ need_read' = [need_read EXCEPT ![c] = Missing(c)]
    /\ UNCHANGED <<up, client, inbox, answer, where, have_read, head_at, error_log, resp, watchers,
                   last_fd, pipe, workers, store>>

\* A set: the data may be complete, still to come, or more than announced.
\* slab_alloc() may find no memory for it, which fails an assertion, and more
\* than announced is copied beyond the chunk before it is noticed, which may
\* do damage there or not.
ParseSet(c) ==
    /\ Handling(c, {"s_parse_req_head"})
    /\ HeadFound(c) /\ ParseSucceeds(c)
    /\ Seen(c).cmd = "set"
    /\ \/ /\ Missing(c) = 0
          /\ ChangeState(c, "s_dispatch_query_task") /\ NeedLoop(TRUE)
          /\ UNCHANGED up
       \/ /\ Missing(c) > 0
          /\ ChangeState(c, "s_recv_req_data") /\ NeedLoop(FALSE)
          /\ UNCHANGED up
       \/ /\ Missing(c) < 0
          /\ ChangeState(c, "s_destroy_recv") /\ NeedLoop(TRUE)
          /\ UNCHANGED up
       \/ /\ "nomem" \in Faults \/ Missing(c) < 0
          /\ up' = "aborted" /\ UNCHANGED <<state, current>>
    /\ need_read' = [need_read EXCEPT ![c] = Missing(c)]
    /\ UNCHANGED <<client, inbox, answer, where, have_read, head_at, error_log, resp, watchers,
                   last_fd, pipe, workers, store>>

ParseOther(c) ==
    /\ Handling(c, {"s_parse_req_head"})
    /\ HeadFound(c) /\ ParseSucceeds(c)
    /\ \/ Seen(c).cmd \in {"get", "delete"} /\ ChangeState(c, "s_dispatch_query_task")
       \/ Seen(c).cmd = "sync" /\ ChangeState(c, "s_do_sync")
       \/ Seen(c).cmd = "power" /\ ChangeState(c, "s_do_power")
    /\ UNCHANGED <<up, client, inbox, answer, where, task, error_log, resp, watchers, current,
                   last_fd, pipe, workers, store>>

\* The defect "a short read of the data ends the connection".
RecvDataImpatient(c) ==
    /\ Handling(c, {"s_recv_req_data"})
    /\ LET n == Upto(inbox[c], need_read[c])
       IN  /\ inbox' = [inbox EXCEPT ![c] = @ - n]
           /\ ChangeState(c, IF n > 0 /\ n = need_read[c] THEN "s_dispatch_query_task" ELSE "s_destroy_recv")
    /\ UNCHANGED <<up, client, task, error_log, answer, where, resp, watchers, current, last_fd,
                   pipe, workers, store>>

\* recv_req_data().  It is entered with need_read > 0 (TypeOK).  With EAGAIN it
\* would read again at once (goto go); the socket was readable, so it has data
\* or an end.
recv_req_data(c) ==
    /\ Handling(c, {"s_recv_req_data"})
    /\ LET n == Upto(inbox[c], need_read[c]) IN
       \/ /\ 0 < n /\ n < need_read[c]
          /\ have_read' = [have_read EXCEPT ![c] = @ + n]
          /\ need_read' = [need_read EXCEPT ![c] = @ - n]
          /\ inbox' = [inbox EXCEPT ![c] = @ - n]
          /\ NeedLoop(FALSE)
          /\ UNCHANGED <<up, state, error_log>>
       \/ /\ 0 < n /\ n = need_read[c]
          /\ inbox' = [inbox EXCEPT ![c] = @ - n]
          /\ ChangeState(c, "s_dispatch_query_task")
          /\ UNCHANGED <<up, have_read, need_read, error_log, current>>
       \/ /\ inbox[c] = 0 /\ peer[c] \in {"closed", "reset"}
          /\ Log(c)
          /\ ChangeState(c, "s_destroy_recv")
          /\ UNCHANGED <<have_read, need_read, inbox, current>>
    /\ UNCHANGED <<client, head_at, answer, where, resp, watchers, last_fd, pipe, workers, store>>

-----------------------------------------------------------------------------
(* Leaving the assign thread.                                              *)

\* The worker that last_fd selects.
NextWorker == IF last_fd >= worker_thread_cnt THEN 0 ELSE last_fd

\* The defect "the task keeps its timer when it is handed over".
DispatchKeepsTimer(c) ==
    /\ Handling(c, {"s_dispatch_query_task", "s_return_failed"})
    /\ Len(pipe[NextWorker]) < PIPE_BUF
    /\ io_w' = [io_w EXCEPT ![c] = FALSE]
    /\ pending' = pending \ {<<"io", c>>}
    /\ pipe' = [pipe EXCEPT ![NextWorker] = Append(@, c)]
    /\ last_fd' = NextWorker + 1
    /\ where' = [where EXCEPT ![c] = "pipe"]
    /\ current' = None
    /\ UNCHANGED <<up, client, inbox, answer, state, task, error_log, resp, timer_w, workers, store>>

\* dispatch_query_task(): round robin over the pipes; write() blocks the
\* assign thread while the pipe is full.
dispatch_query_task(c) ==
    /\ Handling(c, {"s_dispatch_query_task", "s_return_failed"})
    /\ Len(pipe[NextWorker]) < PIPE_BUF
    /\ StopWatchers(c)
    /\ pipe' = [pipe EXCEPT ![NextWorker] = Append(@, c)]
    /\ last_fd' = NextWorker + 1
    /\ where' = [where EXCEPT ![c] = "pipe"]
    /\ current' = None
    /\ UNCHANGED <<up, client, inbox, answer, state, task, error_log, resp, workers, store>>

DestroyRecv(c) ==
    /\ Handling(c, {"s_destroy_recv"})
    /\ destroy_query_task(c)
    /\ current' = None
    /\ UNCHANGED <<up, client, answer, last_fd, pipe, workers, store>>

\* sync_storage(), which Storage models; the client gets no answer.
DoSync(c) ==
    /\ Handling(c, {"s_do_sync"})
    /\ ChangeState(c, "s_destroy_recv")
    /\ UNCHANGED <<up, client, inbox, answer, where, task, error_log, resp, watchers, current,
                   last_fd, pipe, workers, store>>

\* sync_storage(), destroy_query_task(), close_storage() and exit(0).
DoPower(c) ==
    /\ Handling(c, {"s_do_power"})
    /\ destroy_query_task(c)
    /\ current' = None
    /\ up' = "exited"
    /\ UNCHANGED <<client, answer, last_fd, pipe, workers, store>>

-----------------------------------------------------------------------------
(* The worker threads.                                                     *)

At(w, place) == up = "running" /\ wpc[w] = place
Goto(w, place) == wpc' = [wpc EXCEPT ![w] = place]

\* pipe_event_handler() reads a task and enters handle_request(), which calls
\* the storage unless the request could not be parsed.
ReadPipe(w) ==
    /\ At(w, "idle")
    /\ pipe[w] # << >>
    /\ LET c == Head(pipe[w]) IN
        /\ wtask' = [wtask EXCEPT ![w] = c]
        /\ where' = [where EXCEPT ![c] = "worker"]
        /\ IF state[c] = "s_return_failed"
           THEN resp' = [resp EXCEPT ![c] = [head |-> "ERROR", data |-> None]] /\ Goto(w, "send_head")
           ELSE Goto(w, "storage") /\ UNCHANGED resp
    /\ pipe' = [pipe EXCEPT ![w] = Tail(@)]
    /\ UNCHANGED <<up, client, inbox, answer, state, task, error_log, watchers, current, last_fd, store>>

\* build_response(): the success and the failure of each command, by state.
Response(s, data) ==
    CASE s = "s_set_success"    -> [head |-> "STORED", data |-> None]
      [] s = "s_get_success"    -> [head |-> "VALUE", data |-> data]
      [] s = "s_get_failed"     -> [head |-> "END", data |-> None]
      [] s = "s_delete_success" -> [head |-> "DELETED", data |-> None]
      [] OTHER                  -> [head |-> "ERROR", data |-> None]
FailedStates == {"s_set_failed", "s_get_failed", "s_delete_failed"}

\* handle_request() after the storage call: set the state, build_response(),
\* which logs the failures.
Build(w, s, data) ==
    LET c == wtask[w] IN
    /\ ChangeState(c, s)
    /\ resp' = [resp EXCEPT ![c] = Response(s, data)]
    /\ IF s \in FailedStates THEN Log(c) ELSE UNCHANGED <<up, error_log>>
    /\ Goto(w, "send_head")
    /\ UNCHANGED <<client, inbox, answer, where, task, watchers, current, last_fd, pipe, wtask>>

HandleGet(w) ==
    LET c == wtask[w]
        found == store[Seen(c).key] IN
    /\ At(w, "storage") /\ Seen(c).cmd = "get"
    /\ IF found # None THEN Build(w, "s_get_success", found) ELSE Build(w, "s_get_failed", None)
    /\ UNCHANGED store

\* find_block() fails: in the index, or after it has set the length of the
\* value, which build_response() asserts to be 0.
HandleGetFails(w) ==
    LET c == wtask[w] IN
    /\ At(w, "storage") /\ Seen(c).cmd = "get"
    /\ \/ "find" \in Faults /\ Build(w, "s_get_failed", None)
       \/ /\ "read" \in Faults /\ store[Seen(c).key] # None
          /\ up' = "aborted"
          /\ UNCHANGED <<client, inbox, answer, where, state, task, error_log, resp, watchers, current,
                         last_fd, pipe, workers>>
    /\ UNCHANGED store

HandleSet(w) ==
    LET c == wtask[w] IN
    /\ At(w, "storage") /\ Seen(c).cmd = "set"
    /\ Build(w, "s_set_success", None)
    /\ store' = [store EXCEPT ![Seen(c).key] = c]

\* The defect "every delete succeeds".
HandleDeleteBlindly(w) ==
    LET c == wtask[w] IN
    /\ At(w, "storage") /\ Seen(c).cmd = "delete"
    /\ Build(w, "s_delete_success", None)
    /\ store' = [store EXCEPT ![Seen(c).key] = None]

HandleDelete(w) ==
    LET c == wtask[w] IN
    /\ At(w, "storage") /\ Seen(c).cmd = "delete"
    /\ Build(w, IF store[Seen(c).key] # None THEN "s_delete_success" ELSE "s_delete_failed", None)
    /\ store' = [store EXCEPT ![Seen(c).key] = None]

\* update_block() or delete_block() fails.  The record may be as it was, gone
\* (the old block was given up before the new one failed) or written.
HandleUpdateFails(w) ==
    LET c == wtask[w] IN
    /\ At(w, "storage") /\ Seen(c).cmd \in {"set", "delete"}
    /\ "update" \in Faults
    /\ \/ Seen(c).cmd = "set" /\ Build(w, "s_set_failed", None)
                             /\ \E v \in {store[Seen(c).key], None, c} : store' = [store EXCEPT ![Seen(c).key] = v]
       \/ Seen(c).cmd = "delete" /\ Build(w, "s_delete_failed", None)
                                /\ \E v \in {store[Seen(c).key], None} : store' = [store EXCEPT ![Seen(c).key] = v]

\* send_response(): the head.  It fails on a connection that was reset; a peer
\* that only closed is noticed at the next write.
SendHead(w) ==
    LET c == wtask[w] IN
    /\ At(w, "send_head")
    /\ IF peer[c] = "reset"
       THEN Log(c) /\ Goto(w, "destroy") /\ UNCHANGED answer
       ELSE /\ answer' = [answer EXCEPT ![c].head = IF peer[c] = "closed" THEN @ ELSE resp[c].head]
            /\ Goto(w, IF resp[c].head = "VALUE" THEN "send_data" ELSE "destroy")
            /\ UNCHANGED <<up, error_log>>
    /\ UNCHANGED <<client, inbox, where, state, task, resp, watchers, current, last_fd, pipe, wtask, store>>

\* send_response(): value and terminator.  The socket blocks, so a peer that
\* does not read holds the worker.
SendData(w) ==
    LET c == wtask[w] IN
    /\ At(w, "send_data")
    /\ \/ /\ peer[c] = "open"
          /\ answer' = [answer EXCEPT ![c].data = resp[c].data]
          /\ UNCHANGED <<up, error_log>>
       \/ peer[c] = "closed" /\ UNCHANGED <<answer, up, error_log>>
       \/ peer[c] \in {"closed", "reset"} /\ Log(c) /\ UNCHANGED answer
    /\ Goto(w, "destroy")
    /\ UNCHANGED <<client, inbox, where, state, task, resp, watchers, current, last_fd, pipe, wtask, store>>

\* destroy_query_task() in the worker; the task's watchers belong to the
\* assign thread's loop and must be inactive by now.
WorkerDestroy(w) ==
    LET c == wtask[w] IN
    /\ At(w, "destroy")
    /\ destroy_query_task(c)
    /\ wtask' = [wtask EXCEPT ![w] = None]
    /\ Goto(w, "idle")
    /\ UNCHANGED <<up, client, answer, current, last_fd, pipe, store>>

-----------------------------------------------------------------------------
AssignHandler(c) ==
    \/ Accept(c) \/ query_timer_event_handler(c) \/ query_io_event_handler(c)
    \/ recv_req_head(c) \/ ParseIncomplete(c) \/ ParseFails(c) \/ ParseSet(c) \/ ParseOther(c)
    \/ recv_req_data(c) \/ dispatch_query_task(c) \/ DestroyRecv(c) \/ DoSync(c) \/ DoPower(c)

AssignThread == Poll \/ \E c \in Conns : AssignHandler(c)

WorkerThread(w) ==
    \/ ReadPipe(w) \/ HandleGet(w) \/ HandleGetFails(w) \/ HandleSet(w) \/ HandleDelete(w)
    \/ HandleUpdateFails(w) \/ SendHead(w) \/ SendData(w) \/ WorkerDestroy(w)

Client(c) == Connect(c) \/ Send(c) \/ Disturb(c) \/ Resume(c) \/ Elapse(c)

Next == AssignThread \/ (\E w \in Workers : WorkerThread(w)) \/ (\E c \in Conns : Client(c))

Spec == Init /\ [][Next]_vars

-----------------------------------------------------------------------------
\* The threads are scheduled and time passes, and the kernel completes a
\* blocked write when the peer's window opens again and again.  A client owes
\* the server nothing: it may never send and never read.
ServerFairness ==
    /\ WF_vars(AssignThread)
    /\ \A w \in Workers : WF_vars(WorkerThread(w))
    /\ \A w \in Workers : SF_vars(SendData(w))
    /\ \A c \in Conns : WF_vars(Elapse(c))

FairSpec == Spec /\ ServerFairness

-----------------------------------------------------------------------------
States == {"s_recv_req_head", "s_parse_req_head", "s_recv_req_data", "s_dispatch_query_task",
           "s_destroy_recv", "s_do_sync", "s_do_power", "s_set_success", "s_get_success",
           "s_delete_success", "s_set_failed", "s_get_failed", "s_delete_failed", "s_return_failed"}
Heads == {"none", "STORED", "VALUE", "END", "DELETED", "ERROR"}
Answers == [head: Heads, data: Conns \cup {None}]

\* Type invariant.  A header never exceeds query_head_buf, need_read is above 0
\* while data is awaited, and last_fd runs past the pipes by at most one
\* (recv_req_head(), recv_req_data(), dispatch_query_task()).
TypeOK ==
    /\ up \in {"running", "aborted", "exited"}
    /\ req \in [Conns -> Requests \cup {NoRequest}]
    /\ unsent \in [Conns -> Nat]
    /\ inbox \in [Conns -> Nat]
    /\ peer \in [Conns -> {"open", "stalled", "closed", "reset"}]
    /\ answer \in [Conns -> Answers]
    /\ where \in [Conns -> {"client", "backlog", "assign", "pipe", "worker", "freed", "leaked"}]
    /\ state \in [Conns -> States]
    /\ have_read \in [Conns -> Nat]
    /\ need_read \in [Conns -> Int]
    /\ head_at \in [Conns -> 0 .. HEAD_BUF]
    /\ error_log \in [Conns -> BOOLEAN]
    /\ resp \in [Conns -> Answers]
    /\ io_w \in [Conns -> BOOLEAN]
    /\ timer_w \in [Conns -> {"off", "armed", "due"}]
    /\ pending \in SUBSET ({Listen} \cup UNION {Events(c) : c \in Conns})
    /\ current \in Conns \cup {None}
    /\ last_fd \in 0 .. worker_thread_cnt
    /\ pipe \in [Workers -> Seq(Conns)]
    /\ wpc \in [Workers -> {"idle", "storage", "send_head", "send_data", "destroy"}]
    /\ wtask \in [Workers -> Conns \cup {None}]
    /\ store \in [Keys -> Conns \cup {None}]
    /\ \A c \in Conns : /\ state[c] \in {"s_recv_req_head", "s_parse_req_head"} => have_read[c] <= HEAD_BUF
                        /\ state[c] = "s_recv_req_data" => need_read[c] > 0

-----------------------------------------------------------------------------
\* Occurrences of task c in the pipes and in the workers' hands.
InPipes(c) ==
    {p \in Workers \X (1 .. PIPE_BUF) : p[2] <= Len(pipe[p[1]]) /\ pipe[p[1]][p[2]] = c}
InWorkers(c) == {w \in Workers : wtask[w] = c}

\* A task has one owner: the assign thread while the loop watches it, has an
\* event for it or handles it; then one entry of one pipe; then one worker,
\* which frees it.  No thread keeps a way to a task it has given away
\* (dispatch_query_task(), destroy_query_task()), and no task that the assign
\* thread keeps goes unwatched.
OneOwner ==
    \A c \in Conns :
        /\ (io_w[c] \/ timer_w[c] # "off" \/ current = c \/ Events(c) \cap pending # {})
              => where[c] = "assign"
        /\ where[c] = "assign" => io_w[c]
        /\ Cardinality(InPipes(c)) = (IF where[c] = "pipe" THEN 1 ELSE 0)
        /\ Cardinality(InWorkers(c)) = (IF where[c] = "worker" THEN 1 ELSE 0)

\* No assert() of the data node fails: in particular Log() never meets a task
\* that has been logged already (query_thread.c and assign_thread.c).
AssertionsHold == up # "aborted"

\* A task that the assign thread has logged an error for is on its way out:
\* it is answered or freed before the loop sees another event for it, whose
\* handler would log again and fail the assertion in Log().
LoggedTasksLeave ==
    \A c \in Conns : where[c] = "assign" /\ error_log[c] => current = c

\* As much as the header and its data has been sent.
Complete(c) == req[c].len - unsent[c] >= Seen(c).head + Seen(c).data

\* What a client is told is true of the request that the server read: STORED
\* answers a set whose data arrived completely, a value handed out was sent
\* completely by a set of the same key, and ERROR means a bad request, a
\* failure or a delete of nothing.  (The worker still has the task when the
\* answer arrives, and the answer does not change later.)  The request that the
\* server read is the client's own, text[0], when its header came in one read.
\* Of a header in pieces the code parses the last piece alone, and counts the
\* lost ones as data (recv_req_head(), parse_query_request_head()): then the
\* answer fits that piece, and a client that sent a set may be told END.
AnswersFit ==
    \A c \in {d \in Conns : where[d] = "worker"} :
        LET a == answer[c] IN
        /\ a.head = "STORED" => Seen(c).cmd = "set" /\ Complete(c)
        /\ a.head \in {"VALUE", "END"} => Seen(c).cmd = "get"
        /\ a.head = "DELETED" => Seen(c).cmd = "delete"
        /\ a.head = "ERROR" => Seen(c).cmd \in {"bad", "delete"} \/ "update" \in Faults
        /\ a.data # None => /\ a.head = "VALUE" /\ Seen(a.data).cmd = "set" /\ Complete(a.data)
                            /\ Seen(a.data).key = Seen(c).key

\* The assign thread gives up a connection only for a reason: the timer fired,
\* the peer is gone, the latest read holds no end of a header, more data came
\* than announced, or the command has no answer.
DropsJustified ==
    [][\A c \in Conns :
        where[c] = "assign" /\ where'[c] = "freed" =>
            \/ <<"timer", c>> \in pending
            \/ peer[c] \in {"closed", "reset"}
            \/ ~HeadFound(c)
            \/ have_read[c] > Seen(c).head + Seen(c).data
            \/ Seen(c).cmd \in {"sync", "power"}]_vars

\* The workers serve what KVStore promises: the request of each dispatched
\* connection takes effect once, between its dispatch and its answer.
Bucket == "bucket"
KVRequest(c) ==
    [op |-> IF Seen(c).cmd = "delete" THEN "del" ELSE Seen(c).cmd, bucket |-> Bucket,
     key |-> Seen(c).key, data |-> IF Seen(c).cmd = "set" THEN c ELSE None]
Serving(c) == {w \in Workers : wtask[w] = c /\ state[c] # "s_return_failed"}
KVStatus(c) ==
    CASE where[c] = "pipe" /\ state[c] = "s_dispatch_query_task" -> "called"
      [] \E w \in Serving(c) : wpc[w] = "storage" -> "called"
      [] \E w \in Serving(c) : wpc[w] # "storage" -> "applied"
      [] OTHER -> "idle"
KVResult(c) ==
    [ret |-> IF resp[c].head \in {"STORED", "VALUE", "DELETED"} THEN 0 ELSE -1, value |-> resp[c].data]

mapBar == [b \in {Bucket} |-> store]
statusBar == [c \in Conns |-> KVStatus(c)]
requestBar == [c \in Conns |-> IF KVStatus(c) = "idle" THEN NoRequest ELSE KVRequest(c)]
resultBar ==
    [c \in Conns |-> IF KVStatus(c) = "applied" THEN KVResult(c) ELSE [ret |-> 0, value |-> None]]
KVCalls ==
    [op: {"get", "del"}, bucket: {Bucket}, key: Keys, data: {None}]
        \cup [op: {"set"}, bucket: {Bucket}, key: Keys, data: Conns]

KV == INSTANCE KVStore WITH
    Workers <- Conns, Buckets <- {Bucket}, DB_NOTFOUND <- -1, Requests <- KVCalls,
    map <- mapBar, status <- statusBar, request <- requestBar, result <- resultBar

ServesKVStore == KV!Spec

\* A worker waits in send_response() for a client that does not read.
Blocked(w) == \E c \in Conns : wtask[w] = c /\ wpc[w] = "send_data" /\ peer[c] = "stalled"

\* Every connection ends: answered, dropped, or timed out, whatever the clients
\* send or do not send, unless the process ends first.  One thing can keep a
\* connection for ever, its own or another that waits behind it: a worker that
\* blocks for ever on a client that does not read.  query_timer_w is described
\* as "controlling timeout event of both request and response"
\* (query_thread.h:77), but dispatch_query_task() stops it, and the write of
\* send_response() has no timeout of its own.
ConnectionsEnd ==
    \/ \A c \in Conns : where[c] = "backlog" ~> where[c] = "freed" \/ up # "running"
    \/ \E w \in Workers : <>[]Blocked(w)
=============================================================================
