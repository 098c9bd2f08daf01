--------------------------- MODULE DataNodeProofs ---------------------------
(***************************************************************************)
(* Proofs about DataNode: who owns a query_task_s, what has been read of   *)
(* its request, what is logged and what is answered, for any connections,  *)
(* requests, worker threads, buffer sizes and faults.                      *)
(***************************************************************************)
EXTENDS DataNode, FiniteSetTheorems, TLAPS

-----------------------------------------------------------------------------
(* The inductive invariant, connection by connection.                      *)

AssignStates ==
    {"s_recv_req_head", "s_parse_req_head", "s_recv_req_data", "s_dispatch_query_task",
     "s_destroy_recv", "s_do_sync", "s_do_power", "s_return_failed"}

\* A reason, other than its timer, to give up the connection.
Justified(c) ==
    \/ peer[c] \in {"closed", "reset"}
    \/ ~HeadFound(c)
    \/ have_read[c] > Seen(c).head + Seen(c).data
    \/ Seen(c).cmd \in {"sync", "power"}

\* Nothing is read that was not sent, and nothing is answered, or logged,
\* before its time.
Accounted(c) ==
    /\ where[c] = "client" => inbox[c] = 0
    /\ where[c] \in {"client", "backlog"} =>
         state[c] = "s_recv_req_head" /\ have_read[c] = 0 /\ head_at[c] = 0 /\ ~error_log[c]
    /\ where[c] # "client" =>
         req[c] \in Requests /\ have_read[c] + inbox[c] + unsent[c] <= req[c].len
    /\ where[c] \notin {"worker", "freed"} => answer[c] = NoResponse

\* What the state of a task that the assign thread has says of its request.
Reading(c) ==
    where[c] = "assign" =>
        /\ state[c] \in AssignStates
        /\ state[c] = "s_recv_req_head" =>
             ~HeadFound(c) /\ need_read[c] = HEAD_BUF - have_read[c]
        /\ state[c] = "s_recv_req_data" =>
             Seen(c).cmd = "set" /\ have_read[c] + need_read[c] = Seen(c).head + Seen(c).data
        /\ state[c] = "s_do_sync" => Seen(c).cmd = "sync"
        /\ state[c] = "s_do_power" => Seen(c).cmd = "power"
        /\ state[c] = "s_destroy_recv" => Justified(c)

\* What is known of a request that goes to a worker.
Parsed(c) ==
    where[c] \in {"assign", "pipe", "worker"} =>
        /\ state[c] = "s_dispatch_query_task" =>
             Seen(c).cmd \in Stored /\ (Seen(c).cmd = "set" => Complete(c))
        /\ state[c] = "s_return_failed" => Seen(c).cmd = "bad"
        /\ where[c] = "pipe" => state[c] \in {"s_dispatch_query_task", "s_return_failed"}

\* A task with an error_log has left the loop, or leaves it in this handler.
Logged(c) ==
    error_log[c] =>
        \/ where[c] \in {"pipe", "worker"}
        \/ where[c] = "assign" /\ current = c /\ state[c] \in {"s_destroy_recv", "s_return_failed"}

\* The assign thread has a way to the task exactly while it owns it.
Watched(c) ==
    /\ (io_w[c] \/ timer_w[c] # "off" \/ current = c \/ Events(c) \cap pending # {})
          => where[c] = "assign"
    /\ where[c] = "assign" => io_w[c]

ConnOK(c) == Accounted(c) /\ Reading(c) /\ Parsed(c) /\ Logged(c) /\ Watched(c)
ConnInv == \A c \in Conns : ConnOK(c)

\* A set of d whose data has arrived.
SetDone(d) == d \in Conns /\ where[d] \in {"worker", "freed"} /\ Seen(d).cmd = "set" /\ Complete(d)

\* The answer a is a true one for the request of c.
Fits(c, a) ==
    /\ a.head = "STORED" => Seen(c).cmd = "set" /\ Complete(c)
    /\ a.head \in {"VALUE", "END"} => Seen(c).cmd = "get"
    /\ a.head = "DELETED" => Seen(c).cmd = "delete"
    /\ a.head = "ERROR" => Seen(c).cmd \in {"bad", "delete"} \/ "update" \in Faults
    /\ a.data # None => a.head = "VALUE" /\ SetDone(a.data) /\ Seen(a.data).key = Seen(c).key

\* Worker w has the task c: what it has built and what it has sent of it.
Serves(w, c) ==
    /\ where[c] = "worker"
    /\ wpc[w] = "storage" => state[c] = "s_dispatch_query_task"
    /\ wpc[w] \in {"storage", "send_head"} => answer[c] = NoResponse
    /\ wpc[w] \in {"send_head", "send_data", "destroy"} => Fits(c, resp[c])
    /\ wpc[w] = "send_data" =>
         /\ resp[c].head = "VALUE" /\ answer[c].data = None
         /\ answer[c].head = "VALUE" \/ (answer[c].head = "none" /\ peer[c] = "closed")
    /\ wpc[w] = "destroy" =>
         /\ answer[c].head \in {"none", resp[c].head} /\ answer[c].data \in {None, resp[c].data}
         /\ answer[c].data # None => answer[c].head = "VALUE"

WorkerOK(w) ==
    /\ wtask[w] = None <=> wpc[w] = "idle"
    /\ wtask[w] # None => Serves(w, wtask[w])
WorkersInv ==
    /\ \A w \in Workers : WorkerOK(w)
    /\ \A v, w \in Workers : wtask[v] = wtask[w] /\ wtask[v] # None => v = w
    /\ \A c \in Conns : where[c] = "worker" => \E w \in Workers : wtask[w] = c

\* A task is in at most one place of the pipes.
PipesInv ==
    /\ \A w \in Workers : Len(pipe[w]) <= PIPE_BUF
    /\ \A w \in Workers : \A i \in 1 .. Len(pipe[w]) : where[pipe[w][i]] = "pipe"
    /\ \A v, w \in Workers : \A i \in 1 .. Len(pipe[v]), j \in 1 .. Len(pipe[w]) :
         pipe[v][i] = pipe[w][j] => v = w /\ i = j
    /\ \A c \in Conns :
         where[c] = "pipe" => \E w \in Workers : \E i \in 1 .. Len(pipe[w]) : pipe[w][i] = c

\* The storage holds what some set has sent completely.
StoreOK == \A k \in Keys : store[k] # None => SetDone(store[k]) /\ Seen(store[k]).key = k

Inv == TypeOK /\ ConnInv /\ WorkersInv /\ PipesInv /\ StoreOK

-----------------------------------------------------------------------------
(* Types.                                                                  *)

\* A request and its fields.
LEMMA RequestFields ==
    ASSUME NEW r \in Requests
    PROVE  r.len \in Nat /\ \A i \in 0 .. HEAD_BUF : r.text[i] \in Texts
  BY DataNodeAssumption

\* What the parser finds in it.
LEMMA SeenFields ==
    ASSUME TypeOK, NEW c \in Conns, req[c] \in Requests
    PROVE  /\ Seen(c).cmd \in Commands /\ Seen(c).key \in Keys
           /\ Seen(c).head \in Nat \ {0} /\ Seen(c).data \in Nat /\ req[c].len \in Nat
<1>1. head_at[c] \in 0 .. HEAD_BUF
  BY DEF TypeOK
<1>2. PICK t \in Texts : t = Seen(c)
  BY <1>1, RequestFields DEF Seen
<1> QED
  BY <1>2, RequestFields DEF Texts

\* The task that a handler of the assign thread works on is the thread's.
LEMMA HandledTask ==
    ASSUME TypeOK, ConnInv, NEW c \in Conns, current = c
    PROVE  where[c] = "assign" /\ req[c] \in Requests /\ state[c] \in AssignStates
<1>1. where[c] = "assign" /\ Accounted(c) /\ Reading(c)
  BY DEF ConnInv, ConnOK, Watched
<1> QED
  BY <1>1 DEF Accounted, Reading, HeadFound, Seen

\* A busy worker's task.
LEMMA ServedTask ==
    ASSUME TypeOK, ConnInv, WorkersInv, NEW w \in Workers, wpc[w] # "idle"
    PROVE  wtask[w] \in Conns /\ where[wtask[w]] = "worker" /\ req[wtask[w]] \in Requests
           /\ Serves(w, wtask[w])
<1>1. wtask[w] \in Conns /\ Serves(w, wtask[w])
  BY DEF TypeOK, WorkersInv, WorkerOK
<1>2. where[wtask[w]] = "worker" /\ Accounted(wtask[w])
  BY <1>1 DEF Serves, ConnInv, ConnOK
<1> QED
  BY <1>1, <1>2 DEF Accounted

\* The first task of a pipe.
LEMMA PipedTask ==
    ASSUME TypeOK, ConnInv, PipesInv, NEW w \in Workers, pipe[w] # << >>
    PROVE  /\ Head(pipe[w]) \in Conns /\ where[Head(pipe[w])] = "pipe" /\ Tail(pipe[w]) \in Seq(Conns)
           /\ Len(pipe[w]) \in Nat \ {0} /\ Head(pipe[w]) = pipe[w][1]
           /\ Len(Tail(pipe[w])) = Len(pipe[w]) - 1
           /\ \A i \in 1 .. Len(pipe[w]) - 1 : Tail(pipe[w])[i] = pipe[w][i + 1]
<1>1. pipe[w] \in Seq(Conns)
  BY DEF TypeOK
<1>2. Len(pipe[w]) \in Nat /\ Len(pipe[w]) # 0 /\ Head(pipe[w]) = pipe[w][1] /\ Tail(pipe[w]) \in Seq(Conns)
      /\ Len(Tail(pipe[w])) = Len(pipe[w]) - 1 /\ Head(pipe[w]) \in Conns
      /\ \A i \in 1 .. Len(pipe[w]) - 1 : Tail(pipe[w])[i] = pipe[w][i + 1]
  BY <1>1
<1>3. 1 \in 1 .. Len(pipe[w])
  BY <1>2
<1> QED
  BY <1>2, <1>3 DEF PipesInv

\* The environment's steps keep the types.
LEMMA ClientType ==
    ASSUME TypeOK, ConnInv, NEW c \in Conns, Client(c)
    PROVE  TypeOK'
<1>1. CASE Connect(c)
  <2>1. PICK r \in Requests : req' = [req EXCEPT ![c] = r] /\ unsent' = [unsent EXCEPT ![c] = r.len]
    BY <1>1 DEF Connect
  <2>2. r.len \in Nat
    BY RequestFields
  <2>3. req' \in [Conns -> Requests \cup {NoRequest}] /\ unsent' \in [Conns -> Nat]
    BY <2>1, <2>2 DEF TypeOK
  <2> QED
    BY <1>1, <2>3 DEF Connect, TypeOK, task, watchers, workers
<1>2. CASE Send(c)
  <2>1. PICK n \in 1 .. unsent[c] : unsent' = [unsent EXCEPT ![c] = @ - n] /\ inbox' = [inbox EXCEPT ![c] = @ + n]
    BY <1>2 DEF Send
  <2>2. unsent' \in [Conns -> Nat] /\ inbox' \in [Conns -> Nat]
    BY <2>1 DEF TypeOK
  <2> QED
    BY <1>2, <2>2 DEF Send, TypeOK, task, watchers, workers
<1>3. CASE Disturb(c)
  <2>1. inbox' \in [Conns -> Nat] /\ peer' \in [Conns -> {"open", "stalled", "closed", "reset"}]
    <3>1. /\ inbox' = inbox \/ inbox' = [inbox EXCEPT ![c] = 0]
          /\ \E p \in {"stalled", "closed", "reset"} : peer' = [peer EXCEPT ![c] = p]
      BY <1>3 DEF Disturb
    <3> QED
      BY <3>1 DEF TypeOK
  <2> QED
    BY <1>3, <2>1 DEF Disturb, TypeOK, task, watchers, workers
<1>4. CASE Resume(c)
  BY <1>4 DEF Resume, TypeOK, task, watchers, workers
<1>5. CASE Elapse(c)
  BY <1>5 DEF Elapse, TypeOK, task, client, workers
<1> QED
  BY <1>1, <1>2, <1>3, <1>4, <1>5 DEF Client

\* The joint part: how much of a header and of the data has been read.
Bounds(c) ==
    /\ state[c] \in {"s_recv_req_head", "s_parse_req_head"} => have_read[c] <= HEAD_BUF
    /\ state[c] = "s_recv_req_data" => need_read[c] > 0

LEMMA DestroyType ==
    ASSUME TypeOK, NEW c \in Conns, destroy_query_task(c)
    PROVE  /\ where' \in [Conns -> {"client", "backlog", "assign", "pipe", "worker", "freed", "leaked"}]
           /\ inbox' \in [Conns -> Nat]
           /\ state' \in [Conns -> States]
           /\ have_read' \in [Conns -> Nat]
           /\ need_read' \in [Conns -> Int]
           /\ head_at' \in [Conns -> 0 .. HEAD_BUF]
           /\ error_log' \in [Conns -> BOOLEAN]
           /\ resp' \in [Conns -> Answers]
           /\ io_w' \in [Conns -> BOOLEAN]
           /\ timer_w' \in [Conns -> {"off", "armed", "due"}]
           /\ pending' \in SUBSET ({Listen} \cup UNION {Events(d) : d \in Conns})
           /\ \A d \in Conns : Bounds(d)'
<1>1. HEAD_BUF \in Nat /\ 0 \in 0 .. HEAD_BUF
  BY DataNodeAssumption
<1>2. NoResponse \in Answers
  BY DEF NoResponse, Answers, Heads
<1>3. \A d \in Conns : Bounds(d)'
  BY <1>1 DEF destroy_query_task, TypeOK, Bounds
<1> QED
  BY <1>1, <1>2, <1>3 DEF destroy_query_task, StopWatchers, TypeOK, States

LEMMA LogType ==
    ASSUME TypeOK, NEW c \in Conns, Log(c)
    PROVE  up' \in {"running", "aborted"} \cup {up} /\ error_log' \in [Conns -> BOOLEAN]
  BY DEF Log, TypeOK

LEMMA StateType ==
    ASSUME TypeOK, NEW c \in Conns, NEW s \in States, ChangeState(c, s)
    PROVE  state' \in [Conns -> States] /\ \A d \in Conns : state'[d] = IF d = c THEN s ELSE state[d]
  BY DEF ChangeState, TypeOK

\* Waiting for events and accepting.
LEMMA LoopType ==
    ASSUME TypeOK, ConnInv, NEW c \in Conns,
           Poll \/ Accept(c) \/ query_timer_event_handler(c) \/ query_io_event_handler(c)
    PROVE  TypeOK'
<1>0. HEAD_BUF \in Nat
  BY DataNodeAssumption
<1>1. CASE Poll
  <2>1. timer_w' \in [Conns -> {"off", "armed", "due"}]
    BY <1>1 DEF Poll, TypeOK
  <2>2. pending' \in SUBSET ({Listen} \cup UNION {Events(d) : d \in Conns})
    BY <1>1 DEF Poll, Events
  <2> QED
    BY <1>1, <2>1, <2>2 DEF Poll, TypeOK, task, client, workers
<1>2. CASE Accept(c)
  <2>1. need_read' \in [Conns -> Int] /\ \A d \in Conns : need_read'[d] \in {need_read[d], HEAD_BUF}
    BY <1>0, <1>2 DEF Accept, TypeOK
  <2>2. /\ where' \in [Conns -> {"client", "backlog", "assign", "pipe", "worker", "freed", "leaked"}]
        /\ io_w' \in [Conns -> BOOLEAN] /\ timer_w' \in [Conns -> {"off", "armed", "due"}]
        /\ pending' \in SUBSET ({Listen} \cup UNION {Events(d) : d \in Conns})
    BY <1>2 DEF Accept, TypeOK
  <2>3. \A d \in Conns : Bounds(d)'
    <3>1. HEAD_BUF > 0
      BY DataNodeAssumption
    <3> QED
      BY <1>2, <2>1, <3>1 DEF Accept, TypeOK, Bounds
  <2> QED
    BY <1>2, <2>1, <2>2, <2>3 DEF Accept, TypeOK, client, workers, Bounds
<1>3. CASE query_timer_event_handler(c)
  <2>1. CASE error_log[c]
    BY <1>3, <2>1, SMTT(40) DEF query_timer_event_handler, TypeOK, client, workers, task, watchers
  <2>2. CASE ~error_log[c]
    <3>1. destroy_query_task(c) /\ up' = up
      BY <1>3, <2>2 DEF query_timer_event_handler
    <3> QED
      BY <1>3, <3>1, DestroyType DEF query_timer_event_handler, TypeOK, client, workers, Bounds
  <2> QED
    BY <2>1, <2>2
<1>4. CASE query_io_event_handler(c)
  BY <1>4 DEF query_io_event_handler, TypeOK, client, workers, task
<1> QED
  BY <1>1, <1>2, <1>3, <1>4

\* What net_read() returns.
LEMMA UptoType ==
    ASSUME NEW m \in Nat, NEW n \in Nat
    PROVE  Upto(m, n) \in Nat /\ Upto(m, n) <= m /\ Upto(m, n) <= n /\ (m > 0 /\ n > 0 => Upto(m, n) > 0)
  BY DEF Upto

\* Reading a header.
LEMMA RecvHeadType ==
    ASSUME TypeOK, ConnInv, NEW c \in Conns, recv_req_head(c)
    PROVE  TypeOK'
<1>0. HEAD_BUF \in Nat
  BY DataNodeAssumption
<1>1. where[c] = "assign" /\ req[c] \in Requests /\ state[c] = "s_recv_req_head" /\ current = c
  BY HandledTask DEF recv_req_head, Handling
<1>2. /\ have_read[c] \in Nat /\ inbox[c] \in Nat /\ have_read[c] <= HEAD_BUF
      /\ need_read[c] = HEAD_BUF - have_read[c]
  BY <1>1 DEF TypeOK, ConnInv, ConnOK, Reading, HeadFound, Seen
<1>3. CASE inbox[c] > 0
  <2>0. need_read[c] \in Nat
    BY <1>0, <1>2
  <2>1. PICK n \in Nat : n = Upto(inbox[c], need_read[c]) /\ n <= inbox[c] /\ n <= need_read[c]
    BY <1>2, <2>0, UptoType
  <2>2. /\ have_read' = [have_read EXCEPT ![c] = @ + n] /\ inbox' = [inbox EXCEPT ![c] = @ - n]
        /\ head_at' = [head_at EXCEPT ![c] = have_read[c]]
        /\ need_read' = [need_read EXCEPT ![c] = 0]
        /\ ChangeState(c, "s_parse_req_head") /\ current' = current
        /\ UNCHANGED <<up, error_log>>
    BY <1>3, <2>1 DEF recv_req_head, NeedLoop
  <2>3. /\ have_read' \in [Conns -> Nat] /\ inbox' \in [Conns -> Nat]
        /\ head_at' \in [Conns -> 0 .. HEAD_BUF] /\ need_read' \in [Conns -> Int]
        /\ \A d \in Conns : d # c => have_read'[d] = have_read[d] /\ need_read'[d] = need_read[d]
        /\ have_read'[c] <= HEAD_BUF
    BY <1>0, <1>2, <2>1, <2>2, SMTT(40) DEF TypeOK
  <2>4. state' \in [Conns -> States] /\ \A d \in Conns : state'[d] = IF d = c THEN "s_parse_req_head" ELSE state[d]
    BY <2>2, StateType DEF States
  <2>5. \A d \in Conns : Bounds(d)'
    BY <2>3, <2>4 DEF TypeOK, Bounds
  <2> QED
    BY <2>2, <2>3, <2>4, <2>5 DEF recv_req_head, TypeOK, client, workers, watchers, Bounds
<1>4. CASE inbox[c] = 0
  <2>1. /\ ChangeState(c, "s_destroy_recv") /\ current' \in {current, None}
        /\ UNCHANGED <<task, inbox>> /\ (UNCHANGED <<up, error_log>> \/ Log(c))
    BY <1>4 DEF recv_req_head, NeedLoop
  <2>2. state' \in [Conns -> States] /\ \A d \in Conns : state'[d] = IF d = c THEN "s_destroy_recv" ELSE state[d]
    BY <2>1, StateType DEF States
  <2>3. up' \in {"running", "aborted", "exited"} /\ error_log' \in [Conns -> BOOLEAN]
    BY <2>1, LogType DEF TypeOK
  <2>4. \A d \in Conns : Bounds(d)'
    BY <2>1, <2>2 DEF TypeOK, Bounds, task
  <2> QED
    BY <2>1, <2>2, <2>3, <2>4 DEF recv_req_head, TypeOK, client, workers, watchers, task, Bounds
<1> QED
  BY <1>2, <1>3, <1>4

\* Parsing a header.
LEMMA ParseType ==
    ASSUME TypeOK, ConnInv, NEW c \in Conns,
           ParseIncomplete(c) \/ ParseFails(c) \/ ParseSet(c) \/ ParseOther(c) \/ DoSync(c)
    PROVE  TypeOK'
<1>0. HEAD_BUF \in Nat
  BY DataNodeAssumption
<1>1. where[c] = "assign" /\ req[c] \in Requests /\ current = c
  BY HandledTask DEF ParseIncomplete, ParseFails, ParseSet, ParseOther, DoSync, Handling
<1>2. have_read[c] \in Nat /\ Seen(c).data \in Nat /\ Seen(c).head \in Nat /\ Missing(c) \in Int
  <2>1. have_read[c] \in Nat
    BY DEF TypeOK
  <2>2. Seen(c).data \in Nat /\ Seen(c).head \in Nat
    BY <1>1, SeenFields
  <2> QED
    BY <2>1, <2>2 DEF Missing
<1>3. CASE ParseIncomplete(c)
  <2>1. CASE have_read[c] < HEAD_BUF
    <3>1. /\ need_read' = [need_read EXCEPT ![c] = HEAD_BUF - have_read[c]]
          /\ ChangeState(c, "s_recv_req_head") /\ UNCHANGED <<up, error_log, have_read>>
      BY <1>3, <2>1 DEF ParseIncomplete
    <3>2. state' \in [Conns -> States] /\ \A d \in Conns : state'[d] = IF d = c THEN "s_recv_req_head" ELSE state[d]
      BY <3>1, StateType DEF States
    <3>3. need_read' \in [Conns -> Int] /\ \A d \in Conns : d # c => need_read'[d] = need_read[d]
      BY <1>0, <1>2, <3>1 DEF TypeOK
    <3>4. \A d \in Conns : Bounds(d)'
      <4>1. ASSUME NEW d \in Conns, d # c PROVE Bounds(d)'
        BY <3>1, <3>2, <3>3, <4>1 DEF TypeOK, Bounds
      <4>2. Bounds(c)'
        BY <1>0, <1>2, <2>1, <3>1, <3>2 DEF Bounds
      <4> QED
        BY <4>1, <4>2
    <3> QED
      BY <1>3, <3>1, <3>2, <3>3, <3>4 DEF ParseIncomplete, TypeOK, client, workers, watchers, Bounds
  <2>2. CASE ~(have_read[c] < HEAD_BUF)
    <3>1. Log(c) /\ ChangeState(c, "s_destroy_recv") /\ UNCHANGED <<need_read, have_read>>
      BY <1>3, <2>2 DEF ParseIncomplete
    <3>2. state' \in [Conns -> States] /\ \A d \in Conns : state'[d] = IF d = c THEN "s_destroy_recv" ELSE state[d]
      BY <3>1, StateType DEF States
    <3>3. up' \in {"running", "aborted", "exited"} /\ error_log' \in [Conns -> BOOLEAN]
      BY <3>1, LogType DEF TypeOK
    <3>4. \A d \in Conns : Bounds(d)'
      BY <3>1, <3>2 DEF TypeOK, Bounds
    <3> QED
      BY <1>3, <3>1, <3>2, <3>3, <3>4 DEF ParseIncomplete, TypeOK, client, workers, watchers, Bounds
  <2> QED
    BY <2>1, <2>2
<1>4. CASE ParseFails(c)
  <2>1. Log(c) /\ ChangeState(c, "s_return_failed") /\ UNCHANGED task
    BY <1>4 DEF ParseFails
  <2>2. state' \in [Conns -> States] /\ \A d \in Conns : state'[d] = IF d = c THEN "s_return_failed" ELSE state[d]
    BY <2>1, StateType DEF States
  <2>3. up' \in {"running", "aborted", "exited"} /\ error_log' \in [Conns -> BOOLEAN]
    BY <2>1, LogType DEF TypeOK
  <2>4. \A d \in Conns : Bounds(d)'
    BY <2>1, <2>2 DEF TypeOK, Bounds, task
  <2> QED
    BY <1>4, <2>1, <2>2, <2>3, <2>4 DEF ParseFails, TypeOK, client, workers, watchers, task, Bounds
<1>5. CASE ParseSet(c)
  <2>1. /\ need_read' = [need_read EXCEPT ![c] = Missing(c)] /\ UNCHANGED have_read
        /\ current' \in Conns \cup {None} /\ up' \in {"running", "aborted", "exited"}
        /\ \/ ChangeState(c, "s_dispatch_query_task") \/ ChangeState(c, "s_destroy_recv")
           \/ ChangeState(c, "s_recv_req_data") /\ Missing(c) > 0
           \/ state' = state /\ state[c] = "s_parse_req_head"
    BY <1>5 DEF ParseSet, NeedLoop, TypeOK, Handling
  <2>2. /\ state' \in [Conns -> States] /\ \A d \in Conns : d # c => state'[d] = state[d]
        /\ state'[c] \in {"s_dispatch_query_task", "s_destroy_recv", "s_recv_req_data", "s_parse_req_head"}
        /\ state'[c] = "s_parse_req_head" => state[c] = "s_parse_req_head"
        /\ state'[c] = "s_recv_req_data" => Missing(c) > 0
    BY <2>1, ZenonT(60) DEF ChangeState, States, TypeOK
  <2>3. /\ need_read' \in [Conns -> Int] /\ need_read'[c] = Missing(c)
        /\ \A d \in Conns : d # c => need_read'[d] = need_read[d]
    BY <1>2, <2>1 DEF TypeOK
  <2>4. \A d \in Conns : Bounds(d)'
    BY <2>1, <2>2, <2>3 DEF TypeOK, Bounds
  <2> QED
    BY <1>5, <2>1, <2>2, <2>3, <2>4 DEF ParseSet, TypeOK, client, workers, watchers, Bounds
<1>6. CASE ParseOther(c) \/ DoSync(c)
  <2>1. PICK s \in {"s_dispatch_query_task", "s_do_sync", "s_do_power", "s_destroy_recv"} :
           ChangeState(c, s) /\ UNCHANGED task
    BY <1>6 DEF ParseOther, DoSync
  <2>2. state' \in [Conns -> States] /\ \A d \in Conns : state'[d] = IF d = c THEN s ELSE state[d]
    BY <2>1, StateType DEF States
  <2>3. \A d \in Conns : Bounds(d)'
    BY <2>1, <2>2 DEF TypeOK, Bounds, task
  <2> QED
    BY <1>6, <2>1, <2>2, <2>3 DEF ParseOther, DoSync, TypeOK, client, workers, watchers, task, Bounds
<1> QED
  BY <1>3, <1>4, <1>5, <1>6

\* Reading data.
LEMMA RecvDataType ==
    ASSUME TypeOK, ConnInv, NEW c \in Conns, recv_req_data(c)
    PROVE  TypeOK'
<1>1. where[c] = "assign" /\ req[c] \in Requests /\ state[c] = "s_recv_req_data" /\ current = c
  BY HandledTask DEF recv_req_data, Handling
<1>2. have_read[c] \in Nat /\ inbox[c] \in Nat /\ need_read[c] \in Nat /\ need_read[c] > 0
  BY <1>1 DEF TypeOK
<1>3. PICK n \in Nat : n = Upto(inbox[c], need_read[c]) /\ n <= inbox[c] /\ n <= need_read[c]
  BY <1>2, UptoType
<1>4. CASE /\ n < need_read[c]
           /\ have_read' = [have_read EXCEPT ![c] = @ + n]
           /\ need_read' = [need_read EXCEPT ![c] = @ - n]
           /\ inbox' = [inbox EXCEPT ![c] = @ - n]
           /\ current' = None
           /\ UNCHANGED <<up, state, error_log>>
  <2>1. /\ have_read' \in [Conns -> Nat] /\ inbox' \in [Conns -> Nat] /\ need_read' \in [Conns -> Int]
        /\ need_read'[c] > 0
        /\ \A d \in Conns : d # c => have_read'[d] = have_read[d] /\ need_read'[d] = need_read[d]
    <3>1. have_read[c] + n \in Nat /\ inbox[c] - n \in Nat /\ need_read[c] - n \in Nat /\ need_read[c] - n > 0
      BY <1>2, <1>3, <1>4
    <3>2. /\ have_read \in [Conns -> Nat] /\ inbox \in [Conns -> Nat] /\ need_read \in [Conns -> Int]
          /\ need_read[c] - n \in Int
      BY <3>1, SMTT(40) DEF TypeOK
    <3> QED
      BY <1>4, <3>1, <3>2
  <2>2. \A d \in Conns : Bounds(d)'
    BY <1>1, <1>4, <2>1 DEF TypeOK, Bounds
  <2> QED
    BY <1>4, <2>1, <2>2 DEF recv_req_data, TypeOK, client, workers, watchers, Bounds
<1>5. CASE /\ ChangeState(c, "s_dispatch_query_task") \/ ChangeState(c, "s_destroy_recv")
           /\ inbox' \in {inbox, [inbox EXCEPT ![c] = @ - n]}
           /\ Log(c) \/ UNCHANGED <<up, error_log>>
           /\ UNCHANGED <<have_read, need_read, current>>
  <2>1. PICK s \in {"s_dispatch_query_task", "s_destroy_recv"} : ChangeState(c, s)
    BY <1>5
  <2>2. state' \in [Conns -> States] /\ \A d \in Conns : state'[d] = IF d = c THEN s ELSE state[d]
    BY <2>1, StateType DEF States
  <2>3. up' \in {"running", "aborted", "exited"} /\ error_log' \in [Conns -> BOOLEAN]
    BY <1>5, LogType DEF TypeOK
  <2>4. inbox' \in [Conns -> Nat]
    <3>1. inbox[c] - n \in Nat /\ inbox \in [Conns -> Nat]
      BY <1>2, <1>3 DEF TypeOK
    <3> QED
      BY <1>5, <3>1
  <2>5. \A d \in Conns : Bounds(d)'
    BY <1>5, <2>2 DEF TypeOK, Bounds
  <2> QED
    BY <1>5, <2>2, <2>3, <2>4, <2>5 DEF recv_req_data, TypeOK, client, workers, watchers, Bounds
<1> QED
  BY <1>3, <1>4, <1>5 DEF recv_req_data, NeedLoop

\* Leaving the assign thread.
LEMMA LeaveType ==
    ASSUME TypeOK, ConnInv, NEW c \in Conns, dispatch_query_task(c) \/ DestroyRecv(c) \/ DoPower(c)
    PROVE  TypeOK'
<1>1. CASE dispatch_query_task(c)
  <2>0. worker_thread_cnt \in Nat \ {0}
    BY DataNodeAssumption
  <2>1. NextWorker \in Workers /\ NextWorker + 1 \in 0 .. worker_thread_cnt
    BY <2>0 DEF NextWorker, Workers, TypeOK
  <2>2. pipe' \in [Workers -> Seq(Conns)]
    BY <1>1, <2>1 DEF dispatch_query_task, TypeOK
  <2>3. /\ where' \in [Conns -> {"client", "backlog", "assign", "pipe", "worker", "freed", "leaked"}]
        /\ io_w' \in [Conns -> BOOLEAN] /\ timer_w' \in [Conns -> {"off", "armed", "due"}]
        /\ pending' \in SUBSET ({Listen} \cup UNION {Events(d) : d \in Conns})
    BY <1>1 DEF dispatch_query_task, StopWatchers, TypeOK
  <2> QED
    BY <1>1, <2>1, <2>2, <2>3 DEF dispatch_query_task, TypeOK, client, workers, task
<1>2. CASE DestroyRecv(c)
  BY <1>2, DestroyType DEF DestroyRecv, TypeOK, client, workers, Bounds
<1>3. CASE DoPower(c)
  BY <1>3, DestroyType DEF DoPower, TypeOK, client, workers, Bounds
<1> QED
  BY <1>1, <1>2, <1>3

\* The answers that build_response() makes.
LEMMA ResponseType ==
    ASSUME NEW s, NEW data \in Conns \cup {None}
    PROVE  /\ Response(s, data) \in Answers
           /\ Response(s, data).head = "STORED" <=> s = "s_set_success"
           /\ Response(s, data).head = "VALUE" <=> s = "s_get_success"
           /\ Response(s, data).head = "END" <=> s = "s_get_failed"
           /\ Response(s, data).head = "DELETED" <=> s = "s_delete_success"
           /\ Response(s, data).head # "none"
           /\ Response(s, data).data # None => s = "s_get_success" /\ Response(s, data).data = data
  BY DEF Response, Answers, Heads

\* The states that handle_request() sets after the storage call.
Built == {"s_set_success", "s_get_success", "s_delete_success"} \cup FailedStates

LEMMA BuildType ==
    ASSUME TypeOK, NEW w \in Workers, wtask[w] \in Conns, NEW s \in Built,
           NEW data \in Conns \cup {None}, Build(w, s, data), store' \in [Keys -> Conns \cup {None}]
    PROVE  TypeOK'
<1>1. state' \in [Conns -> States] /\ \A d \in Conns : state'[d] = IF d = wtask[w] THEN s ELSE state[d]
  BY StateType DEF Build, States, Built, FailedStates
<1>2. resp' \in [Conns -> Answers]
  BY ResponseType DEF Build, TypeOK
<1>3. up' \in {"running", "aborted", "exited"} /\ error_log' \in [Conns -> BOOLEAN]
  BY LogType DEF Build, TypeOK
<1>4. wpc' \in [Workers -> {"idle", "storage", "send_head", "send_data", "destroy"}]
  BY DEF Build, Goto, TypeOK
<1>5. \A d \in Conns : Bounds(d)'
  BY <1>1 DEF Build, TypeOK, Bounds, task, Built, FailedStates
<1> QED
  BY <1>1, <1>2, <1>3, <1>4, <1>5 DEF Build, TypeOK, client, task, watchers, Bounds

\* The storage call of a worker: what it builds and what it stores.
LEMMA StorageCalls ==
    ASSUME Inv, NEW w \in Workers,
           HandleGet(w) \/ HandleGetFails(w) \/ HandleSet(w) \/ HandleDelete(w) \/ HandleUpdateFails(w)
    PROVE  /\ wpc[w] = "storage" /\ wtask[w] \in Conns /\ Seen(wtask[w]).key \in Keys
           /\ \/ \E s \in Built, data \in Conns \cup {None} :
                   /\ Build(w, s, data)
                   /\ s = "s_set_success" => Seen(wtask[w]).cmd = "set"
                   /\ s \in {"s_get_success", "s_get_failed"} => Seen(wtask[w]).cmd = "get"
                   /\ s \in {"s_delete_success", "s_delete_failed"} => Seen(wtask[w]).cmd = "delete"
                   /\ s = "s_set_failed" => "update" \in Faults
                   /\ data # None => s = "s_get_success" /\ data = store[Seen(wtask[w]).key]
              \/ /\ up' = "aborted"
                 /\ UNCHANGED <<client, inbox, answer, where, state, task, error_log, resp, watchers,
                                current, last_fd, pipe, workers, store>>
           /\ \/ store' = store
              \/ \E v \in {store[Seen(wtask[w]).key], None, wtask[w]} :
                   /\ store' = [store EXCEPT ![Seen(wtask[w]).key] = v]
                   /\ v = wtask[w] => Seen(wtask[w]).cmd = "set"
<1>1. wpc[w] = "storage" /\ wtask[w] \in Conns /\ Seen(wtask[w]).key \in Keys
  <2>1. wpc[w] = "storage"
    BY DEF HandleGet, HandleGetFails, HandleSet, HandleDelete, HandleUpdateFails, At
  <2> QED
    BY <2>1, ServedTask, SeenFields DEF Inv
<1>2. store[Seen(wtask[w]).key] \in Conns \cup {None} /\ store \in [Keys -> Conns \cup {None}]
  BY <1>1 DEF Inv, TypeOK
<1>n. None \notin Conns
  BY DataNodeAssumption
<1> USE DEF Built, FailedStates
<1>3. CASE HandleGet(w)
  BY <1>1, <1>2, <1>3 DEF HandleGet
<1>4. CASE HandleGetFails(w)
  BY <1>1, <1>2, <1>4 DEF HandleGetFails
<1>5. CASE HandleSet(w)
  BY <1>1, <1>2, <1>5 DEF HandleSet
<1>6. CASE HandleDelete(w)
  BY <1>1, <1>2, <1>6, <1>n DEF HandleDelete
<1>7. CASE HandleUpdateFails(w)
  <2>1. CASE Seen(wtask[w]).cmd = "set"
    BY <1>1, <1>2, <1>7, <2>1 DEF HandleUpdateFails
  <2>2. CASE Seen(wtask[w]).cmd = "delete"
    BY <1>1, <1>2, <1>7, <2>2, <1>n DEF HandleUpdateFails
  <2> QED
    BY <1>7, <2>1, <2>2 DEF HandleUpdateFails
<1> QED
  BY <1>3, <1>4, <1>5, <1>6, <1>7

\* The worker threads keep the types.
LEMMA WorkerType ==
    ASSUME Inv, NEW w \in Workers, WorkerThread(w)
    PROVE  TypeOK'
<1>0. TypeOK /\ ConnInv /\ WorkersInv /\ PipesInv
  BY DEF Inv
<1>1. CASE ReadPipe(w)
  <2>1. PICK c \in Conns : c = Head(pipe[w]) /\ Tail(pipe[w]) \in Seq(Conns)
    BY <1>0, <1>1, PipedTask DEF ReadPipe
  <2>2. /\ wtask' = [wtask EXCEPT ![w] = c] /\ where' = [where EXCEPT ![c] = "worker"]
        /\ pipe' = [pipe EXCEPT ![w] = Tail(@)]
        /\ \/ resp' = [resp EXCEPT ![c] = [head |-> "ERROR", data |-> None]] /\ Goto(w, "send_head")
           \/ resp' = resp /\ Goto(w, "storage")
    BY <1>1, <2>1 DEF ReadPipe
  <2>3. /\ wtask' \in [Workers -> Conns \cup {None}] /\ pipe' \in [Workers -> Seq(Conns)]
        /\ where' \in [Conns -> {"client", "backlog", "assign", "pipe", "worker", "freed", "leaked"}]
    BY <1>0, <2>1, <2>2 DEF TypeOK
  <2>4. resp' \in [Conns -> Answers]
    <3>1. [head |-> "ERROR", data |-> None] \in Answers
      BY DEF Answers, Heads
    <3> QED
      BY <1>0, <2>2, <3>1 DEF TypeOK
  <2>5. wpc' \in [Workers -> {"idle", "storage", "send_head", "send_data", "destroy"}]
    BY <1>0, <2>2 DEF TypeOK, Goto
  <2> QED
    BY <1>0, <1>1, <2>3, <2>4, <2>5 DEF ReadPipe, TypeOK, client, task, watchers
<1>2. CASE HandleGet(w) \/ HandleGetFails(w) \/ HandleSet(w) \/ HandleDelete(w) \/ HandleUpdateFails(w)
  <2>1. wtask[w] \in Conns /\ Seen(wtask[w]).key \in Keys
    BY <1>2, StorageCalls
  <2>2. store' \in [Keys -> Conns \cup {None}]
    <3>1. store \in [Keys -> Conns \cup {None}]
      BY <1>0 DEF TypeOK
    <3>2. CASE store' = store
      BY <3>1, <3>2
    <3>3. CASE store' # store
      <4>1. PICK v \in {store[Seen(wtask[w]).key], None, wtask[w]} :
              store' = [store EXCEPT ![Seen(wtask[w]).key] = v]
        BY <1>2, <3>3, StorageCalls
      <4> QED
        BY <2>1, <3>1, <4>1
    <3> QED
      BY <3>2, <3>3
  <2>3. CASE \E s \in Built, data \in Conns \cup {None} : Build(w, s, data)
    BY <1>0, <2>1, <2>2, <2>3, BuildType
  <2>4. CASE /\ up' = "aborted"
             /\ UNCHANGED <<client, inbox, answer, where, state, task, error_log, resp, watchers,
                            current, last_fd, pipe, workers, store>>
    BY <1>0, <2>4 DEF TypeOK, client, task, watchers, workers
  <2> QED
    BY <1>2, <2>3, <2>4, StorageCalls
<1>3. CASE SendHead(w) \/ SendData(w)
  <2>1. PICK c \in Conns : c = wtask[w]
    BY <1>0, <1>3, ServedTask DEF SendHead, SendData, At
  <2>2. answer' \in [Conns -> Answers]
    <3>1. answer \in [Conns -> Answers] /\ resp[c] \in Answers /\ answer[c] \in Answers
      BY <1>0 DEF TypeOK
    <3>2. \/ answer' = answer
          \/ answer' = [answer EXCEPT ![c].head = answer[c].head]
          \/ answer' = [answer EXCEPT ![c].head = resp[c].head]
          \/ answer' = [answer EXCEPT ![c].data = resp[c].data]
      BY <1>3, <2>1 DEF SendHead, SendData
    <3> QED
      BY <3>1, <3>2 DEF Answers
  <2>3. up' \in {"running", "aborted", "exited"} /\ error_log' \in [Conns -> BOOLEAN]
    <3>1. Log(c) \/ UNCHANGED <<up, error_log>>
      BY <1>3, <2>1 DEF SendHead, SendData
    <3> QED
      BY <1>0, <3>1, LogType DEF TypeOK
  <2>4. wpc' \in [Workers -> {"idle", "storage", "send_head", "send_data", "destroy"}]
    BY <1>0, <1>3 DEF SendHead, SendData, Goto, TypeOK
  <2>5. UNCHANGED <<client, inbox, where, state, task, resp, watchers, current, last_fd, pipe, wtask, store>>
    BY <1>3 DEF SendHead, SendData
  <2> QED
    BY <1>0, <2>2, <2>3, <2>4, <2>5 DEF TypeOK, client, task, watchers
<1>4. CASE WorkerDestroy(w)
  <2>1. wtask[w] \in Conns
    BY <1>0, <1>4, ServedTask DEF WorkerDestroy, At
  <2>2. destroy_query_task(wtask[w])
    BY <1>4 DEF WorkerDestroy
  <2>3. /\ wtask' \in [Workers -> Conns \cup {None}]
        /\ wpc' \in [Workers -> {"idle", "storage", "send_head", "send_data", "destroy"}]
    BY <1>0, <1>4 DEF WorkerDestroy, Goto, TypeOK
  <2> QED
    BY <1>0, <1>4, <2>1, <2>2, <2>3, DestroyType DEF WorkerDestroy, TypeOK, client, Bounds
<1> QED
  BY <1>1, <1>2, <1>3, <1>4 DEF WorkerThread

\* Every step keeps the types.
LEMMA TypeStep ==
    ASSUME Inv, [Next]_vars
    PROVE  TypeOK'
<1>1. TypeOK /\ ConnInv
  BY DEF Inv
<1>2. CASE UNCHANGED vars
  BY <1>1, <1>2 DEF vars, TypeOK
<1>3. ASSUME NEW c \in Conns, AssignHandler(c) PROVE TypeOK'
  BY <1>1, <1>3, LoopType, RecvHeadType, ParseType, RecvDataType, LeaveType DEF AssignHandler
<1>4. CASE Poll
  <2>1. CASE Conns = {}
    BY <1>1, <1>4, <2>1 DEF Poll, TypeOK
  <2>2. CASE Conns # {}
    BY <1>1, <1>4, <2>2, LoopType
  <2> QED
    BY <2>1, <2>2
<1> QED
  BY <1>1, <1>2, <1>3, <1>4, ClientType, WorkerType DEF Next, AssignThread

-----------------------------------------------------------------------------
(* The connections that a step does not touch.                             *)

\* Nothing of d changes.
Same(d) ==
    /\ req'[d] = req[d] /\ unsent'[d] = unsent[d] /\ inbox'[d] = inbox[d] /\ peer'[d] = peer[d]
    /\ answer'[d] = answer[d] /\ where'[d] = where[d] /\ state'[d] = state[d]
    /\ have_read'[d] = have_read[d] /\ need_read'[d] = need_read[d] /\ head_at'[d] = head_at[d]
    /\ error_log'[d] = error_log[d] /\ resp'[d] = resp[d]
    /\ io_w'[d] = io_w[d] /\ timer_w'[d] = timer_w[d]
    /\ Events(d) \cap pending' \subseteq Events(d) \cap pending
    /\ current' = d <=> current = d

LEMMA SameKeeps ==
    ASSUME NEW d \in Conns, ConnOK(d), Same(d)
    PROVE  ConnOK(d)'
<1>1. Accounted(d)'
  BY DEF ConnOK, Accounted, Same
<1>2. Reading(d)'
  BY DEF ConnOK, Reading, Same, Justified, HeadFound, Seen
<1>3. Parsed(d)'
  BY DEF ConnOK, Parsed, Same, Complete, Seen
<1>4. Logged(d)'
  BY DEF ConnOK, Logged, Same
<1>5. Watched(d)'
  BY DEF ConnOK, Watched, Same
<1> QED
  BY <1>1, <1>2, <1>3, <1>4, <1>5 DEF ConnOK

LEMMA ClientFrame ==
    ASSUME TypeOK, NEW c \in Conns, Client(c), NEW d \in Conns, d # c
    PROVE  Same(d)
<1> USE DEF TypeOK, Same, task, watchers, client
<1>1. CASE Connect(c)
  BY <1>1 DEF Connect
<1>2. CASE Send(c)
  BY <1>2 DEF Send
<1>3. CASE Disturb(c)
  BY <1>3 DEF Disturb
<1>4. CASE Resume(c)
  BY <1>4 DEF Resume
<1>5. CASE Elapse(c)
  BY <1>5 DEF Elapse
<1> QED
  BY <1>1, <1>2, <1>3, <1>4, <1>5 DEF Client

LEMMA LogFrame ==
    ASSUME TypeOK, NEW c \in Conns, Log(c) \/ UNCHANGED error_log, NEW d \in Conns, d # c
    PROVE  error_log'[d] = error_log[d]
  BY DEF Log, TypeOK

LEMMA DestroyFrame ==
    ASSUME TypeOK, NEW c \in Conns, destroy_query_task(c), NEW d \in Conns, d # c
    PROVE  /\ inbox'[d] = inbox[d] /\ where'[d] = where[d] /\ state'[d] = state[d]
           /\ have_read'[d] = have_read[d] /\ need_read'[d] = need_read[d] /\ head_at'[d] = head_at[d]
           /\ error_log'[d] = error_log[d] /\ resp'[d] = resp[d]
           /\ io_w'[d] = io_w[d] /\ timer_w'[d] = timer_w[d] /\ pending' \subseteq pending
  BY DEF destroy_query_task, StopWatchers, TypeOK

\* Whatever a handler of the assign thread does with c leaves the others alone.
LEMMA AssignFrame ==
    ASSUME TypeOK, NEW c \in Conns, AssignHandler(c), NEW d \in Conns, d # c
    PROVE  Same(d)
<1>n. None \notin Conns
  BY DataNodeAssumption
<1> USE DEF TypeOK, Same, task, watchers, client
<1>1. CASE Accept(c)
  BY <1>1 DEF Accept
<1>2. CASE query_timer_event_handler(c)
  <2>1. CASE error_log[c]
    BY <1>2, <2>1 DEF query_timer_event_handler
  <2>2. CASE ~error_log[c]
    BY <1>2, <2>2, DestroyFrame DEF query_timer_event_handler
  <2> QED
    BY <2>1, <2>2
<1>3. CASE query_io_event_handler(c)
  BY <1>3, <1>n DEF query_io_event_handler, InLoop
<1>4. CASE recv_req_head(c)
  <2>1. error_log'[d] = error_log[d] /\ current = c /\ current' \in {c, None}
    BY <1>4, LogFrame DEF recv_req_head, Handling, NeedLoop
  <2>2. inbox'[d] = inbox[d] /\ have_read'[d] = have_read[d] /\ need_read'[d] = need_read[d]
        /\ head_at'[d] = head_at[d] /\ state'[d] = state[d]
    BY <1>4, ZenonT(60) DEF recv_req_head, ChangeState
  <2> QED
    BY <1>4, <1>n, <2>1, <2>2 DEF recv_req_head
<1>5. CASE ParseIncomplete(c)
  <2>1. error_log'[d] = error_log[d]
    BY <1>5, LogFrame DEF ParseIncomplete
  <2>2. need_read'[d] = need_read[d] /\ state'[d] = state[d]
    BY <1>5 DEF ParseIncomplete, ChangeState
  <2> QED
    BY <1>5, <2>1, <2>2 DEF ParseIncomplete
<1>6. CASE ParseFails(c)
  BY <1>6, LogFrame DEF ParseFails, ChangeState
<1>7. CASE ParseSet(c)
  <2>1. current = c /\ current' \in {c, None} /\ state'[d] = state[d] /\ need_read'[d] = need_read[d]
    BY <1>7 DEF ParseSet, Handling, NeedLoop, ChangeState
  <2> QED
    BY <1>7, <1>n, <2>1 DEF ParseSet
<1>8. CASE ParseOther(c)
  BY <1>8 DEF ParseOther, ChangeState
<1>9. CASE recv_req_data(c)
  <2>1. error_log'[d] = error_log[d] /\ current = c /\ current' \in {c, None}
    BY <1>9, LogFrame DEF recv_req_data, Handling, NeedLoop
  <2>2. inbox'[d] = inbox[d] /\ have_read'[d] = have_read[d] /\ need_read'[d] = need_read[d]
        /\ state'[d] = state[d]
    BY <1>9, ZenonT(60) DEF recv_req_data, ChangeState
  <2> QED
    BY <1>9, <1>n, <2>1, <2>2 DEF recv_req_data
<1>10. CASE dispatch_query_task(c)
  BY <1>10, <1>n DEF dispatch_query_task, Handling, StopWatchers
<1>11. CASE DestroyRecv(c)
  BY <1>11, <1>n, DestroyFrame, SMTT(40) DEF DestroyRecv, Handling
<1>12. CASE DoSync(c)
  BY <1>12 DEF DoSync, ChangeState
<1>13. CASE DoPower(c)
  <2>1. destroy_query_task(c) /\ current = c /\ current' = None /\ UNCHANGED <<client, answer>>
    BY <1>13 DEF DoPower, Handling
  <2> QED
    BY <1>n, <2>1, DestroyFrame, SMTT(40)
<1> QED
  BY <1>1, <1>2, <1>3, <1>4, <1>5, <1>6, <1>7, <1>8, <1>9, <1>10, <1>11, <1>12, <1>13 DEF AssignHandler

\* The task that worker w takes or has.
TaskOf(w) == IF wpc[w] = "idle" THEN Head(pipe[w]) ELSE wtask[w]

LEMMA WorkerFrame ==
    ASSUME Inv, NEW w \in Workers, WorkerThread(w), NEW d \in Conns, d # TaskOf(w)
    PROVE  Same(d)
<1>0. TypeOK /\ ConnInv /\ WorkersInv /\ PipesInv
  BY DEF Inv
<1> USE DEF Same, task, watchers, client
<1>1. CASE ReadPipe(w)
  <2>1. d # Head(pipe[w]) /\ Head(pipe[w]) \in Conns
    BY <1>0, <1>1, PipedTask DEF ReadPipe, At, TaskOf
  <2>2. where'[d] = where[d] /\ resp'[d] = resp[d]
    BY <1>0, <1>1, <2>1 DEF ReadPipe, TypeOK
  <2> QED
    BY <1>1, <2>2 DEF ReadPipe
<1>2. CASE HandleGet(w) \/ HandleGetFails(w) \/ HandleSet(w) \/ HandleDelete(w) \/ HandleUpdateFails(w)
  <2>1. wpc[w] = "storage" /\ wtask[w] \in Conns
    BY <1>2, StorageCalls
  <2>2. d # wtask[w]
    BY <2>1 DEF TaskOf
  <2>3. CASE \E s \in Built, data \in Conns \cup {None} : Build(w, s, data)
    <3>1. PICK s \in Built, data \in Conns \cup {None} : Build(w, s, data)
      BY <2>3
    <3>2. state'[d] = state[d] /\ resp'[d] = resp[d]
      BY <1>0, <2>1, <2>2, <3>1 DEF Build, ChangeState, TypeOK
    <3>3. error_log'[d] = error_log[d]
      BY <1>0, <2>1, <2>2, <3>1, LogFrame DEF Build
    <3> QED
      BY <3>1, <3>2, <3>3 DEF Build
  <2>4. CASE UNCHANGED <<client, inbox, answer, where, state, task, error_log, resp, watchers, current>>
    BY <2>4
  <2> QED
    BY <1>2, <2>3, <2>4, StorageCalls
<1>3. CASE SendHead(w) \/ SendData(w)
  <2>1. wtask[w] \in Conns /\ d # wtask[w]
    BY <1>0, <1>3, ServedTask DEF SendHead, SendData, At, TaskOf
  <2>2. error_log'[d] = error_log[d]
    BY <1>0, <1>3, <2>1, LogFrame DEF SendHead, SendData
  <2>3. answer'[d] = answer[d]
    BY <1>0, <1>3, <2>1 DEF SendHead, SendData, TypeOK
  <2> QED
    BY <1>3, <2>2, <2>3 DEF SendHead, SendData
<1>4. CASE WorkerDestroy(w)
  <2>1. wtask[w] \in Conns /\ d # wtask[w]
    BY <1>0, <1>4, ServedTask DEF WorkerDestroy, At, TaskOf
  <2> QED
    BY <1>0, <1>4, <2>1, DestroyFrame DEF WorkerDestroy
<1> QED
  BY <1>1, <1>2, <1>3, <1>4 DEF WorkerThread

-----------------------------------------------------------------------------
(* The connection that a step works on.                                    *)

\* Clients send, leave and come back, and time passes.
LEMMA ClientKeeps ==
    ASSUME TypeOK, NEW c \in Conns, ConnOK(c), Client(c)
    PROVE  ConnOK(c)'
<1>0. /\ Accounted(c) /\ Reading(c) /\ Parsed(c) /\ Logged(c) /\ Watched(c)
      /\ unsent[c] \in Nat /\ inbox[c] \in Nat /\ have_read[c] \in Nat
  BY DEF ConnOK, TypeOK
<1>1. CASE Connect(c)
  <2>1. PICK r \in Requests :
          /\ req' = [req EXCEPT ![c] = r] /\ unsent' = [unsent EXCEPT ![c] = r.len]
          /\ where[c] = "client" /\ where' = [where EXCEPT ![c] = "backlog"]
    BY <1>1 DEF Connect
  <2>2. req'[c] = r /\ unsent'[c] = r.len /\ r.len \in Nat /\ where'[c] = "backlog"
    BY <2>1, RequestFields DEF TypeOK
  <2>3. UNCHANGED <<inbox, peer, answer, state, task, error_log, watchers, current>>
    BY <1>1 DEF Connect
  <2>4. Accounted(c)'
    BY <1>0, <2>1, <2>2, <2>3 DEF Accounted, task
  <2>5. Logged(c)' /\ Watched(c)'
    BY <1>0, <2>1, <2>2, <2>3 DEF Logged, Watched, Accounted, watchers
  <2> QED
    BY <2>2, <2>4, <2>5 DEF ConnOK, Reading, Parsed, HeadFound, Seen
<1>2. CASE Send(c)
  <2>1. PICK n \in 1 .. unsent[c] :
          unsent' = [unsent EXCEPT ![c] = @ - n] /\ inbox' = [inbox EXCEPT ![c] = @ + n]
    BY <1>2 DEF Send
  <2>2. unsent'[c] = unsent[c] - n /\ inbox'[c] = inbox[c] + n /\ unsent'[c] \in Nat /\ n \in Nat
    BY <1>0, <2>1 DEF TypeOK
  <2>3. UNCHANGED <<req, peer, answer, where, state, task, error_log, resp, watchers, current>>
    BY <1>2 DEF Send
  <2>4. Accounted(c)'
    <3>1. where[c] # "client" /\ req[c] \in Requests /\ req[c].len \in Nat
      BY <1>0, <1>2, SeenFields DEF Send, Accounted
    <3> QED
      BY <1>0, <2>2, <2>3, <3>1 DEF Accounted, task
  <2>5. Parsed(c)'
    <3>1. where[c] # "client" /\ req[c].len \in Nat /\ Seen(c).head \in Nat /\ Seen(c).data \in Nat
      BY <1>0, <1>2, SeenFields DEF Send, Accounted
    <3>2. Complete(c) => Complete(c)'
      BY <1>0, <2>2, <2>3, <3>1 DEF Complete, Seen, task
    <3> QED
      BY <1>0, <2>3, <3>2 DEF Parsed, task, Seen
  <2>6. Reading(c)' /\ Logged(c)' /\ Watched(c)'
    BY <1>0, <2>3 DEF Reading, Justified, Logged, Watched, task, watchers, HeadFound, Seen
  <2> QED
    BY <2>4, <2>5, <2>6 DEF ConnOK
<1>3. CASE Disturb(c) \/ Resume(c)
  <2>1. UNCHANGED <<req, unsent, answer, where, state, task, error_log, resp, watchers, current>>
    BY <1>3 DEF Disturb, Resume
  <2>2. /\ inbox'[c] = inbox[c] \/ inbox'[c] = 0
        /\ peer[c] \in {"open", "stalled"}
    BY <1>3 DEF Disturb, Resume, TypeOK
  <2>3. Accounted(c)'
    <3>1. where[c] # "client" => req[c].len \in Nat
      BY <1>0, RequestFields DEF Accounted
    <3> QED
      BY <1>0, <2>1, <2>2, <3>1 DEF Accounted, task
  <2>4. Reading(c)' /\ Parsed(c)' /\ Logged(c)' /\ Watched(c)'
    BY <1>0, <2>1, <2>2
       DEF Reading, Justified, Parsed, Complete, Logged, Watched, task, watchers, HeadFound, Seen
  <2> QED
    BY <2>3, <2>4 DEF ConnOK
<1>4. CASE Elapse(c)
  <2>1. UNCHANGED <<req, unsent, peer, inbox, answer, where, state, task, error_log, io_w, pending, current>>
        /\ timer_w[c] = "armed"
    BY <1>4 DEF Elapse, client
  <2> QED
    BY <1>0, <2>1
       DEF ConnOK, Accounted, Reading, Justified, Parsed, Complete, Logged, Watched, task, HeadFound, Seen
<1> QED
  BY <1>1, <1>2, <1>3, <1>4 DEF Client

\* Events are collected for watched tasks only.
LEMMA PollKeeps ==
    ASSUME TypeOK, Poll, NEW c \in Conns, ConnOK(c)
    PROVE  ConnOK(c)'
<1>0. Accounted(c) /\ Reading(c) /\ Parsed(c) /\ Logged(c) /\ Watched(c)
  BY DEF ConnOK
<1>1. UNCHANGED <<req, unsent, peer, inbox, answer, where, state, task, error_log, resp, io_w, current>>
  BY DEF Poll, client
<1>2. timer_w'[c] = "off" \/ timer_w'[c] = timer_w[c]
  BY DEF Poll
<1>3. Events(c) \cap pending' # {} => io_w[c] \/ timer_w[c] # "off"
  <2> SUFFICES ASSUME NEW e, e \in Events(c), e \in pending' PROVE io_w[c] \/ timer_w[c] # "off"
    OBVIOUS
  <2>1. e = <<"io", c>> \/ e = <<"timer", c>>
    BY DEF Events
  <2>2. \/ \E d \in Conns : io_w[d] /\ e = <<"io", d>>
        \/ \E d \in Conns : timer_w[d] = "due" /\ e = <<"timer", d>>
        \/ e = Listen
    BY DEF Poll
  <2> QED
    BY <2>1, <2>2 DEF Listen
<1>4. Watched(c)'
  BY <1>0, <1>1, <1>2, <1>3 DEF Watched
<1> QED
  BY <1>0, <1>1, <1>4
     DEF ConnOK, Accounted, Reading, Justified, Parsed, Complete, Logged, task, HeadFound, Seen

\* A freed task is nobody's.
LEMMA DestroyKeeps ==
    ASSUME TypeOK, NEW c \in Conns, ConnOK(c), where[c] # "client", destroy_query_task(c), current' # c,
           UNCHANGED client
    PROVE  ConnOK(c)'
<1>1. /\ where'[c] = "freed" /\ inbox'[c] = 0 /\ have_read'[c] = 0 /\ ~error_log'[c]
      /\ ~io_w'[c] /\ timer_w'[c] = "off" /\ Events(c) \cap pending' = {}
  BY DEF destroy_query_task, StopWatchers, TypeOK
<1>2. /\ req[c] \in Requests /\ have_read[c] + inbox[c] + unsent[c] <= req[c].len
      /\ unsent[c] \in Nat /\ have_read[c] \in Nat /\ inbox[c] \in Nat /\ req[c].len \in Nat
      /\ req' = req /\ unsent' = unsent
  BY RequestFields DEF ConnOK, Accounted, TypeOK, client
<1>3. Accounted(c)'
  BY <1>1, <1>2 DEF Accounted
<1> QED
  BY <1>1, <1>3 DEF ConnOK, Reading, Parsed, Logged, Watched, HeadFound, Seen

\* What Log() does when the task has not been logged.
LEMMA LogOnce ==
    ASSUME TypeOK, NEW c \in Conns, ~error_log[c], Log(c)
    PROVE  up' = up /\ error_log'[c]
  BY DEF Log, TypeOK

\* The handlers of the assign thread before a request is parsed.
LEMMA LoopKeeps ==
    ASSUME TypeOK, ConnInv, NEW c \in Conns,
           Accept(c) \/ query_timer_event_handler(c) \/ query_io_event_handler(c)
    PROVE  ConnOK(c)'
<1>n. None \notin Conns
  BY DataNodeAssumption
<1>0. /\ ConnOK(c) /\ Accounted(c) /\ Reading(c) /\ Parsed(c) /\ Logged(c) /\ Watched(c)
      /\ unsent[c] \in Nat /\ inbox[c] \in Nat /\ have_read[c] \in Nat
  BY DEF ConnInv, ConnOK, TypeOK
<1>1. CASE Accept(c)
  <2>1. /\ where[c] = "backlog" /\ current = None /\ pending' \subseteq pending
        /\ UNCHANGED <<req, unsent, peer, inbox, answer, state, have_read, head_at, error_log, current>>
        /\ \/ where'[c] = "assign" /\ need_read'[c] = HEAD_BUF /\ io_w'[c]
           \/ where'[c] = "leaked" /\ UNCHANGED <<io_w, timer_w>>
    BY <1>1 DEF Accept, TypeOK, client, InLoop
  <2>2. req[c] \in Requests /\ Seen(c).head \in Nat \ {0} /\ HEAD_BUF \in Nat
    BY <1>0, <2>1, SeenFields, DataNodeAssumption DEF Accounted
  <2>3. Accounted(c)'
    BY <1>0, <2>1 DEF Accounted
  <2>4. Reading(c)' /\ Parsed(c)'
    BY <1>0, <2>1, <2>2 DEF Accounted, Reading, Parsed, AssignStates, HeadFound, Seen
  <2>5. Logged(c)'
    BY <1>0, <2>1 DEF Accounted, Logged
  <2>6. Watched(c)'
    BY <1>0, <1>n, <2>1 DEF Watched
  <2> QED
    BY <2>3, <2>4, <2>5, <2>6 DEF ConnOK
<1>2. CASE query_timer_event_handler(c)
  <2>1. where[c] = "assign" /\ current = None /\ UNCHANGED <<client, answer, current>>
    BY <1>0, <1>2 DEF query_timer_event_handler, InLoop, Watched, Events
  <2>2. ~error_log[c]
    BY <1>0, <1>n, <2>1 DEF Logged
  <2> QED
    BY <1>0, <1>2, <1>n, <2>1, <2>2, DestroyKeeps DEF query_timer_event_handler
<1>3. CASE query_io_event_handler(c)
  <2>1. /\ where[c] = "assign" /\ current = None /\ current' = c /\ pending' \subseteq pending
        /\ UNCHANGED <<req, unsent, peer, inbox, answer, where, state, task, error_log, io_w, timer_w>>
    BY <1>0, <1>3 DEF query_io_event_handler, InLoop, Watched, Events, client
  <2>2. ~error_log[c]
    BY <1>0, <1>n, <2>1 DEF Logged
  <2> QED
    BY <1>0, <2>1, <2>2
       DEF ConnOK, Accounted, Reading, Justified, Parsed, Complete, Logged, Watched, task, HeadFound, Seen
<1> QED
  BY <1>1, <1>2, <1>3

\* What is known of the task c in a handler of the assign thread.
LEMMA HandledFacts ==
    ASSUME TypeOK, ConnInv, NEW c \in Conns, current = c
    PROVE  /\ Accounted(c) /\ Reading(c) /\ Parsed(c) /\ Logged(c) /\ Watched(c)
           /\ where[c] = "assign" /\ req[c] \in Requests
           /\ have_read[c] + inbox[c] + unsent[c] <= req[c].len
           /\ unsent[c] \in Nat /\ inbox[c] \in Nat /\ have_read[c] \in Nat /\ need_read[c] \in Int
           /\ head_at[c] \in Nat /\ HEAD_BUF \in Nat
           /\ req[c].len \in Nat /\ Seen(c).head \in Nat \ {0} /\ Seen(c).data \in Nat
           /\ Seen(c).cmd \in Commands
           /\ error_log[c] => state[c] \in {"s_destroy_recv", "s_return_failed"}
<1>1. Accounted(c) /\ Reading(c) /\ Parsed(c) /\ Logged(c) /\ Watched(c)
  BY DEF ConnInv, ConnOK
<1>2. where[c] = "assign" /\ req[c] \in Requests
  BY HandledTask
<1>3. HEAD_BUF \in Nat /\ head_at[c] \in 0 .. HEAD_BUF
  BY DataNodeAssumption DEF TypeOK
<1> QED
  BY <1>1, <1>2, <1>3, SeenFields, SMTT(40) DEF Accounted, Logged, TypeOK

\* Reading a header keeps the account.
LEMMA RecvHeadKeeps ==
    ASSUME TypeOK, ConnInv, NEW c \in Conns, recv_req_head(c)
    PROVE  ConnOK(c)'
<1>n. None \notin Conns
  BY DataNodeAssumption
<1>1. current = c /\ state[c] = "s_recv_req_head"
  BY DEF recv_req_head, Handling
<1>2. /\ Accounted(c) /\ Reading(c) /\ Parsed(c) /\ Logged(c) /\ Watched(c)
      /\ where[c] = "assign" /\ req[c] \in Requests
      /\ have_read[c] + inbox[c] + unsent[c] <= req[c].len
      /\ unsent[c] \in Nat /\ inbox[c] \in Nat /\ have_read[c] \in Nat /\ need_read[c] \in Int
      /\ req[c].len \in Nat /\ Seen(c).head \in Nat \ {0} /\ HEAD_BUF \in Nat
      /\ ~error_log[c]
  BY <1>1, HandledFacts
<1>3. ~HeadFound(c) /\ need_read[c] = HEAD_BUF - have_read[c] /\ have_read[c] <= HEAD_BUF
  BY <1>1, <1>2 DEF Reading, TypeOK, HeadFound, Seen
<1>4. UNCHANGED <<req, unsent, peer, answer, where, io_w, timer_w, pending>>
  BY DEF recv_req_head, client, watchers
<1>5. CASE inbox[c] > 0
  <2>1. need_read[c] \in Nat
    BY <1>2, <1>3
  <2>2. PICK n \in Nat : n = Upto(inbox[c], need_read[c]) /\ n <= inbox[c] /\ n <= need_read[c]
    BY <1>2, <2>1, UptoType
  <2>3. /\ have_read' = [have_read EXCEPT ![c] = @ + n] /\ inbox' = [inbox EXCEPT ![c] = @ - n]
        /\ head_at' = [head_at EXCEPT ![c] = have_read[c]]
        /\ ChangeState(c, "s_parse_req_head") /\ current' = current
        /\ UNCHANGED error_log
    BY <1>5, <2>2 DEF recv_req_head, NeedLoop
  <2>4. /\ have_read'[c] = have_read[c] + n /\ inbox'[c] = inbox[c] - n /\ head_at'[c] = have_read[c]
        /\ state'[c] = "s_parse_req_head"
    BY <2>3 DEF ChangeState, TypeOK
  <2>5. Accounted(c)'
    BY <1>2, <1>4, <2>2, <2>4 DEF Accounted
  <2>6. Reading(c)'
    BY <1>2, <1>3, <1>4, <2>4 DEF Reading, AssignStates, HeadFound, Seen
  <2>7. Parsed(c)' /\ Logged(c)' /\ Watched(c)'
    BY <1>2, <1>4, <2>3, <2>4 DEF Parsed, Logged, Watched, Seen
  <2> QED
    BY <2>5, <2>6, <2>7 DEF ConnOK
<1>6. CASE inbox[c] = 0
  <2>1. /\ ChangeState(c, "s_destroy_recv") /\ UNCHANGED <<task, inbox>>
        /\ \/ current' = None /\ error_log' = error_log
           \/ current' = current /\ Log(c)
    BY <1>6 DEF recv_req_head, NeedLoop
  <2>2. state'[c] = "s_destroy_recv"
    BY <2>1 DEF ChangeState, TypeOK
  <2>3. Accounted(c)'
    BY <1>2, <1>4, <2>1 DEF Accounted, task
  <2>4. Reading(c)' /\ Parsed(c)'
    BY <1>2, <1>3, <1>4, <2>1, <2>2 DEF Reading, Parsed, Justified, AssignStates, task, HeadFound, Seen
  <2>5. Logged(c)' /\ Watched(c)'
    BY <1>1, <1>2, <1>4, <1>n, <2>1, <2>2 DEF Logged, Watched
  <2> QED
    BY <2>3, <2>4, <2>5 DEF ConnOK
<1> QED
  BY <1>2, <1>5, <1>6

\* Parsing: what the next state says of the request is true of it.
LEMMA ParseKeeps ==
    ASSUME TypeOK, ConnInv, NEW c \in Conns,
           ParseIncomplete(c) \/ ParseFails(c) \/ ParseSet(c) \/ ParseOther(c) \/ DoSync(c)
    PROVE  ConnOK(c)'
<1>n. None \notin Conns
  BY DataNodeAssumption
<1>1. current = c /\ state[c] \in {"s_parse_req_head", "s_do_sync"}
  BY DEF ParseIncomplete, ParseFails, ParseSet, ParseOther, DoSync, Handling
<1>2. /\ Accounted(c) /\ Reading(c) /\ Parsed(c) /\ Logged(c) /\ Watched(c)
      /\ where[c] = "assign" /\ req[c] \in Requests
      /\ have_read[c] + inbox[c] + unsent[c] <= req[c].len
      /\ unsent[c] \in Nat /\ inbox[c] \in Nat /\ have_read[c] \in Nat /\ head_at[c] \in Nat
      /\ req[c].len \in Nat /\ Seen(c).head \in Nat \ {0} /\ Seen(c).data \in Nat /\ HEAD_BUF \in Nat
      /\ Seen(c).cmd \in Commands
      /\ ~error_log[c]
  BY <1>1, HandledFacts
<1>3. /\ UNCHANGED <<req, unsent, peer, inbox, answer, where, have_read, head_at, io_w, timer_w, pending>>
      /\ current' \in {c, None} /\ (error_log' = error_log \/ (Log(c) /\ current' = c))
  BY <1>1 DEF ParseIncomplete, ParseFails, ParseSet, ParseOther, DoSync, client, watchers, task, NeedLoop
<1>4. Accounted(c)' /\ Watched(c)'
  BY <1>2, <1>3, <1>n DEF Accounted, Watched
<1>5. CASE ParseIncomplete(c)
  <2>0. state[c] = "s_parse_req_head" /\ ~HeadFound(c)
    BY <1>5 DEF ParseIncomplete, Handling
  <2>1. CASE have_read[c] < HEAD_BUF
    <3>1. /\ need_read'[c] = HEAD_BUF - have_read[c] /\ state'[c] = "s_recv_req_head" /\ error_log' = error_log
      BY <1>5, <2>1 DEF ParseIncomplete, ChangeState, TypeOK
    <3> QED
      BY <1>2, <1>3, <1>4, <2>0, <3>1 DEF ConnOK, Reading, Parsed, Logged, AssignStates, HeadFound, Seen
  <2>2. CASE ~(have_read[c] < HEAD_BUF)
    <3>1. state'[c] = "s_destroy_recv" /\ Log(c) /\ current' = c
      BY <1>1, <1>5, <2>2 DEF ParseIncomplete, ChangeState, TypeOK
    <3> QED
      BY <1>2, <1>3, <1>4, <2>0, <3>1
         DEF ConnOK, Reading, Justified, Parsed, Logged, AssignStates, HeadFound, Seen
  <2> QED
    BY <2>1, <2>2
<1>6. CASE ParseFails(c)
  <2>1. state'[c] = "s_return_failed" /\ current' = c /\ Seen(c).cmd = "bad"
    BY <1>1, <1>2, <1>6 DEF ParseFails, ChangeState, TypeOK, ParseSucceeds
  <2> QED
    BY <1>2, <1>3, <1>4, <2>1 DEF ConnOK, Reading, Parsed, Logged, AssignStates, HeadFound, Seen
<1>7. CASE ParseSet(c)
  <2>1. /\ need_read' = [need_read EXCEPT ![c] = Missing(c)] /\ error_log' = error_log
        /\ Seen(c).cmd = "set" /\ state[c] = "s_parse_req_head"
        /\ \/ Missing(c) = 0 /\ ChangeState(c, "s_dispatch_query_task")
           \/ Missing(c) > 0 /\ ChangeState(c, "s_recv_req_data")
           \/ Missing(c) < 0 /\ ChangeState(c, "s_destroy_recv")
           \/ state' = state
    BY <1>7 DEF ParseSet, Handling
  <2>2. /\ need_read'[c] = Missing(c)
        /\ \/ Missing(c) = 0 /\ state'[c] = "s_dispatch_query_task"
           \/ Missing(c) > 0 /\ state'[c] = "s_recv_req_data"
           \/ Missing(c) < 0 /\ state'[c] = "s_destroy_recv"
           \/ state'[c] = "s_parse_req_head"
    BY <2>1 DEF ChangeState, TypeOK
  <2>3. Logged(c)'
    BY <1>2, <2>1 DEF Logged
  <2>4. Missing(c) = Seen(c).data - (have_read[c] - Seen(c).head)
    BY DEF Missing
  <2>5. CASE Missing(c) = 0 /\ state'[c] = "s_dispatch_query_task"
    <3>1. Complete(c)'
      BY <1>2, <1>3, <2>4, <2>5 DEF Complete, Seen
    <3> QED
      BY <1>2, <1>3, <1>4, <2>1, <2>3, <2>5, <3>1
         DEF ConnOK, Reading, Parsed, AssignStates, Stored, HeadFound, Seen
  <2>6. CASE Missing(c) > 0 /\ state'[c] = "s_recv_req_data"
    <3>1. have_read[c] + need_read'[c] = Seen(c).head + Seen(c).data
      BY <1>2, <2>2, <2>4
    <3> QED
      BY <1>2, <1>3, <1>4, <2>1, <2>3, <2>6, <3>1 DEF ConnOK, Reading, Parsed, AssignStates, HeadFound, Seen
  <2>7. CASE Missing(c) < 0 /\ state'[c] = "s_destroy_recv"
    <3>1. have_read[c] > Seen(c).head + Seen(c).data
      BY <1>2, <2>4, <2>7
    <3> QED
      BY <1>2, <1>3, <1>4, <2>3, <2>7, <3>1
         DEF ConnOK, Reading, Justified, Parsed, AssignStates, HeadFound, Seen
  <2>8. CASE state'[c] = "s_parse_req_head"
    BY <1>2, <1>3, <1>4, <2>1, <2>3, <2>8 DEF ConnOK, Reading, Parsed, AssignStates, HeadFound, Seen
  <2> QED
    BY <2>2, <2>5, <2>6, <2>7, <2>8
<1>8. CASE ParseOther(c) \/ DoSync(c)
  <2>1. /\ error_log' = error_log
        /\ \/ state'[c] = "s_dispatch_query_task" /\ Seen(c).cmd \in {"get", "delete"}
           \/ state'[c] = "s_do_sync" /\ Seen(c).cmd = "sync"
           \/ state'[c] = "s_do_power" /\ Seen(c).cmd = "power"
           \/ state'[c] = "s_destroy_recv" /\ Seen(c).cmd = "sync"
    BY <1>2, <1>8 DEF ParseOther, DoSync, Handling, ChangeState, TypeOK, Reading, HeadFound, Seen
  <2>2. Logged(c)'
    BY <1>2, <2>1 DEF Logged
  <2> QED
    BY <1>2, <1>3, <1>4, <2>1, <2>2
       DEF ConnOK, Reading, Justified, Parsed, AssignStates, Stored, HeadFound, Seen
<1> QED
  BY <1>5, <1>6, <1>7, <1>8

\* Reading data keeps the account; a set goes on when it is complete.
LEMMA RecvDataKeeps ==
    ASSUME TypeOK, ConnInv, NEW c \in Conns, recv_req_data(c)
    PROVE  ConnOK(c)'
<1>n. None \notin Conns
  BY DataNodeAssumption
<1>1. current = c /\ state[c] = "s_recv_req_data"
  BY DEF recv_req_data, Handling
<1>2. /\ Accounted(c) /\ Reading(c) /\ Parsed(c) /\ Logged(c) /\ Watched(c)
      /\ where[c] = "assign" /\ req[c] \in Requests
      /\ have_read[c] + inbox[c] + unsent[c] <= req[c].len
      /\ unsent[c] \in Nat /\ inbox[c] \in Nat /\ have_read[c] \in Nat
      /\ req[c].len \in Nat /\ Seen(c).head \in Nat \ {0} /\ Seen(c).data \in Nat
      /\ ~error_log[c]
  BY <1>1, HandledFacts
<1>3. /\ need_read[c] \in Nat /\ Seen(c).cmd = "set"
      /\ have_read[c] + need_read[c] = Seen(c).head + Seen(c).data
  BY <1>1, <1>2 DEF Reading, TypeOK, HeadFound, Seen
<1>4. UNCHANGED <<req, unsent, peer, answer, where, head_at, io_w, timer_w, pending>>
  BY DEF recv_req_data, client, watchers
<1>5. PICK n \in Nat : n = Upto(inbox[c], need_read[c]) /\ n <= inbox[c] /\ n <= need_read[c]
  BY <1>2, <1>3, UptoType
<1>6. CASE /\ have_read' = [have_read EXCEPT ![c] = @ + n]
           /\ need_read' = [need_read EXCEPT ![c] = @ - n]
           /\ inbox' = [inbox EXCEPT ![c] = @ - n]
           /\ current' = None
           /\ UNCHANGED <<up, state, error_log>>
  <2>1. /\ have_read'[c] = have_read[c] + n /\ need_read'[c] = need_read[c] - n /\ inbox'[c] = inbox[c] - n
    BY <1>6 DEF TypeOK
  <2>2. Accounted(c)'
    BY <1>2, <1>4, <1>5, <1>6, <2>1 DEF Accounted
  <2>3. Reading(c)'
    BY <1>1, <1>2, <1>3, <1>4, <1>5, <1>6, <2>1 DEF Reading, AssignStates, HeadFound, Seen
  <2> QED
    BY <1>1, <1>2, <1>4, <1>6, <1>n, <2>2, <2>3 DEF ConnOK, Parsed, Logged, Watched, Seen
<1>7. CASE /\ n = need_read[c]
           /\ inbox' = [inbox EXCEPT ![c] = @ - n]
           /\ ChangeState(c, "s_dispatch_query_task")
           /\ UNCHANGED <<up, have_read, need_read, error_log, current>>
  <2>1. inbox'[c] = inbox[c] - n /\ state'[c] = "s_dispatch_query_task"
    BY <1>7 DEF TypeOK, ChangeState
  <2>2. Accounted(c)'
    BY <1>2, <1>4, <1>5, <1>7, <2>1 DEF Accounted
  <2>3. Complete(c)'
    BY <1>2, <1>3, <1>4, <1>5, <1>7 DEF Complete, Seen
  <2> QED
    BY <1>1, <1>2, <1>3, <1>4, <1>7, <2>1, <2>2, <2>3
       DEF ConnOK, Reading, Parsed, Logged, Watched, AssignStates, Stored, HeadFound, Seen
<1>8. CASE /\ peer[c] \in {"closed", "reset"}
           /\ Log(c)
           /\ ChangeState(c, "s_destroy_recv")
           /\ UNCHANGED <<have_read, need_read, inbox, current>>
  <2>1. state'[c] = "s_destroy_recv"
    BY <1>8 DEF TypeOK, ChangeState
  <2> QED
    BY <1>1, <1>2, <1>4, <1>8, <2>1
       DEF ConnOK, Accounted, Reading, Justified, Parsed, Logged, Watched, AssignStates, HeadFound, Seen
<1> QED
  BY <1>5, <1>6, <1>7, <1>8 DEF recv_req_data, NeedLoop

\* Handing the task over, or freeing it.
LEMMA LeaveKeeps ==
    ASSUME TypeOK, ConnInv, NEW c \in Conns, dispatch_query_task(c) \/ DestroyRecv(c) \/ DoPower(c)
    PROVE  ConnOK(c)'
<1>n. None \notin Conns
  BY DataNodeAssumption
<1>1. current = c /\ current' = None
  BY DEF dispatch_query_task, DestroyRecv, DoPower, Handling
<1>2. /\ Accounted(c) /\ Reading(c) /\ Parsed(c) /\ Logged(c) /\ Watched(c)
      /\ where[c] = "assign" /\ req[c] \in Requests
  BY <1>1, HandledFacts
<1>3. CASE dispatch_query_task(c)
  <2>1. /\ where'[c] = "pipe" /\ ~io_w'[c] /\ timer_w'[c] = "off" /\ Events(c) \cap pending' = {}
        /\ state[c] \in {"s_dispatch_query_task", "s_return_failed"}
    BY <1>3 DEF dispatch_query_task, StopWatchers, TypeOK, Handling
  <2>2. UNCHANGED <<req, unsent, peer, inbox, answer, state, have_read, need_read, head_at, error_log>>
    BY <1>3 DEF dispatch_query_task, client, task
  <2> QED
    BY <1>1, <1>2, <1>n, <2>1, <2>2
       DEF ConnOK, Accounted, Reading, Parsed, Complete, Logged, Watched, HeadFound, Seen
<1>4. CASE DestroyRecv(c) \/ DoPower(c)
  <2>1. destroy_query_task(c) /\ UNCHANGED client /\ ConnOK(c)
    BY <1>4 DEF DestroyRecv, DoPower, ConnInv
  <2> QED
    BY <1>1, <1>2, <1>n, <2>1, DestroyKeeps
<1> QED
  BY <1>3, <1>4

\* A worker's step on its task.
LEMMA WorkerKeeps ==
    ASSUME Inv, NEW w \in Workers, WorkerThread(w)
    PROVE  \E c \in Conns : c = TaskOf(w) /\ ConnOK(c)'
<1>0. TypeOK /\ ConnInv /\ WorkersInv /\ PipesInv
  BY DEF Inv
<1>n. None \notin Conns
  BY DataNodeAssumption
<1>1. CASE ReadPipe(w)
  <2>1. PICK c \in Conns : c = Head(pipe[w]) /\ c = TaskOf(w) /\ where[c] = "pipe"
    BY <1>0, <1>1, PipedTask DEF ReadPipe, At, TaskOf
  <2>2. Accounted(c) /\ Reading(c) /\ Parsed(c) /\ Logged(c) /\ Watched(c)
    BY <1>0 DEF ConnInv, ConnOK
  <2>3. where'[c] = "worker"
    BY <1>0, <1>1, <2>1 DEF ReadPipe, TypeOK
  <2>4. UNCHANGED <<req, unsent, peer, inbox, answer, state, have_read, need_read, head_at, error_log,
                    io_w, timer_w, pending, current>>
    BY <1>1 DEF ReadPipe, client, task, watchers
  <2>5. ConnOK(c)'
    BY <2>1, <2>2, <2>3, <2>4
       DEF ConnOK, Accounted, Reading, Parsed, Complete, Logged, Watched, HeadFound, Seen
  <2> QED
    BY <2>1, <2>5 DEF TaskOf
<1>2. CASE ~ReadPipe(w)
  <2>1. wpc[w] # "idle"
    BY <1>2 DEF WorkerThread, HandleGet, HandleGetFails, HandleSet, HandleDelete, HandleUpdateFails,
                SendHead, SendData, WorkerDestroy, At
  <2>2. PICK c \in Conns : c = wtask[w] /\ c = TaskOf(w) /\ where[c] = "worker"
    BY <1>0, <2>1, ServedTask DEF TaskOf
  <2> SUFFICES ConnOK(c)'
    BY <2>2
  <2>3. Accounted(c) /\ Reading(c) /\ Parsed(c) /\ Logged(c) /\ Watched(c)
    BY <1>0 DEF ConnInv, ConnOK
  <2>4. CASE /\ UNCHANGED <<req, unsent, peer, inbox, where, have_read, need_read, head_at,
                            io_w, timer_w, pending, current>>
             /\ state'[c] = state[c] \/ state'[c] \in Built
    BY <2>2, <2>3, <2>4
       DEF ConnOK, Accounted, Reading, Parsed, Complete, Logged, Watched, Built, FailedStates, HeadFound, Seen
  <2>5. CASE HandleGet(w) \/ HandleGetFails(w) \/ HandleSet(w) \/ HandleDelete(w) \/ HandleUpdateFails(w)
    <3>1. CASE \E s \in Built, data \in Conns \cup {None} : Build(w, s, data)
      BY <1>0, <2>2, <2>4, <3>1 DEF Build, ChangeState, TypeOK, client, task, watchers
    <3>2. CASE UNCHANGED <<client, inbox, answer, where, state, task, error_log, resp, watchers, current>>
      BY <2>4, <3>2 DEF client, task, watchers
    <3> QED
      BY <2>5, <3>1, <3>2, StorageCalls
  <2>6. CASE SendHead(w) \/ SendData(w)
    BY <2>4, <2>6 DEF SendHead, SendData, client, task, watchers
  <2>7. CASE WorkerDestroy(w)
    <3>1. current # c
      BY <2>2, <2>3 DEF Watched
    <3>2. destroy_query_task(c) /\ UNCHANGED <<client, current>> /\ ConnOK(c)
      BY <1>0, <2>2, <2>7 DEF WorkerDestroy, ConnInv
    <3> QED
      BY <1>0, <2>2, <3>1, <3>2, DestroyKeeps
  <2> QED
    BY <1>2, <2>5, <2>6, <2>7 DEF WorkerThread
<1> QED
  BY <1>1, <1>2

\* A step of the assign thread on its task.
LEMMA AssignKeeps ==
    ASSUME TypeOK, ConnInv, NEW c \in Conns, AssignHandler(c)
    PROVE  ConnOK(c)'
  BY LoopKeeps, RecvHeadKeeps, ParseKeeps, RecvDataKeeps, LeaveKeeps DEF AssignHandler

\* Every step keeps every connection in order.
LEMMA ConnStep ==
    ASSUME Inv, [Next]_vars
    PROVE  ConnInv'
<1>0. TypeOK /\ ConnInv
  BY DEF Inv
<1> SUFFICES ASSUME NEW d \in Conns PROVE ConnOK(d)'
  BY DEF ConnInv
<1>d. ConnOK(d)
  BY <1>0 DEF ConnInv
<1>1. CASE UNCHANGED vars
  <2>1. Same(d)
    BY <1>1 DEF vars, Same
  <2> QED
    BY <1>d, <2>1, SameKeeps
<1>2. CASE Poll
  BY <1>0, <1>d, <1>2, PollKeeps
<1>3. ASSUME NEW c \in Conns, AssignHandler(c) PROVE ConnOK(d)'
  <2>1. CASE c = d
    BY <1>0, <1>3, <2>1, AssignKeeps
  <2>2. CASE c # d
    BY <1>0, <1>d, <1>3, <2>2, AssignFrame, SameKeeps
  <2> QED
    BY <2>1, <2>2
<1>4. ASSUME NEW w \in Workers, WorkerThread(w) PROVE ConnOK(d)'
  <2>1. CASE d = TaskOf(w)
    BY <1>4, <2>1, WorkerKeeps
  <2>2. CASE d # TaskOf(w)
    BY <1>d, <1>4, <2>2, WorkerFrame, SameKeeps
  <2> QED
    BY <2>1, <2>2
<1>5. ASSUME NEW c \in Conns, Client(c) PROVE ConnOK(d)'
  <2>1. CASE c = d
    BY <1>0, <1>d, <1>5, <2>1, ClientKeeps
  <2>2. CASE c # d
    BY <1>0, <1>d, <1>5, <2>2, ClientFrame, SameKeeps
  <2> QED
    BY <2>1, <2>2
<1> QED
  BY <1>1, <1>2, <1>3, <1>4, <1>5 DEF Next, AssignThread

-----------------------------------------------------------------------------
(* Who has a task.                                                         *)

\* A handler of the assign thread takes a task that this thread has, keeps it
\* or hands it over, and touches no worker, no storage and no client.
LEMMA AssignWhere ==
    ASSUME TypeOK, ConnInv, NEW c \in Conns, AssignHandler(c)
    PROVE  /\ where[c] \in {"backlog", "assign"}
           /\ where'[c] \in {"backlog", "assign", "leaked", "freed", "pipe"}
           /\ \/ dispatch_query_task(c)
              \/ where'[c] # "pipe" /\ pipe' = pipe
           /\ UNCHANGED <<client, answer, workers, store>>
<1>1. CASE Accept(c)
  BY <1>1 DEF Accept, TypeOK
<1>2. CASE query_timer_event_handler(c) \/ query_io_event_handler(c)
  <2>1. where[c] = "assign"
    BY <1>2 DEF query_timer_event_handler, query_io_event_handler, ConnInv, ConnOK, Watched, Events
  <2> QED
    BY <1>2, <2>1
       DEF query_timer_event_handler, query_io_event_handler, destroy_query_task, TypeOK, client, workers
<1>3. CASE current = c
  <2>1. where[c] = "assign"
    BY <1>3, HandledTask
  <2>2. CASE dispatch_query_task(c)
    BY <2>1, <2>2 DEF dispatch_query_task, TypeOK
  <2>3. CASE DestroyRecv(c) \/ DoPower(c)
    BY <2>1, <2>3 DEF DestroyRecv, DoPower, destroy_query_task, TypeOK
  <2>4. CASE ~dispatch_query_task(c) /\ ~DestroyRecv(c) /\ ~DoPower(c)
    <3>1. CASE Accept(c) \/ query_timer_event_handler(c) \/ query_io_event_handler(c)
      BY <1>1, <1>2, <3>1
    <3>2. CASE ~(Accept(c) \/ query_timer_event_handler(c) \/ query_io_event_handler(c))
      <4>1. UNCHANGED <<client, answer, where, pipe, workers, store>>
        BY <2>4, <3>2
           DEF AssignHandler, recv_req_head, ParseIncomplete, ParseFails, ParseSet, ParseOther,
               recv_req_data, DoSync, client, workers
      <4> QED
        BY <2>1, <4>1
    <3> QED
      BY <3>1, <3>2
  <2> QED
    BY <2>2, <2>3, <2>4
<1>4. \/ Accept(c) \/ query_timer_event_handler(c) \/ query_io_event_handler(c) \/ current = c
  BY DEF AssignHandler, recv_req_head, ParseIncomplete, ParseFails, ParseSet, ParseOther, recv_req_data,
         dispatch_query_task, DestroyRecv, DoSync, DoPower, Handling
<1> QED
  BY <1>1, <1>2, <1>3, <1>4

LEMMA ClientWhere ==
    ASSUME TypeOK, NEW c \in Conns, Client(c)
    PROVE  /\ \/ where'[c] = where[c]
              \/ where[c] = "client" /\ where'[c] = "backlog"
           /\ where[c] # "client" => req'[c] = req[c] /\ unsent'[c] <= unsent[c]
           /\ peer[c] = "closed" => peer'[c] = "closed"
           /\ UNCHANGED <<answer, state, head_at, resp, pipe, workers, store>>
<1> USE DEF TypeOK, task, workers, client
<1>1. CASE Connect(c)
  BY <1>1 DEF Connect
<1>2. CASE Send(c)
  <2>1. PICK n \in 1 .. unsent[c] : unsent' = [unsent EXCEPT ![c] = @ - n]
    BY <1>2 DEF Send
  <2>2. unsent'[c] = unsent[c] - n /\ unsent[c] \in Nat
    BY <2>1
  <2>3. unsent'[c] <= unsent[c]
    BY <2>2
  <2> QED
    BY <1>2, <2>3 DEF Send
<1>3. CASE Disturb(c)
  BY <1>3 DEF Disturb
<1>4. CASE Resume(c)
  BY <1>4 DEF Resume
<1>5. CASE Elapse(c)
  BY <1>5 DEF Elapse
<1> QED
  BY <1>1, <1>2, <1>3, <1>4, <1>5 DEF Client

LEMMA WorkerWhere ==
    ASSUME Inv, NEW w \in Workers, WorkerThread(w)
    PROVE  /\ \/ ReadPipe(w) /\ where[TaskOf(w)] = "pipe" /\ where'[TaskOf(w)] = "worker"
              \/ WorkerDestroy(w) /\ where[TaskOf(w)] = "worker" /\ where'[TaskOf(w)] = "freed"
              \/ /\ wpc[w] # "idle" /\ where[TaskOf(w)] = "worker" /\ where' = where
                 /\ pipe' = pipe /\ wtask' = wtask
           /\ TaskOf(w) \in Conns
           /\ wpc[w] # "idle" => TaskOf(w) = wtask[w]
           /\ UNCHANGED <<client, head_at>>
           /\ \A v \in Workers : v # w => wpc'[v] = wpc[v] /\ wtask'[v] = wtask[v]
<1>0. TypeOK /\ ConnInv /\ WorkersInv /\ PipesInv
  BY DEF Inv
<1>1. CASE ReadPipe(w)
  <2>1. TaskOf(w) = Head(pipe[w]) /\ TaskOf(w) \in Conns /\ where[TaskOf(w)] = "pipe" /\ wpc[w] = "idle"
    BY <1>0, <1>1, PipedTask DEF ReadPipe, At, TaskOf
  <2>2. where'[TaskOf(w)] = "worker"
    BY <1>0, <1>1, <2>1 DEF ReadPipe, TypeOK
  <2>3. \A v \in Workers : v # w => wpc'[v] = wpc[v] /\ wtask'[v] = wtask[v]
    BY <1>0, <1>1 DEF ReadPipe, Goto, TypeOK
  <2> QED
    BY <1>1, <2>1, <2>2, <2>3 DEF ReadPipe, task
<1>2. CASE ~ReadPipe(w)
  <2>1. wpc[w] # "idle"
    BY <1>2 DEF WorkerThread, HandleGet, HandleGetFails, HandleSet, HandleDelete, HandleUpdateFails,
                SendHead, SendData, WorkerDestroy, At
  <2>2. TaskOf(w) = wtask[w] /\ TaskOf(w) \in Conns /\ where[TaskOf(w)] = "worker"
    BY <1>0, <2>1, ServedTask DEF TaskOf
  <2>3. CASE HandleGet(w) \/ HandleGetFails(w) \/ HandleSet(w) \/ HandleDelete(w) \/ HandleUpdateFails(w)
    <3>1. CASE \E s \in Built, data \in Conns \cup {None} : Build(w, s, data)
      BY <1>0, <2>1, <2>2, <3>1 DEF Build, Goto, TypeOK, task
    <3>2. CASE UNCHANGED <<client, where, task, pipe, workers>>
      BY <2>1, <2>2, <3>2 DEF workers, task
    <3> QED
      BY <2>3, <3>1, <3>2, StorageCalls
  <2>4. CASE SendHead(w) \/ SendData(w)
    BY <1>0, <2>1, <2>2, <2>4 DEF SendHead, SendData, Goto, TypeOK, task
  <2>5. CASE WorkerDestroy(w)
    <3>1. where'[TaskOf(w)] = "freed"
      BY <1>0, <2>2, <2>5 DEF WorkerDestroy, destroy_query_task, TypeOK
    <3>2. \A v \in Workers : v # w => wpc'[v] = wpc[v] /\ wtask'[v] = wtask[v]
      BY <1>0, <2>5 DEF WorkerDestroy, Goto, TypeOK
    <3> QED
      BY <2>1, <2>2, <2>5, <3>1, <3>2 DEF WorkerDestroy, destroy_query_task
  <2> QED
    BY <1>2, <2>3, <2>4, <2>5 DEF WorkerThread
<1> QED
  BY <1>1, <1>2

\* A request that a worker has, or had, stays what it is, and no less of it is
\* sent.
LEMMA RequestStable ==
    ASSUME Inv, [Next]_vars, NEW d \in Conns, where[d] \in {"worker", "freed"}
    PROVE  /\ where'[d] \in {"worker", "freed"} /\ unsent'[d] <= unsent[d]
           /\ req'[d] = req[d] /\ head_at'[d] = head_at[d]
<1> DEFINE Stable == /\ where'[d] \in {"worker", "freed"} /\ unsent'[d] <= unsent[d]
                     /\ req'[d] = req[d] /\ head_at'[d] = head_at[d]
<1>0. TypeOK /\ ConnInv /\ unsent[d] \in Nat
  BY DEF Inv, TypeOK
<1>1. CASE UNCHANGED vars
  BY <1>0, <1>1 DEF vars
<1>2. CASE Poll
  BY <1>0, <1>2 DEF Poll, client, task
<1>3. ASSUME NEW c \in Conns, AssignHandler(c) PROVE Stable
  <2>1. c # d
    BY <1>0, <1>3, AssignWhere
  <2> QED
    BY <1>0, <1>3, <2>1, AssignFrame DEF Same
<1>4. ASSUME NEW w \in Workers, WorkerThread(w) PROVE Stable
  <2>1. CASE d = TaskOf(w)
    BY <1>0, <1>4, <2>1, WorkerWhere DEF client
  <2>2. CASE d # TaskOf(w)
    BY <1>0, <1>4, <2>2, WorkerFrame DEF Same
  <2> QED
    BY <2>1, <2>2
<1>5. ASSUME NEW c \in Conns, Client(c) PROVE Stable
  <2>1. CASE c = d
    BY <1>0, <1>5, <2>1, ClientWhere
  <2>2. CASE c # d
    BY <1>0, <1>5, <2>2, ClientFrame DEF Same
  <2> QED
    BY <2>1, <2>2
<1> QED
  BY <1>1, <1>2, <1>3, <1>4, <1>5 DEF Next, AssignThread

\* A set that has arrived has arrived.
LEMMA SetStable ==
    ASSUME Inv, [Next]_vars, NEW d, SetDone(d)
    PROVE  SetDone(d)' /\ Seen(d)' = Seen(d)
<1>1. d \in Conns /\ where[d] \in {"worker", "freed"} /\ Seen(d).cmd = "set" /\ Complete(d)
  BY DEF SetDone
<1>2. /\ where'[d] \in {"worker", "freed"} /\ unsent'[d] <= unsent[d]
      /\ req'[d] = req[d] /\ head_at'[d] = head_at[d]
  BY <1>1, RequestStable
<1>3. TypeOK /\ req[d] \in Requests /\ unsent[d] \in Nat /\ unsent'[d] \in Nat
  <2>1. TypeOK' /\ TypeOK /\ Accounted(d)
    BY <1>1, TypeStep DEF Inv, ConnInv, ConnOK
  <2> QED
    BY <1>1, <2>1 DEF TypeOK, Accounted
<1>4. req[d].len \in Nat /\ Seen(d).head \in Nat /\ Seen(d).data \in Nat
  BY <1>1, <1>3, SeenFields
<1>5. Seen(d)' = Seen(d)
  BY <1>2 DEF Seen
<1>6. Complete(d)'
  BY <1>1, <1>2, <1>3, <1>4, <1>5 DEF Complete, Seen
<1> QED
  BY <1>1, <1>2, <1>5, <1>6 DEF SetDone

\* An answer that fits a request goes on fitting it.
LEMMA FitsStable ==
    ASSUME Inv, [Next]_vars, NEW c \in Conns, where[c] = "worker", NEW a, Fits(c, a)
    PROVE  Fits(c, a)'
<1>1. Seen(c)' = Seen(c)
  BY RequestStable DEF Seen
<1>2. Seen(c).cmd = "set" /\ Complete(c) => Complete(c)'
  BY SetStable DEF SetDone
<1>3. a.data # None => SetDone(a.data)' /\ Seen(a.data)' = Seen(a.data)
  BY SetStable DEF Fits
<1> QED
  BY <1>1, <1>2, <1>3 DEF Fits

\* The task of a worker that is about to call the storage.
LEMMA CallingTask ==
    ASSUME Inv, NEW w \in Workers, wpc[w] = "storage"
    PROVE  /\ wtask[w] \in Conns /\ where[wtask[w]] = "worker"
           /\ state[wtask[w]] = "s_dispatch_query_task" /\ answer[wtask[w]] = NoResponse
           /\ req[wtask[w]] \in Requests /\ Seen(wtask[w]).cmd \in Stored
           /\ Seen(wtask[w]).cmd = "set" => SetDone(wtask[w])
<1>1. TypeOK /\ ConnInv /\ WorkersInv
  BY DEF Inv
<1>2. wtask[w] \in Conns /\ where[wtask[w]] = "worker" /\ req[wtask[w]] \in Requests /\ Serves(w, wtask[w])
  BY <1>1, ServedTask
<1>3. state[wtask[w]] = "s_dispatch_query_task" /\ Parsed(wtask[w]) /\ answer[wtask[w]] = NoResponse
  BY <1>1, <1>2 DEF Serves, ConnInv, ConnOK
<1> QED
  BY <1>2, <1>3 DEF Parsed, SetDone, Seen

\* The storage goes on holding complete sets only.
LEMMA StoreStep ==
    ASSUME Inv, [Next]_vars
    PROVE  StoreOK'
<1>0. TypeOK /\ ConnInv /\ StoreOK
  BY DEF Inv
<1>1. CASE store' = store
  <2> SUFFICES ASSUME NEW k \in Keys, store[k] # None
               PROVE  SetDone(store[k])' /\ Seen(store[k])'.key = k
    BY <1>1 DEF StoreOK, SetDone, Complete, Seen
  <2>1. PICK d : d = store[k]
    OBVIOUS
  <2>2. SetDone(d) /\ Seen(d).key = k
    BY <1>0, <2>1 DEF StoreOK
  <2>3. SetDone(d)' /\ Seen(d)' = Seen(d)
    BY <2>2, SetStable
  <2> QED
    BY <1>1, <2>1, <2>2, <2>3 DEF SetDone, Complete, Seen
<1>2. ASSUME NEW w \in Workers,
             HandleGet(w) \/ HandleGetFails(w) \/ HandleSet(w) \/ HandleDelete(w) \/ HandleUpdateFails(w),
             store' # store
      PROVE  StoreOK'
  <2>1. wpc[w] = "storage" /\ Seen(wtask[w]).key \in Keys
    BY <1>2, StorageCalls
  <2>2. PICK v \in {store[Seen(wtask[w]).key], None, wtask[w]} :
           /\ store' = [store EXCEPT ![Seen(wtask[w]).key] = v]
           /\ v = wtask[w] => Seen(wtask[w]).cmd = "set"
    BY <1>2, StorageCalls
  <2>3. SUFFICES ASSUME NEW k \in Keys, NEW d, d = store'[k], d # None
                 PROVE  SetDone(d)' /\ Seen(d)'.key = k
    BY DEF StoreOK, SetDone, Complete, Seen
  <2>4. SetDone(d) /\ Seen(d).key = k
    <3>1. CASE k # Seen(wtask[w]).key \/ v = store[Seen(wtask[w]).key]
      <4>1. d = store[k]
        BY <1>0, <2>1, <2>2, <2>3, <3>1 DEF TypeOK
      <4> QED
        BY <1>0, <2>3, <4>1 DEF StoreOK
    <3>2. CASE k = Seen(wtask[w]).key /\ v # store[Seen(wtask[w]).key]
      <4>1. d = wtask[w] /\ v = wtask[w]
        BY <1>0, <2>1, <2>2, <2>3, <3>2 DEF TypeOK
      <4> QED
        BY <2>1, <2>2, <3>2, <4>1, CallingTask
    <3> QED
      BY <3>1, <3>2
  <2>5. SetDone(d)' /\ Seen(d)' = Seen(d)
    BY <2>4, SetStable
  <2> QED
    BY <2>3, <2>4, <2>5
<1>3. ASSUME NEW w \in Workers, WorkerThread(w), store' # store
      PROVE  HandleGet(w) \/ HandleGetFails(w) \/ HandleSet(w) \/ HandleDelete(w) \/ HandleUpdateFails(w)
  BY <1>3 DEF WorkerThread, ReadPipe, SendHead, SendData, WorkerDestroy
<1>4. CASE UNCHANGED vars
  BY <1>1, <1>4 DEF vars
<1>5. CASE Poll
  BY <1>1, <1>5 DEF Poll
<1> QED
  BY <1>0, <1>1, <1>2, <1>3, <1>4, <1>5, AssignWhere, ClientWhere DEF Next, AssignThread

-----------------------------------------------------------------------------
(* The workers.                                                            *)

\* The answer built for c goes on fitting it.
LEMMA RespFits ==
    ASSUME Inv, [Next]_vars, NEW c \in Conns, where[c] = "worker",
           resp'[c] = resp[c], Fits(c, resp[c])
    PROVE  Fits(c, resp[c])'
<1>1. PICK a : a = resp[c] /\ a = resp'[c]
  OBVIOUS
<1>2. Fits(c, a)'
  BY <1>1, FitsStable
<1> QED
  BY <1>1, <1>2 DEF Fits, Complete, SetDone, Seen

\* What Serves() says of a task stays as it is.
Kept(d) ==
    /\ answer'[d] = answer[d] /\ where'[d] = where[d] /\ state'[d] = state[d]
    /\ head_at'[d] = head_at[d] /\ resp'[d] = resp[d]
    /\ peer[d] = "closed" => peer'[d] = "closed"

LEMMA ServesKept ==
    ASSUME Inv, [Next]_vars, NEW w \in Workers, wtask'[w] = wtask[w], wpc'[w] = wpc[w],
           wtask[w] # None => Kept(wtask[w])
    PROVE  WorkerOK(w)'
<1>1. WorkerOK(w)
  BY DEF Inv, WorkersInv
<1>2. CASE wtask[w] = None
  BY <1>1, <1>2 DEF WorkerOK
<1>3. CASE wtask[w] # None
  <2>1. PICK c \in Conns : c = wtask[w]
    BY <1>3 DEF Inv, TypeOK
  <2>2. Serves(w, c) /\ Kept(c) /\ where[c] = "worker"
    BY <1>1, <1>3, <2>1 DEF WorkerOK, Serves
  <2>3. Fits(c, resp[c]) => Fits(c, resp[c])'
    BY <2>2, RespFits DEF Kept
  <2>4. Serves(w, c)'
    BY <2>2, <2>3 DEF Serves, Kept
  <2> QED
    BY <1>1, <1>3, <2>1, <2>4 DEF WorkerOK
<1> QED
  BY <1>2, <1>3

\* A worker's own step: what it has taken, built and sent is in order.
LEMMA ReadPipeServes ==
    ASSUME Inv, NEW w \in Workers, ReadPipe(w)
    PROVE  WorkerOK(w)'
<1>0. TypeOK /\ ConnInv /\ WorkersInv /\ PipesInv
  BY DEF Inv
<1>n. None \notin Conns
  BY DataNodeAssumption
<1>1. PICK c \in Conns : c = Head(pipe[w]) /\ where[c] = "pipe"
  BY <1>0, PipedTask DEF ReadPipe
<1>2. Accounted(c) /\ Parsed(c)
  BY <1>0 DEF ConnInv, ConnOK
<1>3. /\ answer[c] = NoResponse /\ state[c] \in {"s_dispatch_query_task", "s_return_failed"}
      /\ state[c] = "s_return_failed" => Seen(c).cmd = "bad"
  BY <1>1, <1>2 DEF Accounted, Parsed, Seen
<1>4. wtask'[w] = c /\ where'[c] = "worker" /\ UNCHANGED <<req, answer, state, head_at>>
  BY <1>0, <1>1 DEF ReadPipe, TypeOK, client, task
<1>5. CASE state[c] = "s_return_failed"
  <2>1. resp'[c] = [head |-> "ERROR", data |-> None] /\ wpc'[w] = "send_head"
    BY <1>0, <1>1, <1>5 DEF ReadPipe, Goto, TypeOK
  <2>2. Fits(c, resp[c])'
    BY <1>3, <1>4, <1>5, <2>1 DEF Fits, Seen
  <2>3. Serves(w, c)'
    BY <1>3, <1>4, <2>1, <2>2 DEF Serves
  <2> QED
    BY <1>4, <1>n, <2>1, <2>3 DEF WorkerOK
<1>6. CASE state[c] # "s_return_failed"
  <2>1. wpc'[w] = "storage"
    BY <1>0, <1>1, <1>6 DEF ReadPipe, Goto, TypeOK
  <2>2. Serves(w, c)'
    BY <1>3, <1>4, <1>6, <2>1 DEF Serves
  <2> QED
    BY <1>4, <1>n, <2>1, <2>2 DEF WorkerOK
<1> QED
  BY <1>5, <1>6

LEMMA BuildServes ==
    ASSUME Inv, [Next]_vars, NEW w \in Workers,
           HandleGet(w) \/ HandleGetFails(w) \/ HandleSet(w) \/ HandleDelete(w) \/ HandleUpdateFails(w)
    PROVE  WorkerOK(w)'
<1>0. TypeOK /\ ConnInv /\ WorkersInv /\ StoreOK
  BY DEF Inv
<1>n. None \notin Conns
  BY DataNodeAssumption
<1>1. wpc[w] = "storage" /\ Seen(wtask[w]).key \in Keys
  BY StorageCalls
<1>2. PICK c \in Conns : c = wtask[w] /\ where[c] = "worker" /\ answer[c] = NoResponse
                         /\ (Seen(c).cmd = "set" => SetDone(c))
  BY <1>1, CallingTask
<1>3. CASE \E s \in Built, data \in Conns \cup {None} :
                   /\ Build(w, s, data)
                   /\ s = "s_set_success" => Seen(wtask[w]).cmd = "set"
                   /\ s \in {"s_get_success", "s_get_failed"} => Seen(wtask[w]).cmd = "get"
                   /\ s \in {"s_delete_success", "s_delete_failed"} => Seen(wtask[w]).cmd = "delete"
                   /\ s = "s_set_failed" => "update" \in Faults
                   /\ data # None => s = "s_get_success" /\ data = store[Seen(wtask[w]).key]
  <2>1. PICK s \in Built, data \in Conns \cup {None} :
                   /\ Build(w, s, data)
                   /\ s = "s_set_success" => Seen(c).cmd = "set"
                   /\ s \in {"s_get_success", "s_get_failed"} => Seen(c).cmd = "get"
                   /\ s \in {"s_delete_success", "s_delete_failed"} => Seen(c).cmd = "delete"
                   /\ s = "s_set_failed" => "update" \in Faults
                   /\ data # None => s = "s_get_success" /\ data = store[Seen(c).key]
    BY <1>2, <1>3
  <2>2. PICK a : a = Response(s, data)
    OBVIOUS
  <2>3. /\ a.head = "STORED" => s = "s_set_success"
        /\ a.head = "VALUE" => s = "s_get_success"
        /\ a.head = "END" => s = "s_get_failed"
        /\ a.head = "DELETED" => s = "s_delete_success"
        /\ s = "s_get_success" => a.head = "VALUE"
        /\ a.head = "ERROR" => s \in {"s_set_failed", "s_delete_failed"}
        /\ a.data # None => s = "s_get_success" /\ a.data = data
    BY <2>2, ResponseType DEF Built, FailedStates
  <2>4. Fits(c, a)
    <3>1. a.data # None => SetDone(a.data) /\ Seen(a.data).key = Seen(c).key
      BY <1>0, <1>1, <1>2, <2>1, <2>3 DEF StoreOK
    <3> QED
      BY <1>2, <2>1, <2>3, <3>1 DEF Fits, SetDone
  <2>5. /\ resp'[c] = a /\ wpc'[w] = "send_head" /\ wtask' = wtask
        /\ UNCHANGED <<where, answer, head_at>>
    BY <1>0, <1>2, <2>1, <2>2 DEF Build, Goto, TypeOK, task
  <2>6. Fits(c, a)'
    BY <1>2, <2>4, <2>5, FitsStable
  <2>7. Fits(c, resp[c])'
    BY <2>5, <2>6 DEF Fits, Complete, SetDone, Seen
  <2>8. Serves(w, c)'
    BY <1>2, <2>5, <2>7 DEF Serves
  <2> QED
    BY <1>2, <1>n, <2>5, <2>8 DEF WorkerOK
<1>4. CASE UNCHANGED <<client, answer, where, state, task, resp, workers>>
  BY <1>4, ServesKept DEF Kept, client, task, workers
<1> QED
  BY <1>3, <1>4, StorageCalls

LEMMA SendServes ==
    ASSUME Inv, [Next]_vars, NEW w \in Workers, SendHead(w) \/ SendData(w)
    PROVE  WorkerOK(w)'
<1>0. TypeOK /\ ConnInv /\ WorkersInv
  BY DEF Inv
<1>n. None \notin Conns
  BY DataNodeAssumption
<1>1. PICK c \in Conns : c = wtask[w] /\ where[c] = "worker" /\ Serves(w, c)
  BY <1>0, ServedTask DEF SendHead, SendData, At
<1>2. UNCHANGED <<req, peer, where, state, head_at, resp, wtask>>
  BY DEF SendHead, SendData, client, task
<1>3. Fits(c, resp[c])'
  <2>1. Fits(c, resp[c])
    BY <1>1 DEF SendHead, SendData, At, Serves
  <2> QED
    BY <1>1, <1>2, <2>1, RespFits
<1>4. answer[c] \in Answers /\ answer \in [Conns -> Answers] /\ resp[c] \in Answers
  BY <1>0 DEF TypeOK
<1>5. CASE SendHead(w)
  <2>1. answer[c] = NoResponse
    BY <1>1, <1>5 DEF SendHead, At, Serves
  <2>2. CASE peer[c] = "reset"
    <3>1. wpc'[w] = "destroy" /\ answer' = answer
      BY <1>0, <1>1, <1>5, <2>2 DEF SendHead, Goto, TypeOK
    <3>2. Serves(w, c)'
      BY <1>1, <1>2, <1>3, <2>1, <3>1 DEF Serves, NoResponse
    <3> QED
      BY <1>1, <1>2, <1>n, <3>1, <3>2 DEF WorkerOK
  <2>3. CASE peer[c] # "reset"
    <3>1. /\ answer' = [answer EXCEPT ![c].head = IF peer[c] = "closed" THEN @ ELSE resp[c].head]
          /\ wpc'[w] = IF resp[c].head = "VALUE" THEN "send_data" ELSE "destroy"
      BY <1>0, <1>1, <1>5, <2>3 DEF SendHead, Goto, TypeOK
    <3>2. /\ answer'[c].data = None
          /\ answer'[c].head = IF peer[c] = "closed" THEN "none" ELSE resp[c].head
      BY <1>4, <2>1, <3>1 DEF Answers, NoResponse
    <3>3. Serves(w, c)'
      BY <1>1, <1>2, <1>3, <3>1, <3>2 DEF Serves
    <3> QED
      BY <1>1, <1>2, <1>n, <3>1, <3>3 DEF WorkerOK
  <2> QED
    BY <2>2, <2>3
<1>6. CASE SendData(w)
  <2>1. /\ wpc'[w] = "destroy"
        /\ \/ peer[c] = "open" /\ answer' = [answer EXCEPT ![c].data = resp[c].data]
           \/ answer' = answer
    BY <1>0, <1>1, <1>6 DEF SendData, Goto, TypeOK
  <2>2. /\ resp[c].head = "VALUE" /\ answer[c].data = None
        /\ answer[c].head = "VALUE" \/ (answer[c].head = "none" /\ peer[c] = "closed")
    BY <1>1, <1>6 DEF SendData, At, Serves
  <2>3. /\ answer'[c].head = answer[c].head
        /\ answer'[c].data = None \/ (answer'[c].data = resp[c].data /\ answer[c].head = "VALUE")
    BY <1>4, <2>1, <2>2 DEF Answers
  <2>4. Serves(w, c)'
    BY <1>1, <1>2, <1>3, <2>1, <2>2, <2>3 DEF Serves
  <2> QED
    BY <1>1, <1>2, <1>n, <2>1, <2>4 DEF WorkerOK
<1> QED
  BY <1>5, <1>6

\* Every worker has at most one task, of which it is in charge.
LEMMA WorkersStep ==
    ASSUME Inv, [Next]_vars
    PROVE  WorkersInv'
<1>0. TypeOK /\ ConnInv /\ WorkersInv /\ PipesInv
  BY DEF Inv
<1>a. ASSUME NEW v \in Workers, wtask[v] # None
      PROVE  wtask[v] \in Conns /\ where[wtask[v]] = "worker"
  BY <1>0, <1>a DEF WorkersInv, WorkerOK, Serves, TypeOK
<1>b. ASSUME wtask' = wtask, wpc' = wpc,
             \A d \in Conns : where[d] = "worker" => Kept(d),
             \A d \in Conns : where'[d] = "worker" => where[d] = "worker"
      PROVE  WorkersInv'
  <2>1. \A v \in Workers : WorkerOK(v)'
    BY <1>a, <1>b, ServesKept
  <2> QED
    BY <1>0, <1>b, <2>1 DEF WorkersInv
<1>1. CASE UNCHANGED vars
  BY <1>b, <1>1 DEF vars, Kept
<1>2. CASE Poll
  BY <1>b, <1>2 DEF Poll, Kept, task, workers, client
<1>3. ASSUME NEW c \in Conns, AssignHandler(c) PROVE WorkersInv'
  <2>1. /\ where[c] \in {"backlog", "assign"} /\ where'[c] # "worker"
        /\ wtask' = wtask /\ wpc' = wpc
    BY <1>0, <1>3, AssignWhere DEF workers
  <2>2. \A d \in Conns : d # c => Same(d)
    BY <1>0, <1>3, AssignFrame
  <2> QED
    BY <1>b, <2>1, <2>2 DEF Same, Kept
<1>4. ASSUME NEW c \in Conns, Client(c) PROVE WorkersInv'
  <2>1. /\ where'[c] = where[c] \/ (where[c] = "client" /\ where'[c] = "backlog")
        /\ peer[c] = "closed" => peer'[c] = "closed"
        /\ UNCHANGED <<answer, state, head_at, resp>>
        /\ wtask' = wtask /\ wpc' = wpc
    BY <1>0, <1>4, ClientWhere DEF workers
  <2>2. \A d \in Conns : d # c => Same(d)
    BY <1>0, <1>4, ClientFrame
  <2> QED
    BY <1>b, <2>1, <2>2 DEF Same, Kept
<1>5. ASSUME NEW w \in Workers, WorkerThread(w) PROVE WorkersInv'
  <2>1. PICK c \in Conns : c = TaskOf(w)
    BY <1>5, WorkerWhere
  <2>2. \A d \in Conns : d # c => Same(d)
    BY <1>5, <2>1, WorkerFrame
  <2>3. \A v \in Workers : v # w => wpc'[v] = wpc[v] /\ wtask'[v] = wtask[v]
    BY <1>5, WorkerWhere
  <2>4. \A v \in Workers : v # w => wtask[v] # c
    <3>1. where[c] = "pipe" \/ (wpc[w] # "idle" /\ c = wtask[w])
      BY <1>5, <2>1, WorkerWhere DEF ReadPipe, WorkerDestroy, At
    <3>2. c # None
      BY DataNodeAssumption
    <3> QED
      BY <1>0, <1>a, <3>1, <3>2 DEF WorkersInv
  <2>5. \A v \in Workers : v # w => WorkerOK(v)'
    BY <1>a, <2>2, <2>3, <2>4, ServesKept DEF Same, Kept
  <2>6. CASE ReadPipe(w)
    <3>1. wtask'[w] = c /\ wtask[w] = None
      BY <1>0, <2>1, <2>6 DEF ReadPipe, TaskOf, At, TypeOK, WorkersInv, WorkerOK
    <3>2. WorkerOK(w)'
      BY <2>6, ReadPipeServes
    <3>3. None \notin Conns
      BY DataNodeAssumption
    <3>4. \A d \in Conns : where'[d] = "worker" => \E v \in Workers : wtask'[v] = d
      BY <1>0, <2>2, <2>3, <3>1, <3>3 DEF WorkersInv, Same
    <3> QED
      BY <1>0, <2>3, <2>4, <2>5, <3>1, <3>2, <3>4 DEF WorkersInv
  <2>7. CASE WorkerDestroy(w)
    <3>1. wtask'[w] = None /\ wpc'[w] = "idle" /\ where'[c] = "freed" /\ wtask[w] = c
      <4>1. wpc[w] # "idle" /\ wtask'[w] = None /\ wpc'[w] = "idle" /\ destroy_query_task(wtask[w])
        BY <1>0, <2>7 DEF WorkerDestroy, At, Goto, TypeOK
      <4> QED
        BY <1>0, <2>1, <4>1 DEF TaskOf, destroy_query_task, TypeOK
    <3>2. WorkerOK(w)'
      BY <3>1 DEF WorkerOK
    <3>3. \A d \in Conns : where'[d] = "worker" => \E v \in Workers : wtask'[v] = d
      BY <1>0, <2>2, <2>3, <3>1 DEF WorkersInv, Same
    <3> QED
      BY <1>0, <2>3, <2>5, <3>1, <3>2, <3>3 DEF WorkersInv
  <2>8. CASE ~ReadPipe(w) /\ ~WorkerDestroy(w)
    <3>1. wtask' = wtask /\ where' = where
      BY <1>5, <2>8, WorkerWhere
    <3>2. WorkerOK(w)'
      BY <1>5, <2>8, BuildServes, SendServes DEF WorkerThread
    <3> QED
      BY <1>0, <2>5, <3>1, <3>2 DEF WorkersInv
  <2> QED
    BY <2>6, <2>7, <2>8
<1> QED
  BY <1>1, <1>2, <1>3, <1>4, <1>5 DEF Next, AssignThread

-----------------------------------------------------------------------------
(* The pipes.                                                              *)

\* The places of the pipes hold different tasks.
LEMMA OnePlace ==
    ASSUME PipesInv, NEW v \in Workers, NEW w \in Workers, NEW i \in 1 .. Len(pipe[v]),
           NEW j \in 1 .. Len(pipe[w]), pipe[v][i] = pipe[w][j]
    PROVE  v = w /\ i = j
<1>1. \A a, b \in Workers : \A x \in 1 .. Len(pipe[a]), y \in 1 .. Len(pipe[b]) :
         pipe[a][x] = pipe[b][y] => a = b /\ x = y
  BY DEF PipesInv
<1> QED
  BY <1>1

LEMMA DispatchPipes ==
    ASSUME Inv, NEW c \in Conns, dispatch_query_task(c)
    PROVE  PipesInv'
<1>0. TypeOK /\ ConnInv /\ PipesInv
  BY DEF Inv
<1>1. PICK u \in Workers : u = NextWorker
  <2>1. worker_thread_cnt \in Nat \ {0}
    BY DataNodeAssumption
  <2> QED
    BY <1>0, <2>1 DEF NextWorker, Workers, TypeOK
<1>2. PICK n \in Nat : /\ n = Len(pipe[u]) /\ n + 1 <= PIPE_BUF /\ PIPE_BUF \in Nat
                       /\ pipe[u] \in Seq(Conns)
  <2>1. pipe[u] \in Seq(Conns) /\ PIPE_BUF \in Nat /\ Len(pipe[u]) < PIPE_BUF
    BY <1>0, <1>1, DataNodeAssumption DEF dispatch_query_task, TypeOK
  <2>2. Len(pipe[u]) \in Nat
    BY <2>1
  <2> QED
    BY <2>1, <2>2
<1>3. where[c] = "assign"
  BY <1>0, HandledTask DEF dispatch_query_task, Handling
<1>4. /\ pipe'[u] = Append(pipe[u], c)
      /\ \A v \in Workers : v # u => pipe'[v] = pipe[v]
      /\ where'[c] = "pipe" /\ \A d \in Conns : d # c => where'[d] = where[d]
  BY <1>0, <1>1 DEF dispatch_query_task, TypeOK
<1>5. /\ Len(pipe'[u]) = n + 1 /\ pipe'[u][n + 1] = c
      /\ \A i \in 1 .. n : pipe'[u][i] = pipe[u][i]
  BY <1>2, <1>4
<1>6. \A v \in Workers : Len(pipe[v]) \in Nat /\ \A i \in 1 .. Len(pipe[v]) : pipe[v][i] \in Conns /\ pipe[v][i] # c
  <2>1. \A v \in Workers : pipe[v] \in Seq(Conns)
    BY <1>0 DEF TypeOK
  <2>2. \A v \in Workers : Len(pipe[v]) \in Nat /\ \A i \in 1 .. Len(pipe[v]) : pipe[v][i] \in Conns
    BY <2>1
  <2> QED
    BY <1>0, <1>3, <2>2 DEF PipesInv
<1>7. \A v \in Workers : \A i \in 1 .. Len(pipe'[v]) :
         \/ v = u /\ i = n + 1 /\ pipe'[v][i] = c
         \/ i \in 1 .. Len(pipe[v]) /\ pipe'[v][i] = pipe[v][i]
  BY <1>2, <1>4, <1>5, <1>6, SMTT(40)
<1>8. \A v \in Workers : Len(pipe'[v]) <= PIPE_BUF
  BY <1>0, <1>2, <1>4, <1>5 DEF PipesInv
<1>9. \A v \in Workers : \A i \in 1 .. Len(pipe'[v]) : where'[pipe'[v][i]] = "pipe"
  BY <1>0, <1>4, <1>6, <1>7 DEF PipesInv
<1>10. ASSUME NEW v \in Workers, NEW w \in Workers, NEW i \in 1 .. Len(pipe'[v]), NEW j \in 1 .. Len(pipe'[w]),
              pipe'[v][i] = pipe'[w][j]
       PROVE  v = w /\ i = j
  <2>1. CASE v = u /\ i = n + 1 /\ pipe'[v][i] = c
    BY <1>6, <1>7, <1>10, <2>1
  <2>2. CASE i \in 1 .. Len(pipe[v]) /\ pipe'[v][i] = pipe[v][i]
    <3>1. j \in 1 .. Len(pipe[w]) /\ pipe'[w][j] = pipe[w][j]
      BY <1>6, <1>7, <1>10, <2>2
    <3>2. pipe[v][i] = pipe[w][j]
      BY <1>10, <2>2, <3>1
    <3> QED
      BY <1>0, <2>2, <3>1, <3>2, OnePlace
  <2> QED
    BY <1>7, <2>1, <2>2
<1>11. ASSUME NEW d \in Conns, where'[d] = "pipe"
       PROVE  \E w \in Workers : \E i \in 1 .. Len(pipe'[w]) : pipe'[w][i] = d
  <2>1. CASE d = c
    <3>1. n + 1 \in 1 .. Len(pipe'[u])
      BY <1>5
    <3> QED
      BY <1>5, <2>1, <3>1
  <2>2. CASE d # c
    <3>1. PICK w \in Workers : \E i \in 1 .. Len(pipe[w]) : pipe[w][i] = d
      BY <1>0, <1>4, <1>11, <2>2 DEF PipesInv
    <3>2. PICK i \in 1 .. Len(pipe[w]) : pipe[w][i] = d
      BY <3>1
    <3>3. i \in 1 .. Len(pipe'[w]) /\ pipe'[w][i] = d
      <4>1. CASE w = u
        BY <1>2, <1>5, <3>2, <4>1
      <4>2. CASE w # u
        BY <1>4, <3>2, <4>2
      <4> QED
        BY <4>1, <4>2
    <3> QED
      BY <3>3
  <2> QED
    BY <2>1, <2>2
<1> QED
  BY <1>8, <1>9, <1>10, <1>11 DEF PipesInv

LEMMA ReadPipes ==
    ASSUME Inv, NEW w \in Workers, ReadPipe(w)
    PROVE  PipesInv'
<1>0. TypeOK /\ ConnInv /\ PipesInv
  BY DEF Inv
<1>1. PICK c \in Conns : c = Head(pipe[w]) /\ where[c] = "pipe"
  BY <1>0, PipedTask DEF ReadPipe
<1>2. PICK n \in Nat \ {0} : /\ n = Len(pipe[w]) /\ pipe[w][1] = c
                             /\ Len(Tail(pipe[w])) = n - 1
                             /\ \A i \in 1 .. n - 1 : Tail(pipe[w])[i] = pipe[w][i + 1]
  BY <1>0, <1>1, PipedTask DEF ReadPipe
<1>3. /\ pipe'[w] = Tail(pipe[w]) /\ \A v \in Workers : v # w => pipe'[v] = pipe[v]
      /\ where'[c] = "worker" /\ \A d \in Conns : d # c => where'[d] = where[d]
  BY <1>0, <1>1 DEF ReadPipe, TypeOK
<1>4. \A v \in Workers : Len(pipe[v]) \in Nat /\ \A i \in 1 .. Len(pipe[v]) : pipe[v][i] \in Conns
  <2>1. \A v \in Workers : pipe[v] \in Seq(Conns)
    BY <1>0 DEF TypeOK
  <2> QED
    BY <2>1
<1> DEFINE Old(v, i) == IF v = w THEN i + 1 ELSE i
<1>5. ASSUME NEW v \in Workers, NEW i \in 1 .. Len(pipe'[v])
      PROVE  /\ Old(v, i) \in 1 .. Len(pipe[v]) /\ pipe'[v][i] = pipe[v][Old(v, i)]
             /\ pipe'[v][i] \in Conns /\ pipe'[v][i] # c /\ i \in Nat
  <2>1. Old(v, i) \in 1 .. Len(pipe[v]) /\ pipe'[v][i] = pipe[v][Old(v, i)] /\ i \in Nat
    <3>1. CASE v = w
      <4>1. i \in 1 .. n - 1 /\ pipe'[v][i] = Tail(pipe[w])[i]
        BY <1>2, <1>3, <3>1
      <4>2. i + 1 \in 1 .. n /\ i \in Nat /\ pipe'[v][i] = pipe[w][i + 1]
        BY <1>2, <4>1
      <4> QED
        BY <1>2, <3>1, <4>2
    <3>2. CASE v # w
      BY <1>3, <1>4, <3>2
    <3> QED
      BY <3>1, <3>2
  <2>2. Old(v, i) # 1 \/ v # w
    BY <1>2, <1>3
  <2>3. 1 \in 1 .. Len(pipe[w]) /\ pipe[w][1] = c
    BY <1>2
  <2>4. pipe[v][Old(v, i)] # c
    BY <1>0, <2>1, <2>2, <2>3, SMTT(40) DEF PipesInv
  <2> QED
    BY <1>4, <2>1, <2>4
<1> HIDE DEF Old
<1>6. \A v \in Workers : Len(pipe'[v]) <= PIPE_BUF
  <2>1. Len(pipe[w]) <= PIPE_BUF /\ PIPE_BUF \in Nat
    BY <1>0, DataNodeAssumption DEF PipesInv
  <2>2. Len(pipe'[w]) <= PIPE_BUF
    BY <1>2, <1>3, <2>1
  <2> QED
    BY <1>0, <1>3, <2>2 DEF PipesInv
<1>7. \A v \in Workers : \A i \in 1 .. Len(pipe'[v]) : where'[pipe'[v][i]] = "pipe"
  BY <1>0, <1>3, <1>5, SMTT(40) DEF PipesInv
<1>8. ASSUME NEW u \in Workers, NEW v \in Workers, NEW i \in 1 .. Len(pipe'[u]), NEW j \in 1 .. Len(pipe'[v]),
             pipe'[u][i] = pipe'[v][j]
      PROVE  u = v /\ i = j
  <2>1. u = v /\ Old(u, i) = Old(v, j)
    <3>1. /\ Old(u, i) \in 1 .. Len(pipe[u]) /\ pipe'[u][i] = pipe[u][Old(u, i)]
          /\ Old(v, j) \in 1 .. Len(pipe[v]) /\ pipe'[v][j] = pipe[v][Old(v, j)]
      BY <1>5
    <3>2. PICK x \in 1 .. Len(pipe[u]), y \in 1 .. Len(pipe[v]) :
             x = Old(u, i) /\ y = Old(v, j) /\ pipe[u][x] = pipe[v][y]
      BY <1>8, <3>1
    <3> QED
      BY <1>0, <3>2, OnePlace
  <2>2. i \in Nat /\ j \in Nat
    BY <1>5
  <2> QED
    BY <2>1, <2>2 DEF Old
<1>9. ASSUME NEW d \in Conns, where'[d] = "pipe"
      PROVE  \E v \in Workers : \E i \in 1 .. Len(pipe'[v]) : pipe'[v][i] = d
  <2>1. d # c /\ where[d] = "pipe"
    BY <1>3, <1>9
  <2>2. PICK v \in Workers : \E i \in 1 .. Len(pipe[v]) : pipe[v][i] = d
    BY <1>0, <2>1 DEF PipesInv
  <2>3. PICK i \in 1 .. Len(pipe[v]) : pipe[v][i] = d
    BY <2>2
  <2>4. CASE v = w
    <3>1. i \in 2 .. n
      BY <1>2, <2>1, <2>3, <2>4
    <3>2. i - 1 \in 1 .. n - 1 /\ (i - 1) + 1 = i
      BY <3>1
    <3>3. i - 1 \in 1 .. Len(pipe'[v]) /\ pipe'[v][i - 1] = d
      BY <1>2, <1>3, <2>3, <2>4, <3>2
    <3> QED
      BY <3>3
  <2>5. CASE v # w
    BY <1>3, <2>3, <2>5
  <2> QED
    BY <2>4, <2>5
<1> QED
  BY <1>6, <1>7, <1>8, <1>9 DEF PipesInv

\* A task is in one place of one pipe while it is in the pipes.
LEMMA PipesStep ==
    ASSUME Inv, [Next]_vars
    PROVE  PipesInv'
<1>0. TypeOK /\ ConnInv /\ PipesInv
  BY DEF Inv
<1>a. ASSUME pipe' = pipe, \A d \in Conns : where[d] = "pipe" <=> where'[d] = "pipe"
      PROVE  PipesInv'
  <2>1. \A v \in Workers : pipe[v] \in Seq(Conns)
    BY <1>0 DEF TypeOK
  <2>2. \A v \in Workers : \A i \in 1 .. Len(pipe[v]) : pipe[v][i] \in Conns
    BY <2>1
  <2>3. \A w \in Workers : \A i \in 1 .. Len(pipe'[w]) : where'[pipe'[w][i]] = "pipe"
    BY <1>0, <1>a, <2>2 DEF PipesInv
  <2>4. \A c \in Conns : where'[c] = "pipe" => \E w \in Workers : \E i \in 1 .. Len(pipe'[w]) : pipe'[w][i] = c
    BY <1>0, <1>a DEF PipesInv
  <2>5. \A w \in Workers : Len(pipe'[w]) <= PIPE_BUF
    BY <1>0, <1>a DEF PipesInv
  <2>6. \A v, w \in Workers : \A i \in 1 .. Len(pipe'[v]), j \in 1 .. Len(pipe'[w]) :
          pipe'[v][i] = pipe'[w][j] => v = w /\ i = j
    BY <1>0, <1>a, OnePlace
  <2> QED
    BY <2>3, <2>4, <2>5, <2>6 DEF PipesInv
<1>1. CASE UNCHANGED vars
  BY <1>a, <1>1 DEF vars
<1>2. CASE Poll
  BY <1>a, <1>2 DEF Poll
<1>3. ASSUME NEW c \in Conns, AssignHandler(c) PROVE PipesInv'
  <2>1. CASE dispatch_query_task(c)
    BY <2>1, DispatchPipes
  <2>2. CASE ~dispatch_query_task(c)
    BY <1>0, <1>a, <1>3, <2>2, AssignWhere, AssignFrame DEF Same
  <2> QED
    BY <2>1, <2>2
<1>4. ASSUME NEW c \in Conns, Client(c) PROVE PipesInv'
  BY <1>0, <1>a, <1>4, ClientWhere, ClientFrame DEF Same
<1>5. ASSUME NEW w \in Workers, WorkerThread(w) PROVE PipesInv'
  <2>1. CASE ReadPipe(w)
    BY <2>1, ReadPipes
  <2>2. CASE ~ReadPipe(w)
    <3>1. pipe' = pipe
      BY <1>5, <2>2, WorkerWhere DEF WorkerDestroy
    <3> QED
      BY <1>a, <1>5, <2>2, <3>1, WorkerWhere, WorkerFrame DEF Same
  <2> QED
    BY <2>1, <2>2
<1> QED
  BY <1>1, <1>2, <1>3, <1>4, <1>5 DEF Next, AssignThread

-----------------------------------------------------------------------------
(* The theorems.                                                           *)

LEMMA InvInit ==
    ASSUME Init
    PROVE  Inv
<1>0. None \notin Conns /\ HEAD_BUF \in Nat \ {0} /\ PIPE_BUF \in Nat \ {0} /\ worker_thread_cnt \in Nat \ {0}
  BY DataNodeAssumption
<1>1. TypeOK
  <2>1. NoResponse \in Answers /\ << >> \in Seq(Conns) /\ 0 \in 0 .. worker_thread_cnt /\ 0 \in 0 .. HEAD_BUF
    BY <1>0 DEF NoResponse, Answers, Heads
  <2> QED
    BY <1>0, <2>1 DEF Init, TypeOK, States
<1>2. ConnInv
  BY <1>0 DEF Init, ConnInv, ConnOK, Accounted, Reading, Parsed, Logged, Watched, HeadFound, Seen
<1>3. WorkersInv
  BY DEF Init, WorkersInv, WorkerOK
<1>4. PipesInv
  BY <1>0 DEF Init, PipesInv
<1>5. StoreOK
  BY DEF Init, StoreOK
<1> QED
  BY <1>1, <1>2, <1>3, <1>4, <1>5 DEF Inv

LEMMA InvStep ==
    ASSUME Inv, [Next]_vars
    PROVE  Inv'
  BY TypeStep, ConnStep, WorkersStep, PipesStep, StoreStep DEF Inv

LEMMA InvHolds == Spec => []Inv
  BY InvInit, InvStep, PTL DEF Spec

\* Type correctness, with the bounds on the header and data buffers that
\* recv_req_head() and recv_req_data() rely on.
THEOREM TypeCorrect == Spec => []TypeOK
<1>1. Inv => TypeOK
  BY DEF Inv
<1> QED
  BY <1>1, InvHolds, PTL

LEMMA OneOwnerHolds ==
    ASSUME Inv
    PROVE  OneOwner
<1> SUFFICES ASSUME NEW c \in Conns
             PROVE  /\ (io_w[c] \/ timer_w[c] # "off" \/ current = c \/ Events(c) \cap pending # {})
                          => where[c] = "assign"
                    /\ where[c] = "assign" => io_w[c]
                    /\ Cardinality(InPipes(c)) = (IF where[c] = "pipe" THEN 1 ELSE 0)
                    /\ Cardinality(InWorkers(c)) = (IF where[c] = "worker" THEN 1 ELSE 0)
  BY DEF OneOwner
<1>0. TypeOK /\ ConnInv /\ WorkersInv /\ PipesInv /\ c # None
  BY DataNodeAssumption DEF Inv
<1>1. Watched(c)
  BY <1>0 DEF ConnInv, ConnOK
<1>2. Cardinality(InPipes(c)) = (IF where[c] = "pipe" THEN 1 ELSE 0)
  <2>0. PIPE_BUF \in Nat /\ \A v \in Workers : Len(pipe[v]) \in Nat /\ Len(pipe[v]) <= PIPE_BUF
    <3>1. \A v \in Workers : pipe[v] \in Seq(Conns)
      BY <1>0 DEF TypeOK
    <3> QED
      BY <1>0, <3>1, DataNodeAssumption DEF PipesInv
  <2>1. CASE where[c] = "pipe"
    <3>1. PICK w \in Workers : \E i \in 1 .. Len(pipe[w]) : pipe[w][i] = c
      BY <1>0, <2>1 DEF PipesInv
    <3>2. PICK i \in 1 .. Len(pipe[w]) : pipe[w][i] = c
      BY <3>1
    <3>3. <<w, i>> \in InPipes(c)
      BY <2>0, <3>2 DEF InPipes
    <3>4. ASSUME NEW p \in InPipes(c) PROVE p = <<w, i>>
      <4>1. p \in Workers \X (1 .. PIPE_BUF) /\ p[2] <= Len(pipe[p[1]]) /\ pipe[p[1]][p[2]] = c
        BY <3>4 DEF InPipes
      <4>2. p[1] \in Workers /\ p[2] \in 1 .. Len(pipe[p[1]]) /\ p = <<p[1], p[2]>>
        BY <2>0, <4>1
      <4>3. p[1] = w /\ p[2] = i
        BY <1>0, <3>2, <4>1, <4>2 DEF PipesInv
      <4> QED
        BY <4>2, <4>3
    <3>5. InPipes(c) = {<<w, i>>}
      BY <3>3, <3>4
    <3> QED
      BY <2>1, <3>5, FS_Singleton
  <2>2. CASE where[c] # "pipe"
    <3>1. ASSUME NEW p \in InPipes(c) PROVE FALSE
      <4>1. p \in Workers \X (1 .. PIPE_BUF) /\ p[2] <= Len(pipe[p[1]]) /\ pipe[p[1]][p[2]] = c
        BY <3>1 DEF InPipes
      <4>2. p[1] \in Workers /\ p[2] \in 1 .. Len(pipe[p[1]])
        BY <2>0, <4>1
      <4> QED
        BY <1>0, <2>2, <4>1, <4>2 DEF PipesInv
    <3>2. InPipes(c) = {}
      BY <3>1
    <3> QED
      BY <2>2, <3>2, FS_EmptySet
  <2> QED
    BY <2>1, <2>2
<1>3. Cardinality(InWorkers(c)) = (IF where[c] = "worker" THEN 1 ELSE 0)
  <2>1. CASE where[c] = "worker"
    <3>1. PICK w \in Workers : wtask[w] = c
      BY <1>0, <2>1 DEF WorkersInv
    <3>2. InWorkers(c) = {w}
      BY <1>0, <3>1 DEF InWorkers, WorkersInv
    <3> QED
      BY <2>1, <3>2, FS_Singleton
  <2>2. CASE where[c] # "worker"
    <3>1. InWorkers(c) = {}
      BY <1>0, <2>2 DEF InWorkers, WorkersInv, WorkerOK, Serves
    <3> QED
      BY <2>2, <3>1, FS_EmptySet
  <2> QED
    BY <2>1, <2>2
<1> QED
  BY <1>1, <1>2, <1>3 DEF Watched

\* A query_task_s has one owner, from accept_event_handler() to
\* destroy_query_task(): the assign thread, one place of one pipe, or one
\* worker; none of them keeps a way to a task it has given away.
THEOREM TaskHasOneOwner == Spec => []OneOwner
  BY InvHolds, OneOwnerHolds, PTL

\* Whatever is logged by the assign thread leaves its loop before the loop
\* can log it again (the assertion in Log()).
THEOREM LoggedLeave == Spec => []LoggedTasksLeave
<1>1. Inv => LoggedTasksLeave
  BY DEF Inv, ConnInv, ConnOK, Logged, LoggedTasksLeave
<1> QED
  BY <1>1, InvHolds, PTL

\* What send_response() tells a client is true of the request that
\* query_head_buf held: no value is stored or handed out that has not arrived
\* completely, whichever worker, pipe and order served the requests, whatever
\* fails, and also when the header came in pieces and its last piece was taken
\* for the request.
THEOREM AnswersAreTrue == Spec => []AnswersFit
<1>1. ASSUME Inv PROVE AnswersFit
  <2> SUFFICES ASSUME NEW c \in Conns, where[c] = "worker"
               PROVE  Fits(c, answer[c])
    BY DEF AnswersFit, Fits, SetDone
  <2>1. PICK w \in Workers : wtask[w] = c
    BY <1>1 DEF Inv, WorkersInv
  <2>2. c # None
    BY DataNodeAssumption
  <2>3. Serves(w, c) /\ wpc[w] # "idle" /\ wpc[w] \in {"idle", "storage", "send_head", "send_data", "destroy"}
    BY <1>1, <2>1, <2>2 DEF Inv, WorkersInv, WorkerOK, TypeOK
  <2>4. CASE wpc[w] \in {"storage", "send_head"}
    BY <2>3, <2>4 DEF Serves, Fits, NoResponse
  <2>5. CASE wpc[w] \in {"send_data", "destroy"}
    BY <2>3, <2>5 DEF Serves, Fits
  <2> QED
    BY <2>3, <2>4, <2>5
<1> QED
  BY <1>1, InvHolds, PTL

\* query_timer_event_handler() and s_destroy_recv give up a connection only
\* when its time is over, its peer is gone, query_head_buf holds no end of a
\* header, more was read than announced, or the command has no answer.
THEOREM DropsAreJustified == Spec => DropsJustified
<1>1. ASSUME Inv, [Next]_vars, NEW c \in Conns, where[c] = "assign", where'[c] = "freed"
      PROVE  <<"timer", c>> \in pending \/ Justified(c)
  <2>0. TypeOK /\ ConnInv
    BY <1>1 DEF Inv
  <2>1. CASE UNCHANGED vars \/ Poll
    BY <1>1, <2>1 DEF vars, Poll
  <2>2. ASSUME NEW d \in Conns, Client(d) PROVE FALSE
    BY <1>1, <2>0, <2>2, ClientWhere, ClientFrame DEF Same
  <2>3. ASSUME NEW w \in Workers, WorkerThread(w) PROVE FALSE
    BY <1>1, <2>3, WorkerWhere, WorkerFrame DEF Same
  <2>4. ASSUME NEW d \in Conns, AssignHandler(d) PROVE <<"timer", c>> \in pending \/ Justified(c)
    <3>1. d = c
      BY <1>1, <2>0, <2>4, AssignFrame DEF Same
    <3>2. CASE query_timer_event_handler(c)
      BY <3>2 DEF query_timer_event_handler
    <3>3. CASE DestroyRecv(c) \/ DoPower(c)
      <4>1. current = c /\ state[c] \in {"s_destroy_recv", "s_do_power"}
        BY <3>3 DEF DestroyRecv, DoPower, Handling
      <4> QED
        BY <1>1, <2>0, <4>1 DEF ConnInv, ConnOK, Reading, Justified, HeadFound, Seen
    <3>4. CASE Accept(c) \/ dispatch_query_task(c)
      BY <1>1, <2>0, <3>4 DEF Accept, dispatch_query_task, TypeOK
    <3>5. CASE query_io_event_handler(c) \/ recv_req_head(c) \/ ParseIncomplete(c) \/ ParseFails(c)
               \/ ParseSet(c) \/ ParseOther(c) \/ recv_req_data(c) \/ DoSync(c)
      BY <1>1, <3>5 DEF query_io_event_handler, recv_req_head, ParseIncomplete, ParseFails, ParseSet,
                        ParseOther, recv_req_data, DoSync
    <3> QED
      BY <2>4, <3>1, <3>2, <3>3, <3>4, <3>5 DEF AssignHandler
  <2> QED
    BY <1>1, <2>1, <2>2, <2>3, <2>4 DEF Next, AssignThread
<1>2. Inv /\ [Next]_vars =>
        \A c \in Conns :
            where[c] = "assign" /\ where'[c] = "freed" =>
                \/ <<"timer", c>> \in pending
                \/ peer[c] \in {"closed", "reset"}
                \/ ~HeadFound(c)
                \/ have_read[c] > Seen(c).head + Seen(c).data
                \/ Seen(c).cmd \in {"sync", "power"}
  BY <1>1 DEF Justified, HeadFound, Seen
<1> QED
  BY <1>2, InvHolds, PTL DEF Spec, DropsJustified

-----------------------------------------------------------------------------
(* The workers serve what KVStore promises.                                *)

\* Nothing fails in the storage that a client would be told of.
StorageServes == "find" \notin Faults /\ "update" \notin Faults

Calling(c) == \E w \in Workers : wtask[w] = c /\ wpc[w] = "storage"

\* KVStatus() from who has the task and how far it is.
Progress(place, s, calling) ==
    IF place = "pipe" /\ s = "s_dispatch_query_task" THEN "called"
    ELSE IF place = "worker" /\ s # "s_return_failed" THEN IF calling THEN "called" ELSE "applied"
    ELSE "idle"

StatusIs == \A c \in Conns : KVStatus(c) = Progress(where[c], state[c], Calling(c))

LEMMA StatusNow == Inv => StatusIs
<1> SUFFICES ASSUME Inv, NEW c \in Conns
             PROVE  KVStatus(c) = Progress(where[c], state[c], Calling(c))
  BY DEF StatusIs
<1>0. TypeOK /\ WorkersInv /\ c # None
  BY DataNodeAssumption DEF Inv
<1>1. \A w \in Workers : wtask[w] = c => where[c] = "worker" /\ wpc[w] # "idle"
  BY <1>0 DEF WorkersInv, WorkerOK, Serves
<1>2. CASE where[c] = "worker" /\ state[c] # "s_return_failed"
  <2>1. PICK w \in Workers : wtask[w] = c
    BY <1>0, <1>2 DEF WorkersInv
  <2>2. \A v \in Workers : wtask[v] = c <=> v = w
    BY <1>0, <2>1 DEF WorkersInv
  <2>3. Serving(c) = {w}
    BY <1>2, <2>2 DEF Serving
  <2>4. Calling(c) <=> wpc[w] = "storage"
    BY <2>2 DEF Calling
  <2> QED
    BY <1>2, <2>3, <2>4 DEF KVStatus, Progress
<1>3. CASE where[c] # "worker" \/ state[c] = "s_return_failed"
  <2>1. Serving(c) = {}
    BY <1>1, <1>3 DEF Serving
  <2> QED
    BY <1>3, <2>1 DEF KVStatus, Progress
<1> QED
  BY <1>2, <1>3

\* The call of d, as KVStore sees it, stays as it is.
Quiet(d) ==
    /\ KVStatus(d)' = KVStatus(d)
    /\ KVStatus(d) # "idle" => Seen(d)' = Seen(d)
    /\ KVStatus(d) = "applied" => resp'[d] = resp[d]

LEMMA QuietBars ==
    ASSUME NEW d \in Conns, Quiet(d)
    PROVE  /\ statusBar'[d] = statusBar[d] /\ requestBar'[d] = requestBar[d]
           /\ resultBar'[d] = resultBar[d]
  BY DEF Quiet, statusBar, requestBar, resultBar, KVRequest, KVResult, Seen

LEMMA AllQuiet ==
    ASSUME \A d \in Conns : Quiet(d), store' = store
    PROVE  UNCHANGED KV!kvvars
<1>1. \A d \in Conns : /\ statusBar'[d] = statusBar[d] /\ requestBar'[d] = requestBar[d]
                       /\ resultBar'[d] = resultBar[d]
  BY QuietBars
<1>2. statusBar' = statusBar
  BY <1>1 DEF statusBar
<1>3. requestBar' = requestBar
  BY <1>1 DEF requestBar
<1>4. resultBar' = resultBar
  BY <1>1 DEF resultBar
<1> QED
  BY <1>2, <1>3, <1>4 DEF KV!kvvars, mapBar

LEMMA SameQuiet ==
    ASSUME StatusIs, StatusIs', NEW d \in Conns, where'[d] = where[d], state'[d] = state[d],
           where[d] \in {"pipe", "worker"} => Seen(d)' = Seen(d) /\ resp'[d] = resp[d],
           Calling(d)' <=> Calling(d)
    PROVE  Quiet(d)
<1>1. KVStatus(d)' = KVStatus(d)
  BY DEF StatusIs, Progress
<1>2. KVStatus(d) # "idle" => where[d] \in {"pipe", "worker"}
  BY DEF StatusIs, Progress
<1> QED
  BY <1>1, <1>2 DEF Quiet

\* A task that is neither in a pipe nor a worker's, before and after, is no call.
LEMMA IdleQuiet ==
    ASSUME StatusIs, StatusIs', NEW d \in Conns, where[d] \notin {"pipe", "worker"},
           where'[d] \notin {"pipe", "worker"}
    PROVE  Quiet(d)
  BY DEF StatusIs, Progress, Quiet, Seen

\* The calls that a step of worker w does not work on.
LEMMA OthersQuiet ==
    ASSUME Inv, StatusIs, StatusIs', NEW w \in Workers, WorkerThread(w), NEW d \in Conns, d # TaskOf(w)
    PROVE  Quiet(d)
<1>0. TypeOK /\ WorkersInv /\ d # None
  BY DataNodeAssumption DEF Inv
<1>1. Same(d)
  BY WorkerFrame
<1>2. wtask[w] # d /\ wtask'[w] # d
  <2>1. wtask[w] = None \/ wtask[w] = TaskOf(w)
    BY <1>0 DEF TaskOf, WorkersInv, WorkerOK
  <2>2. wtask'[w] \in {None, TaskOf(w), wtask[w]}
    BY <1>0, WorkerWhere DEF ReadPipe, WorkerDestroy, TaskOf, TypeOK, At
  <2> QED
    BY <1>0, <2>1, <2>2
<1>3. Calling(d)' <=> Calling(d)
  BY <1>2, WorkerWhere DEF Calling
<1> QED
  BY <1>1, <1>3, SameQuiet DEF Same, Seen

\* Requests are invoked by dispatch_query_task().
LEMMA DispatchInvokes ==
    ASSUME Inv, StatusIs, StatusIs', NEW c \in Conns, dispatch_query_task(c)
    PROVE  KV!Invoke(c) \/ UNCHANGED KV!kvvars
<1>0. TypeOK /\ ConnInv
  BY DEF Inv
<1>1. current = c /\ where[c] = "assign" /\ state[c] \in {"s_dispatch_query_task", "s_return_failed"}
  BY <1>0, HandledTask DEF dispatch_query_task, Handling
<1>2. where'[c] = "pipe" /\ UNCHANGED <<req, head_at, state, store, resp, wpc, wtask>>
  BY <1>0 DEF dispatch_query_task, TypeOK, client, workers, task
<1>3. \A d \in Conns : d # c => Quiet(d)
  <2>1. \A d \in Conns : d # c => Same(d)
    BY <1>0, AssignFrame DEF AssignHandler
  <2> QED
    BY <1>2, <2>1, SameQuiet DEF Same, Calling, Seen
<1>4. CASE state[c] = "s_return_failed"
  <2>1. Quiet(c)
    BY <1>1, <1>2, <1>4 DEF StatusIs, Progress, Quiet, Seen
  <2> QED
    BY <1>2, <1>3, <2>1, AllQuiet
<1>5. CASE state[c] = "s_dispatch_query_task"
  <2>1. KVStatus(c) = "idle" /\ KVStatus(c)' = "called"
    BY <1>1, <1>2, <1>5 DEF StatusIs, Progress
  <2>2. KVRequest(c) \in KVCalls
    <3>1. req[c] \in Requests /\ Seen(c).cmd \in Stored
      BY <1>0, <1>1, <1>5, HandledFacts DEF Parsed, Seen
    <3>2. Seen(c).key \in Keys
      BY <1>0, <3>1, SeenFields
    <3> QED
      BY <3>1, <3>2 DEF KVRequest, KVCalls, Stored, Seen
  <2>3. statusBar[c] = "idle" /\ statusBar' = [statusBar EXCEPT ![c] = "called"]
    BY <1>3, <2>1 DEF statusBar, Quiet
  <2>4. requestBar' = [requestBar EXCEPT ![c] = KVRequest(c)]
    <3>1. requestBar'[c] = KVRequest(c)
      BY <1>2, <2>1 DEF requestBar, KVRequest, Seen
    <3>2. \A d \in Conns : d # c => requestBar'[d] = requestBar[d]
      BY <1>3, QuietBars
    <3>3. requestBar' = [d \in Conns |-> requestBar'[d]] /\ requestBar = [d \in Conns |-> requestBar[d]]
      BY DEF requestBar
    <3> QED
      BY <3>1, <3>2, <3>3
  <2>5. resultBar' = resultBar
    <3>1. \A d \in Conns : resultBar'[d] = resultBar[d]
      BY <1>3, <2>1, QuietBars DEF resultBar
    <3> QED
      BY <3>1 DEF resultBar
  <2>6. mapBar' = mapBar
    BY <1>2 DEF mapBar
  <2> QED
    BY <2>2, <2>3, <2>4, <2>5, <2>6 DEF KV!Invoke
<1> QED
  BY <1>1, <1>4, <1>5

\* The client is served when the worker is done with its task.
LEMMA DestroyResponds ==
    ASSUME Inv, StatusIs, StatusIs', NEW w \in Workers, WorkerDestroy(w)
    PROVE  \E c \in Conns : KV!Respond(c) \/ UNCHANGED KV!kvvars
<1>0. TypeOK /\ ConnInv /\ WorkersInv
  BY DEF Inv
<1>1. PICK c \in Conns : c = wtask[w] /\ c = TaskOf(w) /\ where[c] = "worker"
  BY <1>0, ServedTask DEF WorkerDestroy, At, TaskOf
<1>2. where'[c] = "freed" /\ store' = store /\ wpc[w] = "destroy"
  BY <1>0, <1>1 DEF WorkerDestroy, destroy_query_task, TypeOK, At
<1>3. \A d \in Conns : d # c => Quiet(d)
  BY <1>1, OthersQuiet DEF WorkerThread
<1>4. KVStatus(c)' = "idle"
  BY <1>2 DEF StatusIs, Progress
<1>5. ~Calling(c)
  <2>1. c # None
    BY DataNodeAssumption
  <2>2. \A v \in Workers : wtask[v] = c => v = w
    BY <1>0, <1>1, <2>1 DEF WorkersInv
  <2> QED
    BY <1>2, <2>2 DEF Calling
<1>6. CASE KVStatus(c) = "idle"
  <2>1. Quiet(c)
    BY <1>4, <1>6 DEF Quiet
  <2> QED
    BY <1>2, <1>3, <2>1, AllQuiet
<1>7. CASE KVStatus(c) # "idle"
  <2>1. KVStatus(c) = "applied"
    BY <1>1, <1>5, <1>7 DEF StatusIs, Progress
  <2>2. statusBar[c] = "applied" /\ statusBar' = [statusBar EXCEPT ![c] = "idle"]
    BY <1>3, <1>4, <2>1 DEF statusBar, Quiet
  <2>3. \A d \in Conns : d # c => requestBar'[d] = requestBar[d] /\ resultBar'[d] = resultBar[d]
    BY <1>3, QuietBars
  <2>4. requestBar' = [requestBar EXCEPT ![c] = NoRequest]
    <3>1. requestBar'[c] = NoRequest
      BY <1>4 DEF requestBar
    <3>2. requestBar' = [d \in Conns |-> requestBar'[d]] /\ requestBar = [d \in Conns |-> requestBar[d]]
      BY DEF requestBar
    <3> QED
      BY <2>3, <3>1, <3>2
  <2>5. resultBar' = [resultBar EXCEPT ![c] = KV!NoResult]
    <3>1. resultBar'[c] = KV!NoResult
      BY <1>4 DEF resultBar, KV!NoResult
    <3>2. resultBar' = [d \in Conns |-> resultBar'[d]] /\ resultBar = [d \in Conns |-> resultBar[d]]
      BY DEF resultBar
    <3> QED
      BY <2>3, <3>1, <3>2
  <2>6. mapBar' = mapBar
    BY <1>2 DEF mapBar
  <2> QED
    BY <2>2, <2>4, <2>5, <2>6 DEF KV!Respond
<1> QED
  BY <1>6, <1>7

\* A storage call takes effect at one moment and answers what it found.
LEMMA CallApplies ==
    ASSUME Inv, StatusIs, StatusIs', StorageServes, NEW w \in Workers,
           HandleGet(w) \/ HandleSet(w) \/ HandleDelete(w)
    PROVE  \E c \in Conns : KV!Apply(c)
<1>0. TypeOK /\ ConnInv /\ WorkersInv
  BY DEF Inv
<1>1. wpc[w] = "storage"
  BY DEF HandleGet, HandleSet, HandleDelete, At
<1>2. PICK c \in Conns :
        /\ c = wtask[w] /\ c = TaskOf(w) /\ where[c] = "worker" /\ c # None
        /\ state[c] = "s_dispatch_query_task" /\ req[c] \in Requests
  BY <1>1, CallingTask, DataNodeAssumption DEF TaskOf
<1>3. PICK k \in Keys : k = Seen(c).key
  BY <1>0, <1>2, SeenFields
<1>4. PICK s \in Built, data \in Conns \cup {None} :
        /\ Build(w, s, data)
        /\ Seen(c).cmd = "get" =>
             /\ data = store[k] /\ store' = store
             /\ s = IF store[k] # None THEN "s_get_success" ELSE "s_get_failed"
        /\ Seen(c).cmd = "set" =>
             s = "s_set_success" /\ data = None /\ store' = [store EXCEPT ![k] = c]
        /\ Seen(c).cmd = "delete" =>
             /\ s = IF store[k] # None THEN "s_delete_success" ELSE "s_delete_failed"
             /\ data = None /\ store' = [store EXCEPT ![k] = None]
        /\ Seen(c).cmd \in {"get", "set", "delete"}
  <2>0. store[k] \in Conns \cup {None} /\ None \in Conns \cup {None}
    BY <1>0 DEF TypeOK
  <2>1. CASE HandleGet(w)
    BY <1>2, <1>3, <2>0, <2>1 DEF HandleGet, Built, FailedStates
  <2>2. CASE HandleSet(w)
    BY <1>2, <1>3, <2>0, <2>2 DEF HandleSet, Built, FailedStates
  <2>3. CASE HandleDelete(w)
    BY <1>2, <1>3, <2>0, <2>3 DEF HandleDelete, Built, FailedStates
  <2> QED
    BY <2>1, <2>2, <2>3
<1>5. /\ state'[c] = s /\ resp'[c] = Response(s, data) /\ wpc'[w] = "send_head"
      /\ UNCHANGED <<req, head_at, where, wtask>>
  BY <1>0, <1>2, <1>4 DEF Build, ChangeState, Goto, TypeOK, client, task
<1>6. KVStatus(c) = "called" /\ KVStatus(c)' = "applied"
  <2>1. Calling(c)
    BY <1>1, <1>2 DEF Calling
  <2>2. ~Calling(c)'
    BY <1>0, <1>2, <1>5, ZenonT(60) DEF Calling, WorkersInv
  <2>3. s # "s_return_failed"
    BY DEF Built, FailedStates
  <2> QED
    BY <1>2, <1>5, <2>1, <2>2, <2>3 DEF StatusIs, Progress
<1>7. \A d \in Conns : d # c => Quiet(d)
  BY <1>2, OthersQuiet DEF WorkerThread
<1>8. statusBar[c] = "called" /\ statusBar' = [statusBar EXCEPT ![c] = "applied"]
  BY <1>6, <1>7 DEF statusBar, Quiet
<1>9. requestBar' = requestBar /\ requestBar[c] = KVRequest(c)
  <2>1. requestBar'[c] = requestBar[c] /\ requestBar[c] = KVRequest(c)
    BY <1>5, <1>6 DEF requestBar, KVRequest, Seen
  <2>2. \A d \in Conns : requestBar'[d] = requestBar[d]
    BY <1>7, <2>1, QuietBars
  <2> QED
    BY <2>1, <2>2 DEF requestBar
<1>10. mapBar[Bucket][k] = store[k]
  BY DEF mapBar
<1>11. resultBar' = [resultBar EXCEPT ![c] = KV!Outcome(KVRequest(c))]
  <2>1. resultBar'[c] = KV!Outcome(KVRequest(c))
    <3>1. resultBar'[c] =
            [ret |-> IF resp'[c].head \in {"STORED", "VALUE", "DELETED"} THEN 0 ELSE -1, value |-> resp'[c].data]
      BY <1>6 DEF resultBar, KVResult
    <3>2. CASE Seen(c).cmd = "get"
      <4>1. KV!Outcome(KVRequest(c)) = [ret |-> IF store[k] = None THEN -1 ELSE 0, value |-> store[k]]
        BY <1>3, <1>10, <3>2 DEF KV!Outcome, KVRequest, Seen
      <4>2. resp'[c] = IF store[k] # None THEN [head |-> "VALUE", data |-> store[k]]
                                          ELSE [head |-> "END", data |-> None]
        BY <1>4, <1>5, <3>2 DEF Response
      <4> QED
        BY <3>1, <4>1, <4>2
    <3>3. CASE Seen(c).cmd = "set"
      <4>1. KV!Outcome(KVRequest(c)) = [ret |-> 0, value |-> None]
        BY <1>3, <1>10, <3>3 DEF KV!Outcome, KVRequest, Seen
      <4>2. resp'[c] = [head |-> "STORED", data |-> None]
        BY <1>4, <1>5, <3>3 DEF Response
      <4> QED
        BY <3>1, <4>1, <4>2
    <3>4. CASE Seen(c).cmd = "delete"
      <4>1. KV!Outcome(KVRequest(c)) = [ret |-> IF store[k] = None THEN -1 ELSE 0, value |-> None]
        BY <1>3, <1>10, <3>4 DEF KV!Outcome, KVRequest, Seen
      <4>2. resp'[c] = IF store[k] # None THEN [head |-> "DELETED", data |-> None]
                                          ELSE [head |-> "ERROR", data |-> None]
        BY <1>4, <1>5, <3>4 DEF Response
      <4> QED
        BY <3>1, <4>1, <4>2
    <3> QED
      BY <1>4, <3>2, <3>3, <3>4
  <2>2. \A d \in Conns : d # c => resultBar'[d] = resultBar[d]
    BY <1>7, QuietBars
  <2>3. resultBar' = [d \in Conns |-> resultBar'[d]] /\ resultBar = [d \in Conns |-> resultBar[d]]
    BY DEF resultBar
  <2> QED
    BY <2>1, <2>2, <2>3
<1>12. mapBar' = IF KVRequest(c).op = "get" THEN mapBar
                 ELSE [mapBar EXCEPT ![KVRequest(c).bucket][KVRequest(c).key] = KVRequest(c).data]
  <2>0. store \in [Keys -> Conns \cup {None}]
    BY <1>0 DEF TypeOK
  <2>1. CASE Seen(c).cmd = "get"
    BY <1>4, <2>1 DEF mapBar, KVRequest, Seen
  <2>2. CASE Seen(c).cmd \in {"set", "delete"}
    <3>1. /\ KVRequest(c).op # "get" /\ KVRequest(c).bucket = Bucket /\ KVRequest(c).key = k
          /\ KVRequest(c).data = IF Seen(c).cmd = "set" THEN c ELSE None
      BY <1>3, <2>2 DEF KVRequest, Seen
    <3>2. store' = [store EXCEPT ![k] = KVRequest(c).data]
      BY <1>4, <2>2, <3>1
    <3>3. [mapBar EXCEPT ![Bucket][k] = KVRequest(c).data] = [b \in {Bucket} |-> store']
      BY <2>0, <3>2 DEF mapBar
    <3> QED
      BY <3>1, <3>3 DEF mapBar
  <2> QED
    BY <1>4, <2>1, <2>2
<1> QED
  BY <1>8, <1>9, <1>11, <1>12 DEF KV!Apply

\* Reading a task from the pipe and sending its answer are not seen.
LEMMA WorkerQuiet ==
    ASSUME Inv, StatusIs, StatusIs', StorageServes, NEW w \in Workers,
           ReadPipe(w) \/ HandleGetFails(w) \/ HandleUpdateFails(w) \/ SendHead(w) \/ SendData(w)
    PROVE  UNCHANGED KV!kvvars
<1>0. TypeOK /\ ConnInv /\ WorkersInv /\ PipesInv
  BY DEF Inv
<1>1. PICK c \in Conns : c = TaskOf(w) /\ c # None
  BY WorkerWhere, DataNodeAssumption DEF WorkerThread
<1>2. \A d \in Conns : d # c => Quiet(d)
  BY <1>1, OthersQuiet DEF WorkerThread
<1>3. CASE ReadPipe(w)
  <2>1. c = Head(pipe[w]) /\ where[c] = "pipe" /\ Parsed(c)
    BY <1>0, <1>1, <1>3, PipedTask DEF ReadPipe, At, TaskOf, ConnInv, ConnOK
  <2>2. where'[c] = "worker" /\ wtask'[w] = c /\ UNCHANGED <<req, head_at, state, store>>
    BY <1>0, <1>3, <2>1 DEF ReadPipe, TypeOK, client, task
  <2>3. CASE state[c] = "s_return_failed"
    <3>1. Quiet(c)
      BY <2>1, <2>2, <2>3 DEF StatusIs, Progress, Quiet, Seen
    <3> QED
      BY <1>2, <2>2, <3>1, AllQuiet
  <2>4. CASE state[c] = "s_dispatch_query_task"
    <3>1. wpc'[w] = "storage"
      BY <1>0, <1>3, <2>1, <2>4 DEF ReadPipe, Goto, TypeOK
    <3>2. Calling(c)'
      BY <2>2, <3>1 DEF Calling
    <3>3. Quiet(c)
      BY <2>1, <2>2, <2>4, <3>2 DEF StatusIs, Progress, Quiet, Seen
    <3> QED
      BY <1>2, <2>2, <3>3, AllQuiet
  <2> QED
    BY <2>1, <2>3, <2>4 DEF Parsed, Seen
<1>4. CASE HandleGetFails(w) \/ HandleUpdateFails(w)
  <2>1. UNCHANGED <<req, head_at, where, state, resp, wpc, wtask, store>>
    BY <1>4 DEF HandleGetFails, HandleUpdateFails, StorageServes, client, workers, task
  <2>2. Quiet(c)
    BY <2>1, SameQuiet DEF Calling, Seen
  <2> QED
    BY <1>2, <2>1, <2>2, AllQuiet
<1>5. CASE SendHead(w) \/ SendData(w)
  <2>1. wpc[w] \in {"send_head", "send_data"} /\ c = wtask[w]
    BY <1>1, <1>5 DEF SendHead, SendData, At, TaskOf
  <2>2. /\ UNCHANGED <<req, head_at, where, state, resp, wtask, store>>
        /\ wpc'[w] \in {"send_data", "destroy"}
    BY <1>0, <1>5 DEF SendHead, SendData, client, task, Goto, TypeOK
  <2>3. \A v \in Workers : wtask[v] = c => v = w
    BY <1>0, <1>1, <2>1 DEF WorkersInv
  <2>4. ~Calling(c) /\ ~Calling(c)'
    BY <2>1, <2>2, <2>3 DEF Calling
  <2>5. Quiet(c)
    BY <2>2, <2>4, SameQuiet DEF Seen
  <2> QED
    BY <1>2, <2>2, <2>5, AllQuiet
<1> QED
  BY <1>3, <1>4, <1>5

\* The clients and the assign thread before dispatch_query_task() are not seen.
LEMMA FrontQuiet ==
    ASSUME Inv, StatusIs, StatusIs', UNCHANGED <<wpc, wtask, store>>, NEW c \in Conns,
           \/ where[c] \notin {"pipe", "worker"} /\ where'[c] \notin {"pipe", "worker"}
           \/ /\ where'[c] = where[c] /\ UNCHANGED <<state, resp>>
              /\ where[c] # "client" => Seen(c)' = Seen(c),
           \A d \in Conns : d # c => Same(d)
    PROVE  UNCHANGED KV!kvvars
<1>1. \A d \in Conns : d # c => Quiet(d)
  BY SameQuiet DEF Same, Calling, Seen
<1>2. Quiet(c)
  <2>1. CASE where[c] \notin {"pipe", "worker"} /\ where'[c] \notin {"pipe", "worker"}
    BY <2>1, IdleQuiet
  <2>2. CASE /\ where'[c] = where[c] /\ UNCHANGED <<state, resp>>
             /\ where[c] # "client" => Seen(c)' = Seen(c)
    BY <2>2, SameQuiet DEF Calling, Seen
  <2> QED
    BY <2>1, <2>2
<1> QED
  BY <1>1, <1>2, AllQuiet

LEMMA ServeStep ==
    ASSUME Inv, StatusIs, StatusIs', StorageServes, [Next]_vars
    PROVE  [KV!Next]_(KV!kvvars)
<1>0. TypeOK /\ ConnInv
  BY DEF Inv
<1>1. CASE UNCHANGED vars \/ Poll
  <2>1. UNCHANGED <<req, head_at, where, state, resp, wpc, wtask, store>>
    BY <1>1 DEF vars, Poll, client, workers, task
  <2>2. \A d \in Conns : Quiet(d)
    BY <2>1, SameQuiet DEF Calling, Seen
  <2> QED
    BY <2>1, <2>2, AllQuiet
<1>2. ASSUME NEW c \in Conns, AssignHandler(c) PROVE [KV!Next]_(KV!kvvars)
  <2>1. CASE dispatch_query_task(c)
    BY <2>1, DispatchInvokes DEF KV!Next
  <2>2. CASE ~dispatch_query_task(c)
    <3>1. /\ where[c] \notin {"pipe", "worker"} /\ where'[c] \notin {"pipe", "worker"}
          /\ UNCHANGED <<wpc, wtask, store>>
      BY <1>0, <1>2, <2>2, AssignWhere DEF workers
    <3>2. \A d \in Conns : d # c => Same(d)
      BY <1>0, <1>2, AssignFrame
    <3> QED
      BY <3>1, <3>2, FrontQuiet
  <2> QED
    BY <2>1, <2>2
<1>3. ASSUME NEW c \in Conns, Client(c) PROVE [KV!Next]_(KV!kvvars)
  <2>1. /\ UNCHANGED <<state, resp, wpc, wtask, store>>
        /\ \/ where'[c] = where[c]
           \/ where[c] = "client" /\ where'[c] = "backlog"
        /\ where[c] # "client" => Seen(c)' = Seen(c)
    BY <1>0, <1>3, ClientWhere DEF workers, Seen
  <2>2. \A d \in Conns : d # c => Same(d)
    BY <1>0, <1>3, ClientFrame
  <2> QED
    BY <2>1, <2>2, FrontQuiet
<1>4. ASSUME NEW w \in Workers, WorkerThread(w) PROVE [KV!Next]_(KV!kvvars)
  BY <1>4, WorkerQuiet, CallApplies, DestroyResponds DEF WorkerThread, KV!Next
<1> QED
  BY <1>1, <1>2, <1>3, <1>4 DEF Next, AssignThread

LEMMA ServeInit ==
    ASSUME Init
    PROVE  KV!Init
<1>1. \A c \in Conns : KVStatus(c) = "idle"
  <2>1. \A c \in Conns : KVStatus(c) = Progress(where[c], state[c], Calling(c))
    BY InvInit, StatusNow DEF StatusIs
  <2> QED
    BY <2>1 DEF Init, Progress
<1>2. statusBar = [c \in Conns |-> "idle"]
  BY <1>1 DEF statusBar
<1>3. requestBar = [c \in Conns |-> NoRequest]
  BY <1>1 DEF requestBar
<1>4. resultBar = [c \in Conns |-> KV!NoResult]
  BY <1>1 DEF resultBar, KV!NoResult
<1>5. mapBar = [b \in {Bucket} |-> [k \in Keys |-> None]]
  BY DEF Init, mapBar
<1> QED
  BY <1>2, <1>3, <1>4, <1>5 DEF KV!Init

\* As long as find_block(), update_block() and delete_block() do not fail, the
\* requests that reach the workers are served as KVStore promises: each takes
\* effect at one moment between dispatch_query_task() and the end of its
\* task, on whichever worker and in whatever order, and its answer reports
\* what it found then.
THEOREM WorkersServeKVStore ==
    ASSUME StorageServes
    PROVE  Spec => ServesKVStore
<1>1. Inv => StatusIs
  BY StatusNow
<1>2. Inv /\ StatusIs /\ StatusIs' /\ [Next]_vars => [KV!Next]_(KV!kvvars)
  BY ServeStep
<1>3. Init => KV!Init
  BY ServeInit
<1> QED
  BY <1>1, <1>2, <1>3, InvHolds, PTL DEF Spec, ServesKVStore, KV!Spec

=============================================================================
