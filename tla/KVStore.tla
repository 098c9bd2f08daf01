------------------------------ MODULE KVStore ------------------------------
(***************************************************************************)
(* What the storage promises its callers: buckets that map keys to values, *)
(* and calls that take effect at one moment between their invocation and   *)
(* their return (linearizability).  No files, slots, locks or journal.     *)
(* Storage implements it when nothing fails and every value fits a block.  *)
(***************************************************************************)
EXTENDS Integers

CONSTANTS Workers, Buckets, Keys, Requests, NoRequest, None, DB_NOTFOUND

VARIABLES
    map,        \* per bucket and key: the value stored, or None
    status,     \* per worker: "idle", "called" or "applied"
    request,    \* per worker: the call in progress
    result      \* per worker: what the call will return

kvvars == <<map, status, request, result>>

NoResult == [ret |-> 0, value |-> None]

Init ==
    /\ map = [b \in Buckets |-> [k \in Keys |-> None]]
    /\ status = [w \in Workers |-> "idle"]
    /\ request = [w \in Workers |-> NoRequest]
    /\ result = [w \in Workers |-> NoResult]

Invoke(w) ==
    /\ status[w] = "idle"
    /\ status' = [status EXCEPT ![w] = "called"]
    /\ \E r \in Requests : request' = [request EXCEPT ![w] = r]
    /\ UNCHANGED <<map, result>>

\* What a call returns if it takes effect now.
Outcome(r) ==
    LET stored == map[r.bucket][r.key] IN
    [ret   |-> IF r.op # "set" /\ stored = None THEN DB_NOTFOUND ELSE 0,
     value |-> IF r.op = "get" THEN stored ELSE None]

Apply(w) ==
    LET r == request[w] IN
    /\ status[w] = "called"
    /\ status' = [status EXCEPT ![w] = "applied"]
    /\ result' = [result EXCEPT ![w] = Outcome(r)]
    /\ map' = IF r.op = "get" THEN map ELSE [map EXCEPT ![r.bucket][r.key] = r.data]
    /\ UNCHANGED request

Respond(w) ==
    /\ status[w] = "applied"
    /\ status' = [status EXCEPT ![w] = "idle"]
    /\ request' = [request EXCEPT ![w] = NoRequest]
    /\ result' = [result EXCEPT ![w] = NoResult]
    /\ UNCHANGED map

Next == \E w \in Workers : Invoke(w) \/ Apply(w) \/ Respond(w)

Spec == Init /\ [][Next]_kvvars
=============================================================================
