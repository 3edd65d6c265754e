----------------------------- MODULE Connection ------------------------------
(***************************************************************************)
(* Client connections, src/src/phl_connection.c, with HTTP/1 on top of     *)
(* them, src/src/phl_http1.c: the workers accept from one listen address,  *)
(* share its counter of connections, and close what is idle or silent.     *)
(*                                                                         *)
(* An action is one callback of the event loop of a worker, which nothing  *)
(* of that worker interrupts; only the test of the limit and the addition  *)
(* to the shared counter are apart, since another worker may come between  *)
(* them.  The deferred routine runs some time after the callbacks of a     *)
(* round.  A request is cut down to what the connection sees of it: where  *)
(* it stands, and that it adds to the send buffer.                         *)
(***************************************************************************)
EXTENDS Naturals, FiniteSets

CONSTANTS
    Worker,
    Conn,       (* the connections there may be at a time                  *)
    Limit,      (* network.connections, 0 for no limit                     *)
    MaxLost     (* bounds what the counter is left with, see `lost`        *)

ASSUME ConnectionAssumption ==
    /\ Limit \in Nat /\ MaxLost \in Nat
    /\ IsFiniteSet(Worker) /\ IsFiniteSet(Conn)

VARIABLES
    owner,      (* the worker of each connection, "none" if it is free     *)
    state,      (* c->state, and "free" for one that is not allocated      *)
    request,    (* c->u.request: "none", or where it stands.  "head": its  *)
                (* headers are not complete; "work": it is processed;      *)
                (* "wait": from PHL_REQUEST_STATE_RESPONSE_HEADERS_1 on,   *)
                (* "body": PHL_REQUEST_STATE_RESPONSE_BODY                 *)
    recvTimer,  (* the group that recv_timer is in                         *)
    sendTimer,  (* whether send_timer is set                               *)
    buffer,     (* send_buffer: NULL, empty, or with data                  *)
    blocked,    (* the stream waits to be writable                         *)
    deferred,   (* phl_connection_defer_list                               *)
    mute,       (* the client neither sends nor reads any more             *)
    passed,     (* workers between the test of the limit and the addition  *)
    count,      (* stats->connections, in shared memory                    *)
    lost        (* history: counted for connections that are not there     *)

conn == <<owner, state, request, recvTimer, sendTimer, buffer, blocked>>
vars == <<conn, deferred, mute, passed, count, lost>>

Init ==
    /\ owner = [c \in Conn |-> "none"]
    /\ state = [c \in Conn |-> "free"]
    /\ request = [c \in Conn |-> "none"]
    /\ recvTimer = [c \in Conn |-> "off"]
    /\ sendTimer = [c \in Conn |-> FALSE]
    /\ buffer = [c \in Conn |-> "null"]
    /\ blocked = [c \in Conn |-> FALSE]
    /\ deferred = {}
    /\ mute = {}
    /\ passed = {}
    /\ count = 0
    /\ lost = 0

Open == {c \in Conn : state[c] \in {"reading", "writing", "idle"}}

(* A worker goes on with accepting before it calls another callback.       *)
Ready(c) == c \in Open /\ owner[c] \notin passed

(***************************************************************************)
(* The pieces of a connection, as records, so that a callback can go       *)
(* through several calls                                                   *)
(***************************************************************************)
Now(c) == [state |-> state[c], request |-> request[c], recvTimer |-> recvTimer[c],
           sendTimer |-> sendTimer[c], buffer |-> buffer[c], blocked |-> blocked[c],
           defer |-> c \in deferred]

(* phl_connection_close(), which also closes the request.  What is left in *)
(* the buffer is written once, and then lost.                              *)
Closed == [state |-> "closed", request |-> "none", recvTimer |-> "off",
           sendTimer |-> FALSE, buffer |-> "null", blocked |-> FALSE, defer |-> TRUE]

(* free(c)                                                                 *)
Freed == [Closed EXCEPT !.state = "free", !.defer = FALSE]

(* phl_connection_set_state()                                              *)
SetState(k, new) ==
    IF k.state \in {"closed", new} THEN k
    ELSE CASE new = "reading" -> [k EXCEPT !.state = new, !.recvTimer = "recv"]
           [] new = "writing" -> [k EXCEPT !.state = new, !.sendTimer = FALSE]
           [] new = "idle"    -> [k EXCEPT !.state = new, !.recvTimer = "keepalive"]

(* phl_http1_set_state()                                                   *)
StateOfRequest(k) ==
    SetState(k, CASE k.request = "none" -> "idle"
                  [] k.request \in {"head", "work"} -> "reading"
                  [] k.request \in {"wait", "body"} -> "writing")

(* slip: nothing watches over what could not be written                    *)
FlushUntimed(k, silent) ==
    IF k.buffer # "data" THEN {k}
    ELSE {[k EXCEPT !.blocked = TRUE], Closed}
         \cup (IF k.blocked \/ silent THEN {}
               ELSE {[k EXCEPT !.buffer = "empty", !.sendTimer = FALSE]})

(* phl_connection_flush(): loop_stream_write() writes all, a part, or      *)
(* fails; nothing while the stream is blocked, and not all for a client    *)
(* that does not read.  An attempt that leaves data sets send_timer anew,  *)
(* whether or not it wrote a part.                                         *)
Flush(k, silent) ==
    IF k.buffer # "data" THEN {k}
    ELSE {[k EXCEPT !.sendTimer = TRUE, !.blocked = TRUE], Closed}
         \cup (IF k.blocked \/ silent THEN {}
               ELSE {[k EXCEPT !.buffer = "empty", !.sendTimer = FALSE]})

(* phl_connection_make_space(): the connection is put into the list, and   *)
(* there is enough space at once or after a flush, or not.  `put`: the     *)
(* caller has something to put there.                                      *)
Space(k, put, silent) ==
    LET listed == [k EXCEPT !.defer = TRUE]
        ways == {listed} \cup Flush(listed, silent) IN
    {IF put /\ f.state # "closed" THEN [f EXCEPT !.buffer = "data"] ELSE f : f \in ways}

(* phl_http1_request_close(): HTTP/1.0 has no keep-alive, and a request    *)
(* that did not come to its end takes the connection with it.              *)
Done(k) == {SetState([k EXCEPT !.request = "none"], "idle"), Closed}

(* phl_request_run(): the request waits where it is or further on, until   *)
(* it answers; then it adds its headers and from there on its body to the  *)
(* buffer, also none if there is no space or no content yet; it comes to   *)
(* its end, or fails.                                                      *)
Waits == [head |-> {"head", "work", "wait"}, work |-> {"work", "wait"}, wait |-> {"wait"},
          body |-> {}]

Answers(k, put, silent) ==
    LET to(f) == IF f.state = "closed" THEN f ELSE [f EXCEPT !.request = "body"]
    IN  {to(f) : f \in Space(k, put, silent)}

Runs(k, silent) ==
    LET sent == Answers(k, TRUE, silent) IN
    {[k EXCEPT !.request = q] : q \in Waits[k.request]}
    \cup sent \cup (UNION {IF f.state = "closed" THEN {f} ELSE Done(f) : f \in sent})
    \cup (IF k.request = "body" THEN Answers(k, FALSE, silent)
          ELSE {[f EXCEPT !.request = IF f.state = "closed" THEN "none" ELSE "wait"]
                   : f \in Space(k, FALSE, silent)})
    \cup {Closed}

(* slip: a connection without request is not counted down                  *)
BecomesCounted(c, k) ==
    /\ state' = [state EXCEPT ![c] = k.state]
    /\ request' = [request EXCEPT ![c] = k.request]
    /\ recvTimer' = [recvTimer EXCEPT ![c] = k.recvTimer]
    /\ sendTimer' = [sendTimer EXCEPT ![c] = k.sendTimer]
    /\ buffer' = [buffer EXCEPT ![c] = k.buffer]
    /\ blocked' = [blocked EXCEPT ![c] = k.blocked]
    /\ deferred' = IF k.defer THEN deferred \cup {c} ELSE deferred \ {c}
    /\ count' = IF request[c] # "none" /\ k.state = "closed" THEN count - 1 ELSE count
    /\ owner' = [owner EXCEPT ![c] = IF k.state = "free" THEN "none" ELSE owner[c]]

Becomes(c, k) ==
    /\ state' = [state EXCEPT ![c] = k.state]
    /\ request' = [request EXCEPT ![c] = k.request]
    /\ recvTimer' = [recvTimer EXCEPT ![c] = k.recvTimer]
    /\ sendTimer' = [sendTimer EXCEPT ![c] = k.sendTimer]
    /\ buffer' = [buffer EXCEPT ![c] = k.buffer]
    /\ blocked' = [blocked EXCEPT ![c] = k.blocked]
    /\ deferred' = IF k.defer THEN deferred \cup {c} ELSE deferred \ {c}
    /\ count' = IF state[c] # "closed" /\ k.state = "closed" THEN count - 1 ELSE count
    /\ owner' = [owner EXCEPT ![c] = IF k.state = "free" THEN "none" ELSE owner[c]]

Stays == UNCHANGED <<mute, passed, lost>>

(***************************************************************************)
(* Accepting                                                               *)
(***************************************************************************)
(* slip: off by one                                                        *)
FullBeyond == Limit # 0 /\ count > Limit

Full == Limit # 0 /\ count >= Limit

(* There is a connection for every worker that goes on: Conn is a bound.   *)
Room == Cardinality({c \in Conn : state[c] = "free"}) > Cardinality(passed)

(* phl_connection_on_accept(), up to the addition                          *)
Test(w) ==
    /\ w \notin passed
    /\ Room
    /\ ~Full
    /\ passed' = passed \cup {w}
    /\ UNCHANGED <<conn, deferred, mute, count, lost>>

(* phl_connection_free_idle(): the first of this worker in the group of    *)
(* keep-alive timers, if it is there for long enough                       *)
TestFull(w) ==
    /\ w \notin passed
    /\ Room
    /\ Full
    /\ \E c \in Open : owner[c] = w /\ recvTimer[c] = "keepalive" /\ Becomes(c, Closed)
    /\ passed' = passed \cup {w}
    /\ UNCHANGED <<mute, lost>>

Accept(w, c) ==
    /\ w \in passed
    /\ passed' = passed \ {w}
    /\ state[c] = "free"
    /\ state' = [state EXCEPT ![c] = "reading"]
    /\ owner' = [owner EXCEPT ![c] = w]
    /\ count' = count + 1
    /\ UNCHANGED <<request, recvTimer, sendTimer, buffer, blocked, deferred, mute, lost>>

(* calloc() fails                                                          *)
AcceptFails(w) ==
    /\ w \in passed
    /\ lost < MaxLost
    /\ passed' = passed \ {w}
    /\ count' = count + 1
    /\ lost' = lost + 1
    /\ UNCHANGED <<conn, deferred, mute>>

(***************************************************************************)
(* Events of a connection                                                  *)
(***************************************************************************)
(* phl_connection_on_readable(), for what one read() brings; it may be     *)
(* called again for the next.                                              *)
Readable(c) ==
    /\ Ready(c) /\ c \notin mute
    /\ LET k == IF request[c] = "none" THEN [Now(c) EXCEPT !.request = "head"] ELSE Now(c) IN
       \E run \in Runs(k, FALSE) : Becomes(c, StateOfRequest(run))
    /\ Stays

(* The client closes or resets: read() fails.                              *)
ReadFails(c) ==
    /\ Ready(c) /\ c \notin mute
    /\ Becomes(c, Closed)
    /\ Stays

(* phl_connection_on_writable()                                            *)
Writable(c) ==
    /\ Ready(c) /\ blocked[c] /\ c \notin mute
    /\ \E f \in Flush([Now(c) EXCEPT !.blocked = FALSE], FALSE) :
        IF f.blocked \/ f.state = "closed" \/ f.request = "none" THEN Becomes(c, f)
        ELSE \E run \in Runs(f, FALSE) : Becomes(c, StateOfRequest(run))
    /\ Stays

(* What the request waits for calls phl_request_run() itself.              *)
Wake(c) ==
    /\ Ready(c) /\ request[c] \in {"work", "wait", "body"}
    /\ \E run \in Runs(Now(c), c \in mute) : Becomes(c, run)
    /\ Stays

(* slip: a response that is being sent is not cut off                      *)
RecvTimeoutReading(c) ==
    /\ Ready(c) /\ recvTimer[c] # "off" /\ state[c] # "writing"
    /\ Becomes(c, Closed)
    /\ Stays

(* phl_connection_recv_timedout(), of recv_timeout or keepalive_timeout    *)
RecvTimeout(c) ==
    /\ Ready(c) /\ recvTimer[c] # "off"
    /\ Becomes(c, Closed)
    /\ Stays

SendTimeout(c) ==
    /\ Ready(c) /\ sendTimer[c]
    /\ Becomes(c, Closed)
    /\ Stays

(* phl_connection_defer_routine(), for one connection                      *)
Defer(c) ==
    /\ c \in deferred /\ owner[c] \notin passed
    /\ \/ /\ state[c] = "closed"
          /\ Becomes(c, Freed)
          /\ mute' = mute \ {c}
       \/ /\ state[c] # "closed"
          /\ UNCHANGED mute
          /\ \E f \in Flush([Now(c) EXCEPT !.defer = FALSE], c \in mute) :
                IF f.state = "closed" \/ f.buffer = "data" THEN Becomes(c, f)
                ELSE Becomes(c, [f EXCEPT !.buffer = "null"])
    /\ UNCHANGED <<passed, lost>>

(***************************************************************************)
(* Environment                                                             *)
(***************************************************************************)
Mute(c) ==
    /\ c \in Open \ mute
    /\ mute' = mute \cup {c}
    /\ UNCHANGED <<conn, deferred, passed, count, lost>>

(* A worker dies, and what it counted stays.                               *)
Crash(w) ==
    LET own == {c \in Conn : owner[c] = w}
        gone == Cardinality(own \cap Open)
        out(f, v) == [c \in Conn |-> IF c \in own THEN v ELSE f[c]] IN
    /\ gone > 0 /\ lost + gone <= MaxLost
    /\ lost' = lost + gone
    /\ state' = out(state, "free")
    /\ request' = out(request, "none")
    /\ recvTimer' = out(recvTimer, "off")
    /\ sendTimer' = out(sendTimer, FALSE)
    /\ buffer' = out(buffer, "null")
    /\ blocked' = out(blocked, FALSE)
    /\ deferred' = deferred \ own
    /\ mute' = mute \ own
    /\ passed' = passed \ {w}
    /\ owner' = out(owner, "none")
    /\ UNCHANGED count

Callback(c) ==
    \/ Readable(c) \/ ReadFails(c) \/ Writable(c) \/ Wake(c)
    \/ RecvTimeout(c) \/ SendTimeout(c) \/ Defer(c) \/ Mute(c)

Next ==
    \/ \E w \in Worker : Test(w) \/ TestFull(w) \/ AcceptFails(w) \/ Crash(w)
    \/ \E w \in Worker, c \in Conn : Accept(w, c)
    \/ \E c \in Conn : Callback(c)

(* Every round of the event loop runs the timers that are due and the      *)
(* deferred routine, also if accepting takes up the worker again and again *)
(* in between.  An accepted connection is set up.  Clients owe nothing.    *)
(* A timer of a connection that has data to send is due at some time if    *)
(* there is a last attempt to send it, which is assumed: a request that    *)
(* cannot add to the buffer reads no more of what it waits for, so that    *)
(* after the buffers in between are full nothing wakes it.                 *)
Fairness ==
    /\ \A c \in Conn : /\ SF_vars(Defer(c))
                       /\ SF_vars(RecvTimeout(c)) /\ SF_vars(SendTimeout(c))
    /\ \A w \in Worker : WF_vars(AcceptFails(w) \/ \E c \in Conn : Accept(w, c))

Spec == Init /\ [][Next]_vars /\ Fairness

(***************************************************************************)
(* Properties                                                              *)
(***************************************************************************)
TypeOK ==
    /\ owner \in [Conn -> Worker \cup {"none"}]
    /\ state \in [Conn -> {"free", "reading", "writing", "idle", "closed"}]
    /\ request \in [Conn -> {"none", "head", "work", "wait", "body"}]
    /\ recvTimer \in [Conn -> {"off", "recv", "keepalive"}]
    /\ sendTimer \in [Conn -> BOOLEAN]
    /\ buffer \in [Conn -> {"null", "empty", "data"}]
    /\ blocked \in [Conn -> BOOLEAN]
    /\ deferred \subseteq Conn /\ mute \subseteq Conn /\ passed \subseteq Worker
    /\ count \in Nat /\ lost \in 0 .. MaxLost

(* The shared counter is that of the open connections of all workers, but  *)
(* for what crashes and failed allocations leave; a connection is counted  *)
(* down and freed once, on whichever way it is closed.                     *)
Counted ==
    /\ TypeOK
    /\ count = Cardinality(Open) + lost
    /\ \A c \in Conn : state[c] = "closed" => c \in deferred
    /\ \A c \in Conn : c \notin Open => request[c] = "none" /\ recvTimer[c] = "off"
                                       /\ ~sendTimer[c] /\ buffer[c] = "null"

(* Workers that test the limit at the same time exceed it by less than     *)
(* their number.                                                           *)
Bounded == Limit # 0 => count + Cardinality(passed) < Limit + Cardinality(Worker)

(* Data in the send buffer is never forgotten: it is flushed at the end of *)
(* the round, or when the stream is writable, and then a timer runs.  That *)
(* may be the one for keep-alive, since a pipelined request that makes the *)
(* connection "writing" suspends send_timer.                               *)
Unsent ==
    \A c \in Open : buffer[c] = "data" =>
        c \in deferred \/ (blocked[c] /\ (sendTimer[c] \/ recvTimer[c] # "off"))

(* A client that falls silent, between two requests or with a response     *)
(* that it does not read, loses its connection.                            *)
SilentEnds ==
    \A c \in Conn :
        c \in mute /\ (state[c] = "idle" \/ buffer[c] = "data")
            ~> state[c] = "free"
===============================================================================
