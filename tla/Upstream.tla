------------------------------- MODULE Upstream -------------------------------
(***************************************************************************)
(* Requests, connections and addresses of one upstream, in one worker:     *)
(* src/src/phl_upstream.c, src/src/phl_upstream_content.c and what         *)
(* src/src/modules/phl_proxy.c adds.                                       *)
(*                                                                         *)
(* A worker is a single thread around an event loop.  An event makes one   *)
(* request `running`; it passes the steps of                               *)
(* phl_upstream_content_generate_response_headers() and so on until one    *)
(* would block, and no other handler runs meanwhile.  What the network     *)
(* does, and the clock, go on at any time.                                 *)
(*                                                                         *)
(* The list of addresses is fixed here.  Dynamic upstreams and resolving,  *)
(* which change it, are left out, and so is the request's way to its       *)
(* content handler.                                                        *)
(***************************************************************************)
EXTENDS Integers, Sequences, FailureMark

CONSTANTS
    Address,        (* the addresses of the upstream                       *)
    Checked,        (* those with an active healthcheck                    *)
    Request,        (* requests of clients being served at a time          *)
    Connection,     (* connections to the addresses; bounds the sockets    *)
    None,           (* a NULL pointer                                      *)
    Failed,         (* PHL_PTR_ERROR, an invalid pointer                    *)
    IdleMax,        (* conf `idle_max`                                     *)
    MaxRetries      (* conf `max_retries`                                  *)

ASSUME NullAssumption ==
    /\ None \notin Address \cup Request \cup Connection
    /\ Failed \notin Connection \cup {None}
ASSUME CheckedAssumption == Checked \subseteq Address
ASSUME LimitAssumption == IdleMax \in Nat /\ MaxRetries \in Nat

VARIABLES
    failure,    (* address->failure                                        *)
    checkDown,  (* the addresses marked down by the active healthcheck     *)
    offered,    (* the balancer's available addresses, see Balance         *)
    idle,       (* address->idle_head                                      *)
    idleNum,    (* address->idle_num                                       *)
    address,    (* upc->address, None if the connection does not exist     *)
    owner,      (* upc->request, None if the connection is idle            *)
    errored,    (* the connections with upc->error                         *)
    socket,     (* upc->loop_stream and what the peer did to it            *)
    state,      (* r->state, as far as the content handler goes            *)
    upc,        (* ctx->upc                                                *)
    sent,       (* the requests with ctx->has_sent_request                 *)
    retries,    (* ctx->retries                                            *)
    status,     (* r->resp: what of the response headers was parsed        *)
    running,    (* the request inside phl_request_run(), or None           *)
    avoided     (* the address that phl_upstream_retry_connection() marks  *)
                (* down while it picks another, or None                    *)

marks == <<failure, checkDown, offered>>
pool  == <<idle, idleNum, address, owner, errored, socket>>
req   == <<state, upc, sent, retries, status>>
vars  == <<marks, pool, req, running, avoided>>

(* "gone": the peer closed or reset it and the loop has not seen it yet;   *)
(* what had arrived before can still be read.  "closed": the loop did see  *)
(* it, or closed it for a timeout.                                         *)
Socket == {"none", "connecting", "open", "gone", "closed"}

(* "none": not in the content handler.  "headers": waiting for the         *)
(* upstream's response headers.  "body": they were accepted, the body is   *)
(* relayed.  "broken": phl_request_run() answers with an error page.       *)
State == {"none", "headers", "body", "broken"}

(* "none": status_code is 0.  "partial" and "more": the status line and    *)
(* some headers; the two take turns, so that each read is a change.        *)
(* "ok": all headers.  "retry": all headers, of a status to be retried.    *)
Status == {"none", "partial", "more", "ok", "retry"}

Init ==
    /\ failure = [a \in Address |-> FreshMark]
    /\ checkDown = {}
    /\ offered = Address
    /\ idle = [a \in Address |-> <<>>]
    /\ idleNum = [a \in Address |-> 0]
    /\ address = [c \in Connection |-> None]
    /\ owner = [c \in Connection |-> None]
    /\ errored = {}
    /\ socket = [c \in Connection |-> "none"]
    /\ state = [r \in Request |-> "none"]
    /\ upc = [r \in Request |-> None]
    /\ sent = {}
    /\ retries = [r \in Request |-> 0]
    /\ status = [r \in Request |-> "none"]
    /\ running = None
    /\ avoided = None

-----------------------------------------------------------------------------
(***************************************************************************)
(* phl_upstream_get_connection()                                           *)
(***************************************************************************)
DownWithoutRetry == checkDown  (* slip: the retry's own mark is ignored *)

Down == checkDown \cup ({avoided} \ {None})
Busy(a) == \E c \in Connection : address[c] = a /\ owner[c] # None

IsUp(a) == a \notin Down /\ failure[a].down = "no"

IsPickableBusy(a, refused) ==  (* slip: connections in use are not looked at *)
    /\ a \notin Down
    /\ failure[a].down = "no" \/ (failure[a].down = "due" /\ a \notin refused)

(* phl_upstream_address_is_pickable(); `refused` are the addresses for     *)
(* which failure.filter returns false.                                     *)
IsPickable(a, refused) ==
    /\ a \notin Down
    /\ \/ failure[a].down = "no"
       \/ failure[a].down = "due" /\ ~Busy(a) /\ a \notin refused

(* The balancer's answer `a`, offering `left` afterwards.  Module Balance  *)
(* states it step by step: an address that is not offered, though it is up *)
(* or may be tried; an offered one, some others having been dropped; or,   *)
(* with nothing left to offer, one that may not be picked.                 *)
Pick(a, left) ==
    \E refused \in SUBSET {b \in Address : failure[b].down = "due"} :
        LET pickable == {b \in Address : IsPickable(b, refused)}
        IN  \/ a \notin offered /\ IsUp(a) /\ left = offered \cup {a}
            \/ a \in pickable \ offered /\ ~IsUp(a) /\ left = offered
            \/ a \in pickable \cap offered
               /\ \E dropped \in SUBSET (offered \ pickable) : left = offered \ dropped
            \/ /\ a \notin pickable
               /\ offered \cap pickable = {}
               /\ a \in offered \/ offered = {}
               /\ left = {}

Gets(r, a) ==
    /\ running = r
    /\ state[r] = "headers"
    /\ upc[r] = None
    /\ \E left \in SUBSET Address : Pick(a, left) /\ offered' = left
    /\ avoided' = None
    /\ UNCHANGED <<failure, checkDown, sent, retries, status>>

GetIdle(r, a) ==
    /\ Gets(r, a)
    /\ idle[a] # <<>>
    /\ LET c == Head(idle[a])
       IN  /\ owner' = [owner EXCEPT ![c] = r]
           /\ upc' = [upc EXCEPT ![r] = c]
    /\ idle' = [idle EXCEPT ![a] = Tail(@)]
    /\ idleNum' = [idleNum EXCEPT ![a] = @ - 1]
    /\ UNCHANGED <<address, errored, socket, state, running>>

Connect(r, a, c) ==
    /\ Gets(r, a)
    /\ idle[a] = <<>>
    /\ address[c] = None
    /\ address' = [address EXCEPT ![c] = a]
    /\ owner' = [owner EXCEPT ![c] = r]
    /\ socket' = [socket EXCEPT ![c] = "connecting"]
    /\ upc' = [upc EXCEPT ![r] = c]
    /\ UNCHANGED <<idle, idleNum, errored, state, running>>

(* loop_tcp_connect_sockaddr() returns NULL.  A retry keeps the error      *)
(* pointer in ctx->upc.                                                    *)
ConnectFails(r, a) ==
    /\ Gets(r, a)
    /\ idle[a] = <<>>
    /\ upc' = [upc EXCEPT ![r] = IF avoided = None THEN None ELSE Failed]
    /\ state' = [state EXCEPT ![r] = "broken"]
    /\ UNCHANGED <<pool, running>>

-----------------------------------------------------------------------------
(***************************************************************************)
(* phl_upstream_release_connection()                                       *)
(***************************************************************************)
CountOutcome(c) ==
    failure' = [failure EXCEPT ![address[c]] =
                   IF c \in errored THEN AfterFail(@) ELSE AfterPass(@)]

(* Close the connections of C, none of which stays in an idle list.        *)
Forget(C) ==
    /\ address' = [c \in Connection |-> IF c \in C THEN None ELSE address[c]]
    /\ owner' = [c \in Connection |-> IF c \in C THEN None ELSE owner[c]]
    /\ errored' = errored \ C
    /\ socket' = [c \in Connection |-> IF c \in C THEN "none" ELSE socket[c]]

ReleaseClosing(c) ==
    /\ Forget({c})
    /\ UNCHANGED <<idle, idleNum>>

ReleasePoolingMiscounts(c) ==  (* slip: closing the oldest does not count down *)
    LET a == address[c]
        full == idleNum[a] > IdleMax
    IN  /\ idle' = [idle EXCEPT ![a] = Append(IF full THEN Tail(@) ELSE @, c)]
        /\ idleNum' = [idleNum EXCEPT ![a] = @ + 1]
        /\ address' = IF full THEN [address EXCEPT ![Head(idle[a])] = None] ELSE address
        /\ socket' = IF full THEN [socket EXCEPT ![Head(idle[a])] = "none"] ELSE socket
        /\ owner' = [owner EXCEPT ![c] = None]
        /\ UNCHANGED errored

(* Into the idle pool, after closing the oldest idle connection if the     *)
(* pool is full.                                                           *)
ReleasePooling(c) ==
    LET a == address[c]
        full == idleNum[a] > IdleMax
    IN  /\ idle' = [idle EXCEPT ![a] = Append(IF full THEN Tail(@) ELSE @, c)]
        /\ idleNum' = [idleNum EXCEPT ![a] = IF full THEN @ ELSE @ + 1]
        /\ address' = IF full THEN [address EXCEPT ![Head(idle[a])] = None] ELSE address
        /\ socket' = IF full THEN [socket EXCEPT ![Head(idle[a])] = "none"] ELSE socket
        /\ owner' = [owner EXCEPT ![c] = None]
        /\ UNCHANGED errored

ReleaseErrored(c, clean) ==  (* slip: upc->error is not looked at *)
    /\ CountOutcome(c)
    /\ IF ~clean \/ socket[c] = "closed"
       THEN ReleaseClosing(c)
       ELSE ReleasePooling(c)

Release(c, clean) ==
    /\ CountOutcome(c)
    /\ IF c \in errored \/ ~clean \/ socket[c] = "closed"
       THEN ReleaseClosing(c)
       ELSE ReleasePooling(c)

-----------------------------------------------------------------------------
(***************************************************************************)
(* phl_upstream_content_generate_response_headers()                        *)
(***************************************************************************)
(* The request is in that handler with a connection.                       *)
InHeaders(r) == running = r /\ state[r] = "headers" /\ upc[r] # None

(* The step would block: phl_request_run() returns to the event loop.      *)
Blocks(r) ==
    /\ running = r
    /\ running' = None
    /\ UNCHANGED <<marks, pool, req, avoided>>

WriteBlocks(r) ==
    /\ InHeaders(r) /\ r \notin sent
    /\ socket[upc[r]] \in {"connecting", "open"}
    /\ Blocks(r)

(* A write may still succeed on a socket that the peer has closed.         *)
Write(r) ==
    /\ InHeaders(r) /\ r \notin sent
    /\ socket[upc[r]] \in {"open", "gone"}
    /\ sent' = sent \cup {r}
    /\ UNCHANGED <<marks, pool, state, upc, retries, status, running, avoided>>

ReadBlocks(r) ==
    /\ InHeaders(r) /\ r \in sent
    /\ socket[upc[r]] = "open"
    /\ Blocks(r)

(* Response headers, or some more of them, not complete yet.  The receive  *)
(* timer starts from zero, however often this happens.                     *)
ReadPart(r) ==
    /\ InHeaders(r) /\ r \in sent
    /\ socket[upc[r]] \in {"open", "gone"}
    /\ status' = [status EXCEPT ![r] = IF @ = "partial" THEN "more" ELSE "partial"]
    /\ running' = None
    /\ UNCHANGED <<marks, pool, state, upc, sent, retries, avoided>>

(* Complete response headers, and no status of `retry_status_codes`.       *)
ReadHeaders(r) ==
    /\ InHeaders(r) /\ r \in sent
    /\ socket[upc[r]] \in {"open", "gone"}
    /\ status' = [status EXCEPT ![r] = "ok"]
    /\ state' = [state EXCEPT ![r] = "body"]
    /\ UNCHANGED <<marks, pool, upc, sent, retries, running, avoided>>

MayRetryOnceMore(r) == retries[r] \in 0 .. MaxRetries  (* slip: `>` for `>=` *)

(* phl_upstream_content_fail(), with the response as parsed so far.  It    *)
(* either gives up, and answers with what it has,                          *)
MayRetry(r) == retries[r] \in 0 .. MaxRetries - 1

GiveUp(r, seen) ==
    /\ ~MayRetry(r)
    /\ errored' = errored \cup {upc[r]}
    /\ retries' = [retries EXCEPT ![r] = IF @ < 0 THEN @ ELSE @ + 1]
    /\ status' = [status EXCEPT ![r] = seen]
    /\ state' = [state EXCEPT ![r] = IF seen = "none" THEN "broken" ELSE "body"]
    /\ UNCHANGED <<marks, idle, idleNum, address, owner, socket, upc, sent, running, avoided>>

(* or releases the connection and goes back to GetIdle or Connect.         *)
Retry(r) ==
    LET c == upc[r]
    IN  /\ MayRetry(r)
        /\ failure' = [failure EXCEPT ![address[c]] = AfterFail(@)]
        /\ ReleaseClosing(c)
        /\ retries' = [retries EXCEPT ![r] = @ + 1]
        /\ status' = [status EXCEPT ![r] = "none"]
        /\ sent' = sent \ {r}
        /\ upc' = [upc EXCEPT ![r] = None]
        /\ avoided' = address[c]
        /\ UNCHANGED <<checkDown, offered, state, running>>

Fail(r, seen) == GiveUp(r, seen) \/ Retry(r)

(* Writing or reading fails: the peer or a timeout closed the socket.      *)
TransferFails(r) ==
    /\ InHeaders(r)
    /\ socket[upc[r]] \in {"gone", "closed"}
    /\ Fail(r, status[r])

(* The status line or a header is malformed.  An incomplete status line is *)
(* taken for a malformed one.                                              *)
ParseFails(r) ==
    /\ InHeaders(r) /\ r \in sent
    /\ socket[upc[r]] \in {"open", "gone"}
    /\ \/ Fail(r, status[r])
       \/ Fail(r, "partial")

ReadRetryStatusAccepted(r) ==  (* slip: retry_status_codes is not looked at *)
    /\ InHeaders(r) /\ r \in sent
    /\ socket[upc[r]] \in {"open", "gone"}
    /\ status' = [status EXCEPT ![r] = "retry"]
    /\ state' = [state EXCEPT ![r] = "body"]
    /\ UNCHANGED <<marks, pool, upc, sent, retries, running, avoided>>

(* Complete response headers, with a status to be retried.                 *)
ReadRetryStatus(r) ==
    /\ InHeaders(r) /\ r \in sent
    /\ socket[upc[r]] \in {"open", "gone"}
    /\ Fail(r, "retry")

-----------------------------------------------------------------------------
(***************************************************************************)
(* The response is relayed, or an error page sent, and the request closed. *)
(***************************************************************************)
(* phl_upstream_content_ctx_free() and the end of the request.             *)
Finish(r, clean) ==
    /\ upc[r] # Failed
    /\ IF upc[r] = None
       THEN UNCHANGED <<failure, pool>>
       ELSE Release(upc[r], clean)
    /\ state' = [state EXCEPT ![r] = "none"]
    /\ upc' = [upc EXCEPT ![r] = None]
    /\ sent' = sent \ {r}
    /\ retries' = [retries EXCEPT ![r] = 0]
    /\ status' = [status EXCEPT ![r] = "none"]
    /\ running' = None
    /\ UNCHANGED <<checkDown, offered, avoided>>

(* No more of the body to read, or no room to send it to the client.       *)
BodyBlocks(r) == state[r] \in {"body", "broken"} /\ Blocks(r)

(* The body is complete, or the error page is: r->state is DONE.           *)
BodyDone(r) ==
    /\ running = r
    /\ state[r] \in {"body", "broken"}
    /\ Finish(r, TRUE)

(* Reading fails, or the chunked encoding is malformed.  The status code   *)
(* is set, so that phl_request_run() "breaks" the request.                 *)
BodyFails(r) ==
    /\ running = r
    /\ state[r] = "body"
    /\ state' = [state EXCEPT ![r] = "broken"]
    /\ UNCHANGED <<marks, pool, upc, sent, retries, status, running, avoided>>

(* The client goes away: the request is closed in whatever state it is.    *)
Abort(r) ==
    /\ running = None
    /\ state[r] # "none"
    /\ Finish(r, FALSE)

(* Releasing the error pointer: the worker process dies on it.  The master *)
(* starts another one.                                                     *)
Crash(r) ==
    /\ upc[r] = Failed
    /\ running = None \/ (running = r /\ state[r] = "broken")
    /\ failure' = [a \in Address |-> FreshMark]
    /\ checkDown' = {}
    /\ offered' = Address
    /\ Forget(Connection)
    /\ idle' = [a \in Address |-> <<>>]
    /\ idleNum' = [a \in Address |-> 0]
    /\ state' = [q \in Request |-> "none"]
    /\ upc' = [q \in Request |-> None]
    /\ sent' = {}
    /\ retries' = [q \in Request |-> 0]
    /\ status' = [q \in Request |-> "none"]
    /\ running' = None
    /\ avoided' = None

-----------------------------------------------------------------------------
(***************************************************************************)
(* Events, the network, the clock, and the active healthcheck.             *)
(***************************************************************************)
(* phl_proxy_build_request(): methods other than GET and HEAD are not      *)
(* retried.                                                                *)
Arrive(r) ==
    /\ running = None
    /\ state[r] = "none"
    /\ state' = [state EXCEPT ![r] = "headers"]
    /\ \E n \in {-1, 0} : retries' = [retries EXCEPT ![r] = n]
    /\ running' = r
    /\ UNCHANGED <<marks, pool, upc, sent, status, avoided>>

(* A socket of the request, to the upstream or the client, becomes         *)
(* readable or writable; or the event does not concern it really.          *)
Wake(r) ==
    /\ running = None
    /\ state[r] # "none"
    /\ running' = r
    /\ UNCHANGED <<marks, pool, req, avoided>>

TimeoutUnnoticed(c) ==  (* slip: on_close does not run the request *)
    /\ running = None
    /\ owner[c] # None
    /\ socket[c] # "closed"
    /\ socket' = [socket EXCEPT ![c] = "closed"]
    /\ UNCHANGED <<marks, idle, idleNum, address, owner, errored, req, running, avoided>>

(* phl_upstream_on_close() for a timeout of a connection in use.           *)
Timeout(c) ==
    /\ running = None
    /\ owner[c] # None
    /\ socket[c] # "closed"
    /\ socket' = [socket EXCEPT ![c] = "closed"]
    /\ running' = owner[c]
    /\ UNCHANGED <<marks, idle, idleNum, address, owner, errored, req, avoided>>

(* A list without its i-th element.                                        *)
Without(s, i) == [j \in 1 .. Len(s) - 1 |-> IF j < i THEN s[j] ELSE s[j + 1]]

(* phl_upstream_on_active() for an idle connection: a timeout, or the peer *)
(* closes it, or sends what nobody asked for.                              *)
IdleClose(c) ==
    /\ running = None
    /\ address[c] # None /\ owner[c] = None
    /\ Forget({c})
    /\ \E i \in 1 .. Len(idle[address[c]]) :
         /\ idle[address[c]][i] = c
         /\ idle' = [idle EXCEPT ![address[c]] = Without(@, i)]
    /\ idleNum' = [idleNum EXCEPT ![address[c]] = @ - 1]
    /\ UNCHANGED <<marks, req, running, avoided>>

ConnectDone(c) ==
    /\ socket[c] = "connecting"
    /\ socket' = [socket EXCEPT ![c] = "open"]
    /\ UNCHANGED <<marks, idle, idleNum, address, owner, errored, req, running, avoided>>

PeerCloses(c) ==
    /\ socket[c] \in {"connecting", "open"}
    /\ socket' = [socket EXCEPT ![c] = "gone"]
    /\ UNCHANGED <<marks, idle, idleNum, address, owner, errored, req, running, avoided>>

(* conf `failure.timeout` is over.  down_time is not set again by further  *)
(* failures.                                                               *)
FailureTimeout(a) ==
    /\ failure[a].down = "yes"
    /\ failure' = [failure EXCEPT ![a].down = "due"]
    /\ UNCHANGED <<checkDown, offered, pool, req, running, avoided>>

(* The active healthcheck marks an address down or up (see Healthcheck).   *)
CheckTurns(a) ==
    /\ running = None
    /\ checkDown' = IF a \in checkDown THEN checkDown \ {a} ELSE checkDown \cup {a}
    /\ UNCHANGED <<failure, offered, pool, req, running, avoided>>

-----------------------------------------------------------------------------
Thread(r) ==
    \/ \E a \in Address : GetIdle(r, a) \/ ConnectFails(r, a)
    \/ \E a \in Address, c \in Connection : Connect(r, a, c)
    \/ WriteBlocks(r) \/ Write(r)
    \/ ReadBlocks(r) \/ ReadPart(r) \/ ReadHeaders(r)
    \/ TransferFails(r) \/ ParseFails(r) \/ ReadRetryStatus(r)
    \/ BodyBlocks(r) \/ BodyDone(r) \/ BodyFails(r)

Event ==
    \/ \E r \in Request : Arrive(r) \/ Wake(r) \/ Abort(r)
    \/ \E c \in Connection : Timeout(c) \/ IdleClose(c) \/ ConnectDone(c) \/ PeerCloses(c)
    \/ \E a \in Address : FailureTimeout(a)
    \/ \E a \in Checked : CheckTurns(a)

Next ==
    \/ \E r \in Request : Thread(r) \/ Crash(r)
    \/ Event

Spec == Init /\ [][Next]_vars

(* A connection that a request waits on for response headers times out.    *)
HeadersTimeout(c) == Timeout(c) /\ state[owner[c]] = "headers"

(* The thread goes on until it blocks.  Every connection in use has a      *)
(* timer: from connecting on, and set again after writing and by each read *)
(* that brings something; the loop looks at expired timers in each round,  *)
(* however many other events there are.  So the timer of a connection      *)
(* expires in the end, unless it is put off by such reads for ever; writing*)
(* happens only once for each connection and request.                      *)
FairSpec ==
    /\ Spec
    /\ WF_vars(\E r \in Request : Thread(r))
    /\ \A c \in Connection :
          \/ SF_vars(HeadersTimeout(c))
          \/ \E r \in Request : []<><<upc[r] = c /\ ReadPart(r)>>_vars

-----------------------------------------------------------------------------
(* Types of the variables.                                                 *)
TypeOK ==
    /\ failure \in [Address -> Mark]
    /\ checkDown \in SUBSET Checked
    /\ offered \in SUBSET Address
    /\ idle \in [Address -> Seq(Connection)]
    /\ idleNum \in [Address -> Nat]
    /\ address \in [Connection -> Address \cup {None}]
    /\ owner \in [Connection -> Request \cup {None}]
    /\ errored \in SUBSET Connection
    /\ socket \in [Connection -> Socket]
    /\ state \in [Request -> State]
    /\ upc \in [Request -> Connection \cup {None, Failed}]
    /\ sent \in SUBSET Request
    /\ retries \in [Request -> -1 .. MaxRetries + 1]
    /\ status \in [Request -> Status]
    /\ running \in Request \cup {None}
    /\ avoided \in Address \cup {None}

(* A connection is used by one request at most, which knows it, and is     *)
(* either in use or in the idle list of its address, once; idle_num counts *)
(* that list.  So two requests never read from one connection at a time.   *)
Ownership ==
    /\ \A r \in Request, c \in Connection : upc[r] = c <=> owner[c] = r
    /\ \A c \in Connection : owner[c] # None => address[c] # None
    /\ \A a \in Address :
         /\ idleNum[a] = Len(idle[a])
         /\ \A i, j \in 1 .. Len(idle[a]) : idle[a][i] = idle[a][j] => i = j
         /\ {idle[a][i] : i \in 1 .. Len(idle[a])} =
                {c \in Connection : address[c] = a /\ owner[c] = None}

(* The idle pool keeps its limit, which is one above `idle_max`.           *)
PoolBound == \A a \in Address : Len(idle[a]) <= IdleMax + 1

(* The conf `idle_max`: "Max idle connections." (phl_upstream.c:595).      *)
MaxIdleConnections == \A a \in Address : Len(idle[a]) <= IdleMax

(* Connections in the pool are not marked as errors (upc->error).  A body  *)
(* that could not be read or decoded leaves no mark (BodyFails): its       *)
(* connection may be in the pool, with the rest of the body unread.        *)
CleanPool == \A c \in Connection : c \in errored => owner[c] # None

(* Nor are they closed on this side.                                       *)
OpenPool == \A c \in Connection : socket[c] = "closed" => owner[c] # None

(* The idle pool (phl_upstream_release_connection()): not too many         *)
(* connections, none with upc->error and none whose socket is closed.      *)
Pool == TypeOK /\ PoolBound /\ CleanPool /\ OpenPool

(* However passes and failures of concurrent requests interleave, the mark *)
(* is not moved too late: an address in use is short of the failures in a  *)
(* row that take it out of use, and one out of use of the passes.  That it *)
(* is not moved too early, Healthcheck says of the same operators          *)
(* (Continuous).                                                           *)
Marks == \A a \in Address : MarkOK(failure[a])

(* assert(upc->request != NULL), phl_upstream.c:174: what is released is a *)
(* connection.                                                             *)
ReleasesConnection ==
    [][\A r \in Request : state[r] # "none" /\ state'[r] = "none" => upc[r] # Failed]_vars

(* A connection is handed to a request.                                    *)
Handed(r, c) == upc[r] = None /\ upc'[r] = c

(* A retry goes to another address than the one that just failed, unless   *)
(* the balancer knows of no other one left.                                *)
RetryElsewhere ==
    [][\A r \in Request, c \in Connection :
         Handed(r, c) /\ avoided # None /\ address'[c] = avoided => offered' = {}]_vars

(* "one connection at most in recovering" (phl_upstream.c:374): an address *)
(* marked down by failures is given a connection only while it has none,   *)
(* unless nothing else is left.                                            *)
OneTrial ==
    [][\A r \in Request, c \in Connection :
         Handed(r, c) /\ failure[address'[c]].down # "no" /\ Busy(address'[c])
           => offered' = {}]_vars

(* What the client gets as answer are complete response headers of a       *)
(* status that is not to be retried, or the retries are used up.           *)
AnswerOrExhausted ==
    \A r \in Request : state[r] = "body" => status[r] = "ok" \/ ~MayRetry(r)

(* A request that is not idempotent is sent at most once, other ones once  *)
(* more than `max_retries`: sending again costs a retry.                   *)
SendsBounded ==
    [][\A r \in Request : r \in sent /\ r \notin sent' /\ state'[r] # "none"
         => retries[r] \in 0 .. MaxRetries - 1 /\ retries'[r] > retries[r]]_vars

(* Waiting for the upstream ends, with an answer or an error, unless the   *)
(* upstream sends a bit of the headers again and again: no time limits     *)
(* them altogether.                                                        *)
HeadersEnd ==
    \A r \in Request :
        \/ []<><<ReadPart(r)>>_vars
        \/ state[r] = "headers" ~> state[r] # "headers"
=============================================================================
