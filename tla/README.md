# A TLA+ development of phorklift

phorklift is an HTTP server and reverse proxy in C that is configured in Lua. This
directory models its logic in TLA+: TLC checks the modules on small instances and
TLAPS proves theorems about them for all instances. `PROJECT.json` lists the
components, the runs, the source lines behind every definition, the hazards of the
code, and the theorems.

## The system

A **master process** reads the configuration, forks worker processes and a resolver
process, restarts workers that die by a signal, and passes signals on. Each
**worker** is a single thread around an event loop (libloop): a handler runs until
it would block, and no other handler of that worker runs meanwhile. So there are no
data races inside a worker. What is hard is that a request is spread over many
handlers, that other requests, timers and closed sockets get in between, and that
workers share memory (statistics, connection counter, request limits) and files.

| Component | Source (`src/src/`) | State it keeps | What it does, and what makes it correct | Model |
|---|---|---|---|---|
| Master process | `phl_main.c` | list of worker pids, reload flag | forks, reloads, restarts, quits; no signal may be lost, no worker left behind | `Master` |
| Configuration | `phl_conf*.c` | the tree of hosts, paths, modules | built once per start or reload, or rolled back | in part: `Listen` |
| Listen addresses | `phl_conf_listen.c` | listening sockets | a reload keeps sockets still used and closes the others | `Listen` |
| Host and path location | `phl_conf_host.c`, `phl_conf_path.c` | dictionary of host names, list of paths | the most specific name wins, the first path that matches | planned |
| Modules and filters | `phl_module.c` | position in the filter chain | each filter runs once, in order, even when one blocks | in part: `Request` |
| Client connections | `phl_connection.c` | buffers, timers, shared counter | one counter for all workers, nothing unsent forgotten, silent clients cut off | `Connection` |
| HTTP/1, HTTP/2, TLS | `phl_http1.c`, `phl_http2.c`, `phl_ssl.c` | parser state | framing, keep-alive | HTTP/1 in part: `Connection` |
| Requests | `phl_request.c` | state of each request, subrequests | steps in order, every father woken, every request closed once | `Request` |
| Lua threads and API | `phl_lua_*.c`, `luaapis/` | coroutine of a request | resumed when what it waits for is there, killed with the request | in part: `Request` |
| Upstream connections and retries | `phl_upstream.c`, `phl_upstream_content.c` | addresses, idle pools, failure marks | one owner per connection, bounded retries, an answer or an error in the end | `Upstream`, `FailureMark` |
| Proxy, redis | `modules/phl_proxy.c`, `modules/phl_redis.c` | parser state | users of the upstream code | proxy: in `Upstream` |
| Random balancer | `loadbalances/phl_upstream_random.c` | array of addresses with sums of weights | draws by weight among the available addresses | `Balance`, `RandomBalance` |
| Hash balancer | `loadbalances/phl_upstream_hash.c` | ring of virtual nodes | same key, same address; finds one that is up | `HashBalance`, used by `Resolve` |
| Active healthcheck | `phl_upstream_healthcheck.c` | mark and running check of an address | marks at complete runs of equal results | `Healthcheck`, `FailureMark` |
| Resolving | `phl_upstream_resolve.c`, `phl_resolver.c` | host names, addresses, cache | keeps the addresses up to date, frees those that are gone and unused | `Resolve`, `Resolver` |
| Dynamic configuration | `phl_dynamic.c` | dictionary of sub-configurations, holders | one `get_conf()` per name, waiters woken, stale ones removed | `Dynamic` |
| File cache | `modules/phl_file_cache.c` | files in a directory shared by workers | readers see complete responses, no file is left unfinished or removed by others | `FileCache` |
| Request limit | `modules/phl_limit_req.c` | leaky buckets in shared memory | a request is limited only for those with its key, or one that is alike | `LimitReq` |
| Auth by subrequest | `modules/phl_auth_request.c` | the subrequest | a request goes on only after a good answer | `Request` |
| Other modules | `modules/` | little | transform one request or response | no |
| Log | `phl_log.c` | buffers | writes files | no |
| libwuya, libloop, libhttp2 | submodules, absent | | containers, event loop, HTTP/2 | external |

How they interact: libloop calls `phl_connection.c`, which calls the parser of its
protocol, which calls `phl_request_run()`. That runs the request's steps: locating
host and path, then filters, then the content handler (for a proxy
`phl_upstream_content_generate_response_headers()`). The content handler gets a
connection to an address from `phl_upstream.c`, which asks a balancer, which looks at
the marks kept by `phl_upstream.c` itself and by the healthcheck. A socket of an
upstream calls `phl_request_run()` again. Resolving and dynamic configuration change
the addresses below all of this, and keep lists of requests that wait for them.

## Modules

| Module | What it is |
|---|---|
| `Balance` | the promise of a load balancer: which address a pick may return |
| `RandomBalance` | `phl_upstream_random.c` step by step; implements `Balance` |
| `RandomBalanceProofs` | theorems about it, and about `Resolve` with its ring |
| `FailureMark` | counting passes and failures in a row; used twice in the code, by requests and by the active check |
| `Upstream` | `phl_upstream.c`, `phl_upstream_content.c` and what the proxy reports to them |
| `UpstreamProofs` | theorems about it |
| `Healthcheck` | `phl_upstream_healthcheck.c` for one address |
| `HealthcheckProofs` | theorems about it |
| `Master` | `phl_main.c`: the master process, its workers, and signals |
| `MasterProofs` | theorems about it, and about `Listen` |
| `Listen` | `phl_conf.c`, `phl_conf_listen.c`: listening sockets over reloads |
| `Dynamic` | `phl_dynamic.c`: making, waiting for, replacing and removing sub-configurations |
| `DynamicProofs` | theorems about it |
| `Request` | `phl_request.c` with `phl_auth_request.c` and `phl.subrequest()`: a client's request and the subrequests below it |
| `RequestProofs` | theorems about it |
| `Connection` | `phl_connection.c` with the states of `phl_http1.c`: several workers, one listen address |
| `ConnectionProofs` | theorems about it, and about `LimitReq` |
| `Sort` | `qsort()` of what is compared by numbers, as both the resolver and the ring use it |
| `Resolver` | `phl_resolver.c`: the resolving thread of the master, its cache, its datagrams |
| `HashBalance` | `phl_upstream_hash.c` as operators: the ring, the search, the pick |
| `Resolve` | `phl_upstream_resolve.c`: one upstream in one worker; composes `Resolver` and `HashBalance` |
| `FileCache` | `phl_file_cache.c`: the requests of several workers for one key |
| `FileCacheProofs` | theorems about it |
| `LimitReq` | `phl_limit_req.c`: the table in shared memory |
| `MC...` | values for the constants of a model, for TLC |

Definitions marked `slip` in a module are plausible mistakes, each of which breaks
the property it is listed with under `mutants` in `PROJECT.json`. They are no part of
the specifications.

Some modules of proofs are about two components that share nothing but the file. Where a module
of a second component is extended there, its definitions carry its name (`ListenInit`,
`LimitSpec`, `ResolveNext`).

### Balance and RandomBalance

The variables of `Balance` are the health of each address and the set `offered`: what the
balancer still takes for available. A pick drops addresses from that set that may
not be picked, takes back one that came up, and returns an address.
`RandomBalance` has the array of `struct random_address` (`table`), the number of
available ones and the loop state of `phl_upstream_random_update()`,
`phl_upstream_random_random()` and `phl_upstream_random_pick()`. One TLA+ step is one
iteration of a C loop. Doubles are integers: weights and sums are exact, and
`drand48()` is any number below the sum. Health may change between any two picks
(`HealthChange`); within a pick nothing else runs. `KeepsPromise` is the refinement,
with `offered` the first `available` entries of the array.

### Upstream

State as in the code: per address the failure mark, the idle list and its counter;
per connection its address, the request that has it (`NULL` when idle), the error
flag and the socket; per request its state, `ctx->upc`, whether it was sent, the
number of retries, and what of the response has been parsed. `running` is the request
inside `phl_request_run()`. While it is set, no event is handled; only the network
and the clock go on (`ConnectDone`, `PeerCloses`, `FailureTimeout`).

`avoided` stands for `healthcheck.down_time = 1`, which
`phl_upstream_retry_connection()` sets during one pick. `Retry` does the release and
sets it, the next step (`GetIdle`, `Connect` or `ConnectFails`) picks and clears it;
between the two nothing else runs.

The balancer is taken from `Balance` in one step (`Pick`).
Data is reduced to what the control depends on: a response is nothing, a part of the
headers, complete headers, or complete headers with a status to be retried. Reading
more of an incomplete header (`ReadPart`) may happen any number of times and sets the receive timer
again each time; `status` alternates to make it a step. A body that cannot be read or decoded
(`BodyFails`) sets no error flag: the connection goes to the pool like one whose body is complete, and
`Pool` does not deny it. TLS, `prewrite_len` and `preread_buf` are left out, and so are dynamic
upstreams and waiting for the first resolving.

External assumptions: libloop reports a stream as blocked for writing while it
connects, reading or writing a closed stream fails, and a close callback is called
for a timeout. `loop_tcp_connect_sockaddr()` may return `NULL` at any time.

### Healthcheck

One address, with the socket of its running check, its mark and the history of the
latest results. The history exists in the model only: properties compare the mark,
which the code computes from counters, with the results themselves. It is as long as
both limits together plus one.

`FailureMark` cuts the counters at the limit plus one. The code compares them by
`==` only, so that all larger values behave alike (they are `int`s; the wrap after
2^31 outcomes without one of the other kind is left out).

### Master

State: `pc`, where the master is in the loop of `main()`, `phl_run()` or `phl_worker_check()`;
`sig_reload_conf`; the array `phl_workers`, and the one that `phl_run()` is filling; for each
process whether it runs its own signal handlers yet, runs, or has ended and is not waited for.
`told` and `quitting` record to whom SIGQUIT went, `lost` which processes it reached before they had
their own handler, and `short` whether a `fork()` failed. Each
system call or test of the master is a step of its own, since a signal handler may run before any of
them: `Hup` sets the flag, `Quit` passes the signal on to the pids listed at that moment, and any
signal ends a `pause()` that has begun (`Wake`). A `fork()` that fails (`ForkFails`, `Respawn`)
stores -1, which is also the mark behind the last pid of the list.

The 10 ms that `phl_run()` sleeps for new workers to set their handlers are ended by any signal, and
a worker forked by `phl_worker_check()` has no such pause: `Install` comes whether or not the workers
have started. One that is told to quit before it has (`QuitTooEarly`) does not quit; its copy of the
master's handler passes the signal on, and the worker goes on for ever (`lost`). `NoStray` excepts
these.

Assumed: the kernel does not give a pid to a new process while the list names
it; each configuration has the same `worker.num`; nobody sends signals before the
pid file is written, which is after the first `phl_run()`. A reload is tried only when
the pids of the instance suffice for it. In the run a new process gets the least free pid (pids are
only compared, `LeastPid`), and after a `fork()` that failed there is no second one, and no more
crash or reload (`OneFork`).

### Listen

State: what each descriptor of the master is, the entries of `phl_conf_listens` (address,
descriptor, reuse magic), the reload counter, and, while a file is read, what is left of it and
what is made so far. A step is what `phl_conf_listen_post()` does for one address (`Reuse`, `Bind`),
or the beginning and end of a Listen (`Begins`, `Posted`) or of `phl_conf_parse()` (`Reload`, `Done`,
`Fails`). A failure may come at each point: a bad host, an address used by another program, a
mistake in the file. Which descriptor `socket()` returns is left open, as log files come and go.
Workers inherit what is open when they are forked, which for a replacement is any time
between two reloads. So `Listening` is stated for every state.

Two things are taken from how the code uses libwuya: memory from a pool is zero
(`phl_conf_listen_fix_bare_paths()` relies on it for the end of its array), and a table is freed
also when its post-function failed (`phl_connection_conf_timers_free()` looks whether its timers
were made). Then a Listen that fails between its addresses closes descriptor 0 for each address it
did not get to. The first time this is stdin; but then `socket()` may return 0, and the next such
failure closes a socket in use. And if an address is named twice, both entries get the descriptor of
the first old one, of which only that one is marked; the next reload closes it with the other entry.
From there on (`spoiled`) `Listening` says nothing; `ListensOn` does, and `ListenClosed.cfg` finds
it violated.

### Dynamic

State: per name the list of sub-configurations that the dictionary finds for it, newest first; per
sub-configuration whether it is a holder, its error and the list of waiting requests; per request
whether it is in `get_conf()`, waits, or uses a configuration. An action is one call of
`phl_dynamic_get()`: first the lookup (`Miss`, `Wait`, `Hit`, `Check`), and after each resumption of
the Lua thread the lookup again, with what came of `get_conf()` (`Resume...`, `Returns...`).
`Delete(n, i, new, R)` is `phl_dynamic_delete()` for the i-th entry of a name, once `new`, if any,
was put in front, with what the woken requests find, since `phl_request_run()` is called for each
before the memory goes. A sub-configuration that is dynamic itself and still has subs (`nested`) is
not deleted.

A request that waits is run again by each event of its client, gets to `phl_dynamic_get()` again,
and its `list_node` is appended again, without a look whether it is in a list; that of a subrequest
is in its father's list when it is appended. Then both lists are damaged, and with them perhaps the
memory of whatever they lead to. The model records it (`torn`), lets a deleted holder wake any part
of those it had, and states `Holders`, `WaitersServed` and `WaitingEnds` up to that point only.

Left out are how a configuration is parsed and compared, and which Lua type was
returned: `ReturnsError`, `ReturnsNothingNew`, `Returns404`, `ReturnsConf` are
the cases the code tells apart. `wuy_dict_get()` is external; it is taken to find the
newest of equal names.

### Request

State: per request its step, `is_broken`, status, father and list of subrequests, whether
its path has auth_request and its filter was passed, and which subrequest the filter or
the Lua thread waits for; `unsent` is the part of `phl_connection_defer_list` that holds
connections of subrequests with something to flush; `stack` holds the calls of
`phl_request_run()`, `phl_request_run_post()` and `phl_connection_make_space()` that have
something left to do, since a subrequest runs its father and the father a subrequest, in
the middle of their own steps. `answer` remembers why auth_request let a request pass.

Each action is one step of the innermost call (`At`), with what `phl_request_run()` makes
of its result: `Advance`, `Block`, `Break`. Only with an empty stack can the event loop
call a handler (`Event`, `ClientGoes`, `Flushes`, `Frees`). Other filters and contents go
on, wait or fail as they like (`Proceeds`, `Generates`, `Waits`, `Fails`, `FailsLate`). A
detached subrequest (option of `phl.subrequest()`, `phl_save_to.c`) has no father to run.

Where the code uses freed memory the worker dies in the model (`Die`), since what it would do is not
defined: closing a request whose script waits in `phl.subrequest()` (`phl_request_do_close()` closes
the subrequest, then `phl_lua_thread_kill()` has it closed again); coming back from flushing a
subrequest whose father closed it meanwhile; a redirect, after which `phl_request_run()` logs
through `conf_path`, which is NULL; and running out of memory for a subrequest, of which `Sub` is
the bound. It also ends where a request waits for a holder (`WaitsLinked`) while its `list_node` is
in a list: that of a subrequest is in its father's, that of the client's request in the holder's if
it waited before. Its worker does not die there, but goes on with damaged lists, of which nothing is
promised: the invariants speak of what is before any of these places, and say that there are no
others.

A subrequest that gets to a dynamic upstream before its first resolving is not appended to
`wait_head`, since its `list_node` is in its father's list (`src/phl_upstream.c:79`). Nothing wakes
it then but another event of its own: `NotForgotten` says that it would run its father, not that it
gets so far.

Status codes are 200 and all others. HTTP/2 differs from HTTP/1 only in when events
come. Scripts are modelled as content; as filters they wait in the same way.

### Connection

State: per connection its worker, `c->state`, the two timers, the send buffer, whether
the stream is blocked, and where its request stands as far as `phl_http1.c` looks at it;
the deferred list; the shared counter. An action is one callback of libloop, or one
connection of the deferred routine. A callback that goes through several functions
(`Runs`, `Space`, `Flush`, `StateOfRequest`, `Closed`) does so on a record that holds the
connection, and `Becomes` makes the result its state. Only the test of the limit (`Test`,
`TestFull`) and the addition to the counter (`Accept`) are two steps, since another worker
may come between them; the worker itself is not interrupted, so that none of its callbacks
runs while it is in `passed`.

The model shows that the code does some things a reader may not expect. They break no
property stated here:

- The first request has no receive timer: the state is READING from `calloc()` on, and
  `phl_connection_set_state()` returns early when it is set to READING.
- Switching to WRITING suspends `send_timer`, not `recv_timer`. So the receive or
  keep-alive timer goes on while a response is sent and may cut it off, and a connection in
  the group of keep-alive timers may be closed by `phl_connection_free_idle()` in the
  middle of a response. A blocked response of a pipelined request is watched by the
  keep-alive timer alone; this is why `Unsent` accepts either timer.
- A worker that dies, or for which `calloc()` fails after the addition, leaves its
  connections in the shared counter. After `network.connections` of them the listen
  address is full for ever (therefore the run does not check for deadlock).
  `phl_connection_free_idle()` closes connections of its own worker only.

### Resolver, HashBalance and Resolve

`Resolver` has what the DNS knows, the cache, and the datagrams of one client; the other clients are
visible in what their queries do to the cache (`ServeOther`). An entry whose time is over is removed
only after the next reply (`Serve`), so a query may be answered with it once more. `HashBalance` is
the ring: `RingOf` sorts the vnodes of the addresses, `Narrow` is one round of the loop of the
binary search, `Search` the place where that loop ends, `Pick` the scan for an address that is up.
`Sort` gives the result of `qsort()` by the rank of each number: with n numbers, the i-th is the one
that i numbers do not exceed.

`Resolve` has the worker's side: the hostname asked for, the list of addresses of each hostname with
their marks (`Entry`), the addresses waiting to be freed (`dead`), which addresses have connections
(`held`), and the ring. `OnRead` is a reply with the merge and the next query, or the end of the
round. The merge is the loop of the code: `Diff` takes one step, with what is left of the sorted
reply and of the sorted list, and `Merge` repeats it as often as both are long; `Timer` starts a
round and frees what can be freed. An address structure carries a number that tells it from an
earlier one for the same socket address. `told` is the last good reply for each hostname.

A query or reply that is lost stops resolving for good: `resolve_index` stays where it was, and the
timer's handler returns early. `Follows` is stated for runs without a loss, and `OneQuery` says that
nothing else stops a round. Ports, weights and the slots for statistics in shared memory are left
out. For a hash without its own vnode the search ends at the vnode that it looked at last, which may
lie on either side; so when an address goes away, keys of other addresses may move as well, although
the description of the module says "Consistent hash is used."

The number of vnodes of an address is `weight * address_vnodes + 0.5` cut to an integer, so that an
address with a weight below half of 1 / `address_vnodes` (but not 0) has none and is never picked.
`FindsUp` speaks of the addresses of the ring, and `InUse` says that these are the ones with a
vnode. If no address has one, `pick` reads through a null pointer; the model has no `Connect` then.
Hashes of two addresses may be equal, and all are if two hostnames of an upstream resolve to one
socket address. `qsort()` leaves equal vnodes in any order (`Ranks`). The search ends at one of
them, so if that address is down and the other is not, the next one of the ring is taken that is up,
which need not be the other. `FindsUp` therefore promises the address of the hash when all that have
it are up. The vnodes of one address are taken to have different hashes, as hashes of different
small integers have.

The results of a lookup are sets (`Results`): that `getaddrinfo()` returns no address twice when it
is asked for one type of socket is assumed. The resolver does not check it
(`src/phl_resolver.c:83-90`); with a repetition, the merge would add a second structure for the same
address, and `Lists`, which says that a list has each address once, would not hold.

### FileCache

State: the directories, the file that the key's name stands for in each, the files with
their mark, expiry and data, the directories each worker uses, and per request where it
is and its descriptor. Each system call on a shared name is a step (`LookUp`, `LookUpLast`,
`Move`, `Read`, `Purge`), since other workers get in between; the remaining handlers of a
worker are not interrupted (`Idle`). The system frees a file that has neither name nor
descriptor (`Linked`). `Crash` kills a worker with its requests; the new one starts with the
directories that the master found at the start.

The scan of the cache's directory when the configuration is read takes one name after the
other, in any order (`Scan`); then the master forks the workers (`Boot`).

One key is enough, as files of different keys share nothing but the directories.
Directories that are no longer used are never deleted, in the code and in the model.
After a renewal or a crash, workers use different directories for a while, and an unfinished
file of a worker that died stays: then the key is not cached until that file is out of both directories.
`NoneLeftOver` and `Kept` are stated for the time before (`Calm`). A request that did not
store anything still unlinks the name, and with it the finished file of another request;
`Kept` says that this happens only to a file that was finished while that request was on
its way, or that it failed to open: any error of `openat()` is taken for a miss
(`src/modules/phl_file_cache.c:263`). The model records such requests with the file (`blind`).

Two writes are not checked enough. That of the length over the mark may fail and is only logged
(`src/modules/phl_file_cache.c:434`): the file stays unfinished, with nobody to finish or remove it,
and the key is not cached until both directories were renewed. The model gives it a mark of its own
(`unmarked`), which `NoneLeftOver` leaves out. That of the headers may write a part of them
(`src/modules/phl_file_cache.c:402`): hits read a damaged file, which `HitsWhole` leaves out
(`failed`).

When a content handler fails in the middle of a body, `phl_request_run()` goes on with the
status 200 and an empty last piece, and the filter writes the length so far over the mark:
a part of the response is served until it expires (`ContentFails`). The comment there says
"mark finished" (`src/modules/phl_file_cache.c:438`); `MarkedWhole` states it, and
`tlc -config FileCacheCut.cfg MCFileCache` finds four steps that violate it.

### LimitReq

State: the buckets, the list of used nodes, the free list, and key and meter of each node. The order
within a bucket decides nothing, as no key is in it twice; so a bucket says how often it has each
node, which `OwnMeter` finds to be once or never. Everything happens under one lock, so an action is
a whole request (`Passes`, `Limited`, `FromFree`, `FromUnused`, `FromList`). The meter belongs to
libwuya and is modelled from its use; so is its list, of which a node that was just popped is
deleted once more (`src/modules/phl_limit_req.c:82-84`), which is taken to change nothing.

The bucket of a key is a hash of all its bytes, but it is stored with `strcpy()` and compared with
`strcmp()`, up to its first zero byte. The default key is a binary IPv4 address, so two clients,
10.0.0.1 and 10.0.0.2 say, are *alike* and share a meter when they are in one bucket, and have two
when they are not; the description of `key` says "client IP address is used". `Text` is the part of
a key before the zero byte, `Alike` says which keys share a meter, and `due` is, for each key, what
one meter for it and those alike to it would say. `OwnMeter` relates table and history: a request is
limited only for requests with its key or one that is alike, also when nodes are taken from one key
for another, and exactly so while none was taken.

The list is called LRU in the code, but new nodes are put at its head, where expiry
looks and eviction takes them: a full table evicts the newest node.

`used_pos` starts inside the array of buckets, as the size of `struct shared` is not added
(`src/modules/phl_limit_req.c:178`). The buckets before that place are used as if they were alone,
which is what the model is about; a request whose bucket lies behind it (`Inside`) reads and writes
the head of a list in the middle of a node. `Spoils` is that request; what it does to the table is
below the level of the model, so no request follows it, and `OwnMeter` is a statement about the
table until then.

## Runs

| Run | Instance | Shows |
|---|---|---|
| `random_balance` | 3 addresses, weights 1, 2, 1 | array and sums stay right, searches succeed, picks return, the promise is kept |
| `upstream` | 2 addresses, 2 requests, 2 connections, `idle_max` 0, 1 retry | ownership; the pool keeps its bound and has no closed connections and none with an error flag; marks do not come too late; answers; retries go elsewhere, one trial at a time |
| `upstream_answer` | 2 addresses with checks, 1 request, 2 retries | sends are bounded, waiting ends or the upstream trickles |
| `healthcheck` | 2 failures, 3 passes | marks follow the results, checks do not get stuck or outlive the address |
| `master` | 4 pids, 2 workers | every living worker is listed or told to quit, or lost its SIGQUIT too early; the service stays complete; the next signal makes up for what a pause overlooked; after a quit the master comes to rest |
| `listen` | 3 addresses, 8 files, 5 descriptors, 4 reloads | no socket stays open that no configuration has; every address keeps its open socket, until a Listen fails between its addresses or an address is named twice |
| `dynamic` | 2 names, 3 requests, 3 subs, `sub_max` 1, checks and nesting | waiters are held by the holder of their name and served by what replaces it, the dictionary is sound, names are limited, waiting ends: all until a waiting request is appended a second time |
| `request` | a request and 2 subrequests | every subrequest is linked and closed once, nothing freed is run or flushed, no request waits for one that will not wake it, auth_request is passed only by a 200: all until freed memory is used or a list is damaged |
| `connection` | 2 workers, 2 connections, limit 1 | the counter is that of the open connections, the limit is exceeded by less than the workers, unsent data is watched, silent clients are cut off |
| `resolve` | 2 hostnames and an address, 2 changes in the DNS, 1 loss | the merge keeps the lists right, nothing in use is freed, one query at a time, picks find an address that is up, the ring follows the DNS |
| `file_cache` | 2 workers, 3 requests, 1 crash | descriptors are closed once, hits are whole, the newest directories are found, no unfinished file stays but one whose mark could not be written, finished ones are kept but from who cannot open them |
| `limit_req` | 6 keys, 2 of them alike, 1 in a bucket inside the nodes, 3 nodes, burst 2 | the table is sound and each request is limited only for requests with its key or one that is alike, until a bucket inside the nodes is used |

Why the bounds are enough. Three addresses give the random balancer's array a boundary with an entry
on each side and one in between, so that every exchange (first, last, same, neighbours) happens. In
`upstream` two requests with two connections fill a pool whose real capacity is one, and evict the
oldest; there is a second address to retry on, and a second request that may use a down address
first. Limits for failures and passes of one or two tell "reached", "not yet" and "beyond" apart.
`Connection` bounds the open sockets: when all are used, only reuse or a failing connect is
possible. Four pids let two workers be reloaded while the two before them still quit; three
sub-configurations are the old one, the new one, and one that was deleted but is still used; with
`sub_max` 1 a second name is refused. Three requests are one that calls `get_conf()` and two that
wait for it. Two subrequests are enough for one below the other, for two of one father that move in
its list while the loop over it runs, and for one that is closed while the other is flushed. In
`connection` two workers that both test the limit of one before either adds to the counter reach the
greatest excess there is. In `resolve` the reply of the first hostname adds, removes and keeps
addresses at both ends of its list, the second one may fail or come back, and a static address lies
between them, which has no vnode; one address at a time has connections, which is what keeps it from
being freed. The vnodes of the first hostname, two for each address, and one for each of the second,
which has the same addresses with less weight, make rings of none to six with equal hashes in either
order; ten hashes give every place of a hash: below, above, between and on a vnode. In `file_cache`
two requests of one worker and one of another give every order of finding, moving, removing, making
and finishing a file; the clock passes one renewal and one expiry, and the directories of the
earlier run are two at most (three and more are left to the proof). `FailuresInOne` lets the less
usual failures of system calls, of `openat()` and of two `write()`s, happen in the worker that has
one request. In `limit_req` four keys, two of them alike, share a bucket, and a fifth has the text
of one of them in another bucket: four meters for three nodes, which change their key within a
bucket and between buckets. In `listen` four reloads are one more than it takes to open, drop and
open an address again with a failure in between, and the files have each address first, last and
alone. Symmetry is used for safety only.

### Violations

Each is a disagreement between the code and its own text, and can be run with the configuration
kept for it:

| Command | What TLC finds |
|---|---|
| `tlc -config UpstreamMaxIdle.cfg MCUpstream` | `MaxIdleConnections`: the pool keeps `idle_max + 1` connections, one even with 0 ("Max idle connections.", `src/phl_upstream.c:595`) |
| `tlc -config UpstreamErrorPointer.cfg MCUpstream` | `ReleasesConnection`: a retry that cannot connect leaves `PHL_PTR_ERROR` in `ctx->upc`, which is released later, against the assertion of `src/phl_upstream.c:174`. The model goes on with the worker's death and restart (`Crash`) |
| `tlc -config MasterStop.cfg MCMaster` | `QuitStops`: SIGCHLD of the last worker between `waitpid()` and `pause()` leaves the master waiting for ever ("Kill `SIGQUIT` to stop Phorklift", `doc/2.operate.md:20`) |
| `tlc -config DynamicFreed.cfg MCDynamic` | `NotFreedInUse`: a sub-configuration that is replaced or deleted is freed under the requests that use it (`README.md:134-135`) |
| `tlc -config RequestSubrequest.cfg MCRequest` | `SubrequestReturns`: a script that waits in `phl.subrequest()` is resumed by any event of its client, or by flushing the subrequest's buffer, with the part of the response there is |
| `tlc -config ListenClosed.cfg MCListen` | `ListensOn`: after failed reloads, or with an address named twice, the socket of an address in use is closed ("Accepts one or more addresses to listen on.", `doc/4.conf_reference.md:202`) |
| `tlc -config FileCacheCut.cfg MCFileCache` | `MarkedWhole`: a response that was cut off by its content handler is marked as finished |

Other disagreements are part of the models, which do what the code does, but are not run on their
own: a negative weight is accepted and breaks `random()`'s assertion; a client that goes away early
counts as a pass of the address; a check without request string passes before it is connected; the
-1 of a failed `fork()` ends the list of workers early; SIGHUP between the test of the flag and
`pause()` waits for some later signal; "sleep 10 ms to wait new workers start"
(`src/phl_main.c:198`) is ended by any signal, and a new worker that is told to quit too early never
quits; a connection whose response body could not be decoded is pooled with the rest of the body
unread (`src/modules/phl_proxy.c:177`); an upstream that sends its headers bit by bit is never timed
out, as `recv_timeout` starts anew with each; a filter that fails after the response headers were
sent has them sent again; a request that waits for a holder is appended to its list once more by
each event of its client, and a subrequest is while its father's list has it
(`src/phl_dynamic.c:208`); a subrequest that waits for the first resolving of an upstream is not put
into the list of those to be woken (`src/phl_upstream.c:79`); "mark finished"
(`src/modules/phl_file_cache.c:438`) is done also when writing the length failed, and a request that
cannot open a cached file removes it; "Client IP address is used"
(`src/modules/phl_limit_req.c:217`), but two addresses that are equal up to a zero byte may share a
meter, and the shared memory's nodes begin inside the array of buckets (`:178`); an address whose
weight gives it no vnode is never picked, and a pick from a ring without any reads through a null
pointer (`src/loadbalances/phl_upstream_hash.c:107-118`).

### Fairness

A worker's thread goes on until it blocks (`WF` on `Thread`). Every connection in use has a timer,
set when connecting, after the request is written, and again by each read that brings something; the
loop looks at expired timers in every round. So a connection on which a request waits for headers
times out in the end, or is read from for ever: for each connection, `SF` on `HeadersTimeout` or
infinitely many `ReadPart` (`FairSpec` of `Upstream`). Accordingly `HeadersEnd` promises an end of
waiting except from an upstream that sends a bit again and again. Nothing is assumed of clients and
upstreams. The healthcheck's timer repeats and each of its waits has a timeout (`WF` on both). A
pick of the random balancer is a C loop (`WF` on its steps). The master runs until it pauses, and a
worker until it has set its handlers, or has quit once told to (`WF`); signals and crashes need not
happen. The timer of a holder is set when it is made, and once more by a 404, so it does expire
(`WF` on `Timeout` of holders); `get_conf()` need not return. In `Connection` every round of the
loop runs the timers that are due and the deferred routine, also when accepting comes in between
again and again: `SF` for each connection; a worker that passed the test of the limit goes on
(`WF`). `SF` on `SendTimeout` needs a word more, since each attempt to send that leaves data sets
`send_timer` anew, also when it wrote nothing (`src/phl_connection.c:78-82`, `:136`): it assumes
that a request whose client does not read is woken finitely often. What it waits for is an upstream
or a script; once the send buffer is full it reads no more of that, and when the buffers behind it
are full too, no event comes. A script that slept and wrote again and again would be an exception.
In `Resolve` the resolver's thread answers, results expire, and the worker reads replies and runs
its timer (`WF`).

## What is proved

TLAPS proves, for every value of the constants:

- `RandomBalanceProofs`: `TableCorrect` (types; the array is an arrangement of the
  addresses, its hashes are the sums of the weights before them, at every step that
  is not in the middle of an exchange), `SearchCorrect` (with positive weights the
  search's assertion holds), `PromiseKept` (refinement of `Balance`).
  Recursive sums are functions, and lemmas relate neighbouring sums, which is all the
  code's incremental updates need.
- `RandomBalanceProofs`, about `Resolve`: `AddressesHold`, `OneQueryHolds` and `FindsUpHolds`. The
  inductive invariant of all three, `ResolveInv`, adds to `Addresses` and `OneQuery` that a reply on
  its way is sorted and has addresses that the resolver may return, that a round that changed
  something left an address, and that nothing is marked when nothing changed: without it, `Finish`
  could leave marks in the lists. The loops of the merge and of the search are recursive functions
  over the number of steps. That such a function exists at all, and what it keeps, is shown by the
  least number of steps for which it would not (`LeastOf`, from the well-founded order of the
  library; `Runs`), which takes the place of induction. `SortedNumbers` says that sorting by rank
  returns each number once, in order; `MergeMerges` that the merged list is sorted, has what is new
  unmarked and what is gone marked, and keeps every structure that stays; `SearchFinds` that the
  search ends in the ring, at a vnode of the hash if there is one, since the window shrinks in
  each step and never leaves such a vnode outside (`HashWindow`). `RingIs` connects the two:
  what `RingOf` builds, in any of the orders, has all vnodes and is what the search needs.
- `HealthcheckProofs`: `ChecksStop`, `MarksPromptly` and `MarksContinuously`, by the invariant
  that links the counters to the length of the latest run in `history`; `Prompt` and
  `Continuous` are not inductive without it, since they speak of the mark and the history only.
- `UpstreamProofs`: the invariants `PoolHolds`, `OwnershipHolds`, `MarksHold`, `AnswersHold`, and
  the action properties `RetriesElsewhere`, `TrialsAlone`, `RetriesCost`. The inductive
  invariant is the conjunction of a part about the pool (types, ownership seen from the
  connection, idle lists without duplicates holding exactly the idle connections of
  their address, counters, error flags and closed sockets only on connections in use) and a part about
  requests (types, marks, answers, and the bound on retries). Lists
  change by taking the head, removing an element and appending; a lemma for each says
  what stays in the list. Each action is one lemma per part.
- `MasterProofs`: `ServiceHolds`. Until a `fork()` fails, the list has each
  pid once, the processes of a reload are others than those listed and were not told to quit, and
  each place of the list has a worker that may go on, or whose
  death is still to be noticed, or that is being replaced (`Whole`). `FullService` alone is not
  inductive: a worker without handlers passes its SIGQUIT on, and what it passes it on to must not
  be in the list that serves now.
- `MasterProofs`, about `Listen`: `SocketsHold`. `Sockets` says little of a reload that is not
  finished, so `ListenInv` says what an entry's mark means at each point of it: an old entry has the
  mark of this reload if and only if a new one has the same address and descriptor, and what is new
  without a mark has an address that no old entry has (`TakenOver`). Then undoing the reload closes
  only what it opened, and finishing it only what it did not take over.
- `DynamicProofs`: `HoldersHold` and `WaitersAreServed`. The inductive invariant says that
  what the dictionary has for a name is there once and for no other name (`Stored`), and that
  who is in a list waits, for the holder of its name (`Waiters`). The other direction, that who waits
is in a list, is part of it until a list is torn. That only a
  configuration has subs of its own is needed too: otherwise `phl_dynamic_delete()` could keep
  a holder and drop its waiters.
- `ConnectionProofs`: `CountedHolds`, `BoundedHolds`, `UnsentHolds`. Each function that a callback
  goes through has a lemma about the record it works on, and `Becomes` is where the
  connection changes. `Bounded` is inductive because the counter together with the workers
  that passed the test of the limit is bounded. `Unsent` needs `Untimed`: a connection
  without a receive timer that has data to send is in its first request, in the body.
- `ConnectionProofs`, about `LimitReq`: `OwnMeterHolds`. `OwnMeter` is inductive as it stands, since
  it has the whole structure of the table: nodes are in one list once, each of them in the bucket of
  its key and in no other. The lemmas say what taking a part off the list and putting a node at its
  head do to that.
- `FileCacheProofs`: `DescriptorsCorrect`, `HitsCorrect`, `ScanCorrect`, `NoneLeftOverHolds`,
  `KeptHolds`. `CacheInv` says what the place of a request tells of its descriptor (`Opened`)
  and of its file (`Files`); `NewestTwo` is inductive since it speaks of the directories listed
  so far. The last two theorems hold in calm times: then what requests stored has its name in
  the current directory (`OnlyCurrent`), and a request that could still remove a
  finished file was on its way when the file was finished, or failed to open it (`Early`).
- `RequestProofs`: `AuthGateHolds`, `TreeHolds`, `NotForgottenHolds`. For the first, the inductive
  invariant says of each request that the filter chain is beyond auth_request once the request is,
  and was let there by a 200. It speaks of the request alone, so that the calls on the stack and the
  lists, which most steps change, do not matter. For the second they do: `TreeInv` says that each
  living subrequest is in exactly one list (`Lists`), that no request is below a subrequest of its
  own (`Below`), so that whoever releases a subrequest survives it, that what auth_request and a
  thread keep is in their request's list (`Awaited`), and what a call on the stack that walks a list
  may still find there (`Calls`). `WaitInv` adds to it where the innermost call is when a subrequest
  that is waited for has not started or has just finished (`UnderWay`): it is the one that will
  start it or tell its father. With an empty stack nothing of that is left, which is `NotForgotten`.

The proofs use the named assumptions of the modules: `None`, `Failed`, `Old` and the end mark of the
list of workers are no members of the other sets; limits are natural numbers; `PassLimit`, `Num` and
the cache's times are positive; weights are positive where the search is concerned; where something
is counted, the sets are finite (`Pid`, `Worker`, `Conn`, `Sub`, `Name`, what the resolver returns
and the vnodes of an address), and there are more pids than workers. For `Listen`, descriptors are
natural numbers with 0 among them; for `LimitReq`, there is a key, and the burst is not below the
rate; for `Resolve`, hostnames, addresses and hashes are numbers, each address has finitely many
vnodes (`VnodesAssumption`, none included), and `RanksAssumption` says that the orders of `qsort()`
go by the hash.

Only model-checked: liveness (`PickReturns`, `HeadersEnd`, `MarkFollows`, `QuitSettles`,
`WaitingEnds`, `SilentEnds`, `Follows`), which is beyond the prover as it needs
ENABLED; and the violations. Every other property of the runs, that is each invariant, each action
property and the refinement, is stated by a theorem.

## Not modelled

What the table above marks with "no": code that turns text into structures or back,
wrappers of libraries, and modules without state of their own. Bytes are not
modelled, which leaves out some hazards listed in `PROJECT.json` with a note.

## Plan

Modelled by now: the master, listening sockets, the balancers, upstreams with their healthcheck and
resolving, dynamic configurations, requests with subrequests, connections, the file cache and the
request limit. What is left, the riskiest first:

1. The write and read buffers of an upstream: a second partial write overwrites
   `prewrite_len` (`src/phl_upstream.c:310`). It takes a model of the bytes on both sides.
2. HTTP/1: where a request ends in the bytes read, and pipelining, on top of `Connection`; then
   the priorities and windows of `phl_http2.c`, as far as they are not libhttp2's.
3. Host and path matching as operators against the documented order.
4. The slots of the shared statistics while addresses come and go in `Resolve`; `punish` in `LimitReq`.
5. Proofs: the composition of `Upstream` with `Resolve`, which would show that no pick returns an
   address that is freed; that `Pick` of `HashBalance` keeps the promise of `Balance`.
