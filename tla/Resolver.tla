------------------------------- MODULE Resolver -------------------------------
(***************************************************************************)
(* The resolver, src/src/phl_resolver.c: a thread of the master that looks *)
(* up hostnames for all workers and keeps the results for some time.       *)
(*                                                                         *)
(* Queries and replies are datagrams.  One client is followed; the others  *)
(* are seen by what their queries do to the cache.                         *)
(*                                                                         *)
(* Results are sets: getaddrinfo() is taken to return no address twice for *)
(* one type of socket.  The code sorts what it returns and would keep and  *)
(* send on repetitions (src/src/phl_resolver.c:83-90).                     *)
(***************************************************************************)
EXTENDS Sort

CONSTANTS
    Host,           (* the hostnames                                       *)
    Results,        (* what the DNS may know of each hostname: sets of     *)
                    (* addresses, {} if the lookup fails                   *)
    NoResult,       (* not in the cache                                    *)
    MaxChanges,     (* bounds the changes in the DNS                       *)
    MaxLost         (* bounds the lost datagrams                           *)

ASSUME ResolverAssumption ==
    /\ \A h \in Host : NoResult \notin Results[h]
    /\ \A h \in Host : \A r \in Results[h] : r \subseteq Nat /\ IsFiniteSet(r)
    /\ MaxChanges \in Nat /\ MaxLost \in Nat

VARIABLES
    dns,            (* what the DNS knows now                              *)
    cache,          (* phl_resolver_result_cache                           *)
    expired,        (* those in the cache whose expire_at is over          *)
    queries,        (* datagrams of the client                             *)
    replies,        (* datagrams to the client; "ERROR" is <<>>            *)
    changes,        (* changes in the DNS so far                           *)
    lost            (* lost datagrams so far                               *)

rvars == <<dns, cache, expired, queries, replies, changes, lost>>

ResolverInit ==
    /\ dns \in {d \in [Host -> UNION {Results[h] : h \in Host}] :
                    \A h \in Host : d[h] \in Results[h]}
    /\ cache = [h \in Host |-> NoResult]
    /\ expired = {}
    /\ queries = <<>>
    /\ replies = <<>>
    /\ changes = 0
    /\ lost = 0

(* phl_resolver_process(): a result of the cache is taken as it is         *)
Found(h) == IF cache[h] # NoResult THEN cache[h] ELSE dns[h]

(* slip: only a lookup makes the resolver look for expired results         *)
ServeExpiring(h) ==
    /\ cache' = [x \in Host |-> IF cache[h] = NoResult /\ x \in expired THEN NoResult
                                ELSE IF x = h /\ Found(h) # {} THEN Found(h)
                                ELSE cache[x]]
    /\ expired' = IF cache[h] = NoResult THEN {} ELSE expired
    /\ UNCHANGED <<dns, changes, lost>>

(* phl_resolver_routine(): what a query leaves in the cache.  Only after   *)
(* the reply, phl_resolver_expire() removes what is expired.               *)
Serve(h) ==
    /\ cache' = [x \in Host |-> IF x \in expired THEN NoResult
                                ELSE IF x = h /\ Found(h) # {} THEN Found(h)
                                ELSE cache[x]]
    /\ expired' = {}
    /\ UNCHANGED <<dns, changes, lost>>

Reply ==
    /\ queries # <<>>
    /\ queries' = Tail(queries)
    /\ replies' = Append(replies, Sorted[Found(Head(queries))])
    /\ Serve(Head(queries))

(* A query of another worker or of another upstream.                       *)
ServeOther(h) ==
    /\ Serve(h)
    /\ UNCHANGED <<queries, replies>>

(* The time of a result is over.                                           *)
Expires(h) ==
    /\ cache[h] # NoResult
    /\ expired' = expired \cup {h}
    /\ UNCHANGED <<dns, cache, queries, replies, changes, lost>>

DnsChange(h) ==
    /\ changes < MaxChanges
    /\ changes' = changes + 1
    /\ \E r \in Results[h] \ {dns[h]} : dns' = [dns EXCEPT ![h] = r]
    /\ UNCHANGED <<cache, expired, queries, replies, lost>>

(* A datagram is lost: the socket is full, or nobody listens.              *)
LoseQuery ==
    /\ lost < MaxLost /\ queries # <<>>
    /\ queries' = Tail(queries)
    /\ lost' = lost + 1
    /\ UNCHANGED <<dns, cache, expired, replies, changes>>

LoseReply ==
    /\ lost < MaxLost /\ replies # <<>>
    /\ replies' = Tail(replies)
    /\ lost' = lost + 1
    /\ UNCHANGED <<dns, cache, expired, queries, changes>>

ResolverNext ==
    \/ Reply \/ LoseQuery \/ LoseReply
    \/ \E h \in Host : ServeOther(h) \/ Expires(h) \/ DnsChange(h)

(* The thread answers, and time goes on.                                   *)
ResolverFairness == WF_rvars(Reply) /\ \A h \in Host : WF_rvars(Expires(h))
===============================================================================
