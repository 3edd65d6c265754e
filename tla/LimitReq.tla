------------------------------- MODULE LimitReq -------------------------------
(***************************************************************************)
(* The request limit, src/src/modules/phl_limit_req.c: a table of meters   *)
(* in memory that the workers share, one for each key seen of late.        *)
(*                                                                         *)
(* All that touches the table is done under its lock, so that an action is *)
(* a whole request, of whichever worker.  A key is a piece of memory, by   *)
(* default the four bytes of the client's address: its hash is that of all *)
(* its bytes, but strcpy() stores and strcmp() compares it only up to the  *)
(* first zero byte, so that two keys of one bucket may be alike.           *)
(*                                                                         *)
(* The nodes begin where the buckets would end if `struct shared` had no   *)
(* size, so that the last buckets lie inside the first nodes.  What a      *)
(* request with a key of one of those does to the table is not modelled:   *)
(* there are no more requests after it (Spoils).                           *)
(*                                                                         *)
(* The meter is that of libwuya: a new one has counted its first request,  *)
(* as example/modules/limit_req.lua shows; `punish` is left out.           *)
(***************************************************************************)
EXTENDS Naturals, Sequences, Functions

CONSTANTS
    Key,
    Bucket,     (* the bucket of each key: its hash % hash_buckets         *)
    Text,       (* each key up to its first zero byte                      *)
    Inside,     (* the buckets that lie inside the nodes                   *)
    Nodes,      (* how many nodes fit into the shared memory               *)
    Rate,       (* what a meter loses in a unit of time                    *)
    Burst       (* how far it goes                                         *)

ASSUME LimitReqAssumption ==
    /\ Key # {}
    /\ Nodes \in Nat \ {0} /\ Rate \in Nat \ {0} /\ Burst \in Nat /\ Burst >= Rate

Node == 1 .. Nodes
Hashes == {Bucket[k] : k \in Key}

VARIABLES
    bucket,     (* shared->hash_buckets: how often each node is in each    *)
    lru,        (* shared->lru_list, its head first                        *)
    free,       (* shared->free_list                                       *)
    used,       (* the nodes before shared->used_pos                       *)
    key,        (* the key a node was made for; node->key has its Text     *)
    meter,      (* node->meter                                             *)
    spoilt,     (* a request used a bucket that lies inside the nodes      *)
    due,        (* history: what a meter would say, for each key, that     *)
                (* counts the requests with keys that are alike to it      *)
    refused,    (* history: where that was when requests got a 503         *)
    evicted     (* history: a node was taken from a key that needed it     *)

table == <<bucket, lru, free, used, key, meter>>
limitvars == <<table, spoilt, due, refused, evicted>>

LimitInit ==
    /\ bucket = [b \in Hashes |-> [n \in Node |-> 0]]
    /\ lru = <<>>
    /\ free = <<>>
    /\ used = 0
    /\ key = [n \in Node |-> CHOOSE k \in Key : TRUE]
    /\ meter = [n \in Node |-> 0]
    /\ spoilt = FALSE
    /\ due = [k \in Key |-> 0]
    /\ refused = {}
    /\ evicted = FALSE

(* Keys that share a meter                                                 *)
Alike(j, k) == Bucket[j] = Bucket[k] /\ Text[j] = Text[k]

(* The search in the bucket                                                *)
Found(k) == {n \in Node : bucket[Bucket[k]][n] > 0 /\ Text[key[n]] = Text[k]}

Answered(k) ==
    /\ due' = [j \in Key |-> IF Alike(j, k) /\ due[j] < Burst THEN due[j] + 1 ELSE due[j]]
    /\ UNCHANGED refused

(***************************************************************************)
(* phl_limit_req_process_headers(), for a key that has a node              *)
(***************************************************************************)
Passes(k) ==
    \E n \in Found(k) :
        /\ meter[n] < Burst
        /\ meter' = [meter EXCEPT ![n] = @ + 1]
        /\ Answered(k)
        /\ UNCHANGED <<bucket, lru, free, used, key, evicted>>

Limited(k) ==
    \E n \in Found(k) :
        /\ meter[n] >= Burst
        /\ refused' = refused \cup {due[k]}
        /\ UNCHANGED <<table, due, evicted>>

(***************************************************************************)
(* ... and for one that has none                                           *)
(***************************************************************************)
(* phl_limit_req_expire() frees the nodes up to that one, at the head.     *)
Expires(last) ==
    /\ \A i \in 1 .. last : meter[lru[i]] = 0
    /\ last < Len(lru) => meter[lru[last + 1]] # 0

(* The node becomes that of the key, at the head of the list.              *)
Insert(k, n, buckets, list) ==
    /\ key' = [key EXCEPT ![n] = k]
    /\ meter' = [meter EXCEPT ![n] = 1]
    /\ bucket' = [buckets EXCEPT ![Bucket[k]][n] = @ + 1]
    /\ lru' = <<n>> \o list
    /\ Answered(k)

Without(nodes) ==
    [b \in Hashes |-> [n \in Node |-> IF n \in nodes THEN 0 ELSE bucket[b][n]]]

(* phl_limit_req_alloc_node(), after it called phl_limit_req_expire()      *)
FromFree(k) ==
    \E last \in 0 .. Len(lru) :
        LET freed == SubSeq(lru, 1, last)
            list == SubSeq(lru, last + 1, Len(lru)) IN
        /\ Found(k) = {} /\ Expires(last) /\ free \o freed # <<>>
        /\ free' = Tail(free \o freed)
        /\ Insert(k, Head(free \o freed), Without(Range(freed)), list)
        /\ UNCHANGED <<used, evicted>>

FromUnused(k) ==
    /\ Found(k) = {} /\ free = <<>> /\ Expires(0) /\ used < Nodes
    /\ used' = used + 1
    /\ Insert(k, used + 1, bucket, lru)
    /\ UNCHANGED <<free, evicted>>

(* slip: the node stays in the bucket of its former key                    *)
FromListBucket(k) ==
    /\ Found(k) = {} /\ free = <<>> /\ Expires(0) /\ used = Nodes
    /\ Insert(k, Head(lru), bucket, Tail(lru))
    /\ evicted' = TRUE
    /\ UNCHANGED <<free, used>>

(* The head of the list is the node that was added last.  It is deleted    *)
(* from the list a second time after the pop (lines 82 to 84): with its    *)
(* neighbours as the pop left them, this is taken to change nothing.       *)
FromList(k) ==
    /\ Found(k) = {} /\ free = <<>> /\ Expires(0) /\ used = Nodes
    /\ Insert(k, Head(lru), Without({Head(lru)}), Tail(lru))
    /\ evicted' = TRUE
    /\ UNCHANGED <<free, used>>

(* Time goes on, for all meters.                                           *)
Less(m) == IF m > Rate THEN m - Rate ELSE 0

Tick ==
    /\ meter' = [n \in Node |-> Less(meter[n])]
    /\ due' = [k \in Key |-> Less(due[k])]
    /\ UNCHANGED <<bucket, lru, free, used, key, refused, evicted>>

(* A request that searches a bucket whose head is part of a node           *)
Spoils(k) ==
    /\ Bucket[k] \in Inside
    /\ spoilt' = TRUE
    /\ UNCHANGED <<table, due, refused, evicted>>

Asks(k) ==
    /\ Bucket[k] \notin Inside
    /\ Passes(k) \/ Limited(k) \/ FromFree(k) \/ FromUnused(k) \/ FromList(k)
    /\ UNCHANGED spoilt

LimitNext ==
    \/ Tick /\ UNCHANGED spoilt
    \/ ~spoilt /\ \E k \in Key : Asks(k) \/ Spoils(k)

LimitSpec == LimitInit /\ [][LimitNext]_limitvars

(***************************************************************************)
(* Properties                                                              *)
(***************************************************************************)
LimitTypes ==
    /\ bucket \in [Hashes -> [Node -> Nat]]
    /\ lru \in Seq(Node) /\ free \in Seq(Node)
    /\ used \in 0 .. Nodes
    /\ key \in [Node -> Key] /\ meter \in [Node -> 0 .. Burst]
    /\ due \in [Key -> 0 .. Burst]
    /\ evicted \in BOOLEAN

(* A node is free, or in the list and, once, in the bucket of its key; no  *)
(* two are for keys that are alike.                                        *)
Linked ==
    /\ IsInjective(lru \o free)
    /\ Range(lru \o free) = 1 .. used
    /\ \A b \in Hashes : \A n \in Node :
          bucket[b][n] = IF n \in Range(lru) /\ Bucket[key[n]] = b THEN 1 ELSE 0
    /\ \A m, n \in Range(lru) : Alike(key[m], key[n]) => m = n

(* Nodes are taken from one key for another, and yet a request is limited  *)
(* only for requests with its own key or one that is alike: of the same    *)
(* bucket, and the same up to the first zero byte.  While the table is     *)
(* large enough, it is limited exactly as by one meter for those.  All     *)
(* this until a request uses a bucket that lies inside the nodes.          *)
OwnMeter ==
    /\ LimitTypes /\ Linked
    /\ \A n \in Range(lru) : \A k \in Key : Alike(key[n], k) => meter[n] <= due[k]
    /\ refused \subseteq {Burst}
    /\ ~evicted => \A k \in Key :
                      /\ Found(k) = {} => due[k] = 0
                      /\ \A n \in Found(k) : due[k] = meter[n]
===============================================================================
