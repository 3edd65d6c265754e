------------------------------- MODULE Resolve -------------------------------
(***************************************************************************)
(* Resolving of the hostnames of an upstream in one worker,                *)
(* src/src/phl_upstream_resolve.c, together with the resolver that it asks *)
(* (Resolver) and the load balancer that it updates (HashBalance).         *)
(*                                                                         *)
(* Once in a while a timer starts a round, which asks for one hostname     *)
(* after the other.  What a reply no longer contains is only marked; it is *)
(* taken out of the lists at the end of the round, just before the load    *)
(* balancer is updated, and freed at the begin of a later round when no    *)
(* connection is left.  An action is one callback of the event loop.       *)
(*                                                                         *)
(* Ports, weights and the statistics in shared memory are left out.        *)
(***************************************************************************)
EXTENDS Resolver, HashBalance, Functions

CONSTANTS
    Static,     (* hostnames that are addresses and need no resolving      *)
    Fixed,      (* the address of each                                     *)
    MaxHeld     (* bounds the addresses with connections                   *)

(* upstream->hostnames, in their order                                     *)
Name == Host \cup Static

ASSUME ResolveAssumption ==
    /\ Name \subseteq Nat \ {0} /\ IsFiniteSet(Name)
    /\ Host # {} /\ Host \cap Static = {}
    /\ Fixed \in [Static -> Nat] /\ MaxHeld \in Nat

(* The socket addresses that a hostname may have                           *)
Known(n) == IF n \in Host THEN UNION Results[n] ELSE {Fixed[n]}

ASSUME VnodesAssumption ==
    \A n \in Name : \A a \in Known(n) :
        Vnodes[n][a] \subseteq Hash /\ IsFiniteSet(Vnodes[n][a])

(* The orders are by the hash, and say which of two equal ones is first.   *)
ASSUME RanksAssumption ==
    /\ Ranks # {}
    /\ \A rank \in Ranks : \A m, n \in Name : \A a \in Known(m) : \A b \in Known(n) :
        \A g \in Vnodes[m][a] : \A h \in Vnodes[n][b] :
            /\ rank[m][a][g] \in Nat
            /\ g < h => rank[m][a][g] < rank[n][b][h]
            /\ rank[m][a][g] = rank[n][b][h] => m = n /\ a = b /\ g = h

VARIABLES
    index,      (* upstream->resolve_index: 0, or the hostname asked for   *)
    updated,    (* upstream->resolve_updated                               *)
    list,       (* hostname->address_head, with address->resolve_deleted   *)
    dead,       (* upstream->deleted_address_defer                         *)
    held,       (* addresses with active or idle connections               *)
    ring,       (* upstream->lb_ctx                                        *)
    addressNum, (* upstream->address_num                                   *)
    waiting,    (* whether upstream->wait_head has a request               *)
    told        (* history: the last good answer for each hostname         *)

wvars == <<index, updated, list, dead, held, ring, addressNum, waiting, told>>
rwvars == <<rvars, wvars>>

(* An address structure: `gen` tells it from others for the same address.  *)
Structure == [host : Name, name : Nat, gen : Nat]
Entry == [address : Structure, deleted : BOOLEAN]
Structures(l) == {e.address : e \in UNION {Range(l[n]) : n \in Name}}
Allocated == Structures(list) \cup dead
InRing == {v.address : v \in Range(ring)}
WithVnodes(addresses) == {a \in addresses : Vnodes[a.host][a.name] # {}}

Least(numbers) == CHOOSE i \in numbers : \A j \in numbers : i <= j

Added(n, name) ==
    LET new(gen) == [host |-> n, name |-> name, gen |-> gen]
        gen == Least({g \in 0 .. Cardinality(Allocated) : new(g) \notin Allocated})
    IN  [address |-> new(gen), deleted |-> FALSE]

(* phl_upstream_conf_resolve_init(): an upstream of the configuration is   *)
(* resolved at once, a dynamic one, made in a worker, is not.  Both may    *)
(* have static addresses beside.                                           *)
ResolveInit ==
    /\ ResolverInit
    /\ index = 0
    /\ updated = FALSE
    /\ \/ told = [h \in Host |-> {}]
       \/ told = dns /\ \A h \in Host : dns[h] # {}
    /\ \E statics \in SUBSET Static :
        list = [n \in Name |->
                    LET names == IF n \in Host THEN Sorted[told[n]]
                                 ELSE IF n \in statics THEN <<Fixed[n]>> ELSE <<>>
                    IN  [i \in DOMAIN names |->
                            [address |-> [host |-> n, name |-> names[i], gen |-> 0],
                             deleted |-> FALSE]]]
    /\ dead = {}
    /\ held = {}
    /\ \E rank \in Ranks : ring = RingOf(Structures(list), rank)
    /\ addressNum = Cardinality(Structures(list))
    /\ waiting = FALSE

(***************************************************************************)
(* A reply                                                                 *)
(***************************************************************************)
(* slip: the list is taken to be in the opposite order                     *)
IsNewBackwards(m) == m.new # <<>> /\ (m.old # <<>> => Head(m.new) > Head(m.old).address.name)

(* phl_upstream_resolve_on_read(), the diff: one step of its loops, with   *)
(* what is left of the reply and of the list, both sorted.  What is new is *)
(* added before the first that is greater, or at the end.                  *)
IsNew(m) == m.new # <<>> /\ (m.old # <<>> => Head(m.new) < Head(m.old).address.name)
IsGone(m) == m.old # <<>> /\ (m.new # <<>> => Head(m.new) > Head(m.old).address.name)

Diff(n) ==
    [m \in [merged : Seq(Entry), new : Seq(Nat), old : Seq(Entry)] |->
        CASE IsNew(m)  -> [merged |-> Append(m.merged, Added(n, Head(m.new))),
                           new |-> Tail(m.new), old |-> m.old]
          [] IsGone(m) -> [merged |-> Append(m.merged, [Head(m.old) EXCEPT !.deleted = TRUE]),
                           new |-> m.new, old |-> Tail(m.old)]
          [] ~IsNew(m) /\ ~IsGone(m) /\ m.old # <<>> ->
                          [merged |-> Append(m.merged, Head(m.old)),
                           new |-> Tail(m.new), old |-> Tail(m.old)]
          [] OTHER     -> m]

Merge(n, new, old) ==
    LET after[steps \in 0 .. Len(new) + Len(old)] ==
            IF steps = 0 THEN [merged |-> <<>>, new |-> new, old |-> old]
            ELSE Diff(n)[after[steps - 1]]
    IN  after[Len(new) + Len(old)].merged

(* A list without what is marked                                           *)
Unmarked(l) ==
    LET kept == Sorted[{i \in DOMAIN l : ~l[i].deleted}]
    IN  [k \in DOMAIN kept |-> l[kept[k]]]

(* phl_upstream_resolve_hostname(), at the end of a round                  *)
Finish(l, changed) ==
    LET kept == [n \in Name |-> Unmarked(l[n])]
        left == Structures(kept) IN
    /\ index' = 0
    /\ UNCHANGED queries
    /\ IF ~changed
       THEN /\ list' = l /\ updated' = FALSE
            /\ UNCHANGED <<dead, ring, addressNum, waiting>>
       ELSE /\ list' = kept
            /\ dead' = dead \cup (Structures(l) \ left)
            /\ addressNum' = Cardinality(left)
            /\ IF left = {} THEN updated' = TRUE /\ UNCHANGED <<ring, waiting>>
               ELSE /\ updated' = FALSE /\ waiting' = FALSE
                    /\ \E rank \in Ranks : ring' = RingOf(left, rank)

(* phl_upstream_resolve_hostname(): ask for the next hostname              *)
AskNext(l, changed, unfreed) ==
    LET next == {h \in Host : h > index} IN
    IF next = {} THEN Finish(l, changed)
    ELSE /\ index' = Least(next)
         /\ queries' = Append(queries, Least(next))
         /\ list' = l
         /\ updated' = changed
         /\ dead' = unfreed
         /\ UNCHANGED <<ring, addressNum, waiting>>

(* phl_upstream_resolve_on_read(): an "ERROR" changes nothing.             *)
OnRead ==
    /\ replies # <<>>
    /\ LET new == Head(replies) IN
       /\ \E merged \in {IF new = <<>> THEN list[index] ELSE Merge(index, new, list[index])} :
            AskNext([list EXCEPT ![index] = merged], updated \/ merged # list[index], dead)
       /\ told' = [told EXCEPT ![index] = IF new = <<>> THEN @ ELSE Range(new)]
    /\ replies' = Tail(replies)
    /\ UNCHANGED <<dns, cache, expired, changes, lost, held>>

(***************************************************************************)
(* The timer                                                               *)
(***************************************************************************)
(* phl_upstream_address_defer_free(): what is left of `dead`               *)
DeferFree == dead \cap held

(* slip: a round may start while another one waits for its reply           *)
TimerAlways ==
    /\ AskNext(list, updated, DeferFree)
    /\ UNCHANGED <<dns, cache, expired, replies, changes, lost, held, told>>

(* phl_upstream_resolve_timer_handler()                                    *)
Timer ==
    /\ index = 0
    /\ AskNext(list, updated, DeferFree)
    /\ UNCHANGED <<dns, cache, expired, replies, changes, lost, held, told>>

(***************************************************************************)
(* Requests                                                                *)
(***************************************************************************)
(* phl_upstream_get_connection(): nothing to pick from yet                 *)
Wait ==
    /\ addressNum = 0 /\ ~waiting
    /\ waiting' = TRUE
    /\ UNCHANGED <<rvars, index, updated, list, dead, held, ring, addressNum, told>>

(* Any address of the ring may be picked, since any other may be down.  If *)
(* there are addresses but no vnode, the pick reads through a null pointer *)
(* and the worker ends, which is left out.                                 *)
Connect ==
    /\ addressNum # 0
    /\ \E a \in InRing : held' = held \cup {a}
    /\ Cardinality(held') <= MaxHeld
    /\ UNCHANGED <<rvars, index, updated, list, dead, ring, addressNum, waiting, told>>

(* The last connection of an address, active or idle, is closed.           *)
Disconnect ==
    /\ \E a \in held : held' = held \ {a}
    /\ UNCHANGED <<rvars, index, updated, list, dead, ring, addressNum, waiting, told>>

ResolveNext ==
    \/ ResolverNext /\ UNCHANGED wvars
    \/ OnRead \/ Timer \/ Wait \/ Connect \/ Disconnect

(* The event loop runs timers and reads what came.                         *)
ResolveSpec ==
    /\ ResolveInit /\ [][ResolveNext]_rwvars
    /\ ResolverFairness /\ WF_rwvars(OnRead) /\ WF_rwvars(Timer)

(***************************************************************************)
(* Properties                                                              *)
(***************************************************************************)
ResolveTypes ==
    /\ index \in {0} \cup Host
    /\ updated \in BOOLEAN /\ waiting \in BOOLEAN
    /\ DOMAIN list = Name /\ DOMAIN told = Host
    /\ held \subseteq Structure
    /\ addressNum \in Nat /\ lost \in 0 .. MaxLost

(* The merge: the list of a hostname, but for what is marked, is the last  *)
(* good reply, each address once and in the order of the resolver.  Marks  *)
(* are there until the end of the round only, and a dead address is in no  *)
(* list.                                                                   *)
Lists ==
    /\ ResolveTypes
    /\ \A n \in Name :
        /\ \A i, j \in DOMAIN list[n] :
                i < j => list[n][i].address.name < list[n][j].address.name
        /\ n \in Host => told[n] = {e.address.name : e \in {x \in Range(list[n]) : ~x.deleted}}
        /\ \A i \in DOMAIN list[n] : list[n][i].deleted => n < index
    /\ dead \cap Structures(list) = {}

(* Requests are given no address that is out of the lists, nor are those   *)
(* with connections freed, nor do they wait while there is one to give;    *)
(* between rounds the balancer has what the lists have, but for addresses  *)
(* whose weight gives them no vnode.                                       *)
InUse ==
    /\ InRing \subseteq Structures(list)
    /\ held \subseteq Allocated
    /\ Cardinality(InRing) <= addressNum
    /\ index = 0 => /\ InRing = WithVnodes(Structures(list)) /\ ~updated
                    /\ addressNum = Cardinality(Structures(list))

(* The addresses of an upstream (phl_upstream_resolve.c), together.        *)
Addresses == Lists /\ InUse

(* A reply is for the hostname that the round is at, since there is never  *)
(* more than one query on its way; while none is lost, a round is never    *)
(* without one.                                                            *)
OneQuery ==
    /\ Len(queries) + Len(replies) <= IF index = 0 THEN 0 ELSE 1
    /\ queries # <<>> => Head(queries) = index
    /\ lost = 0 /\ index # 0 => queries # <<>> \/ replies # <<>>

(* Whatever is down, a pick finds an address of the ring that is not if    *)
(* there is one.  If the hash of the key is that of a vnode, or of several *)
(* whose addresses are all up, it is one of these.                         *)
FindsUp ==
    ring # <<>> => \A h \in Hash :
        LET found == Search(ring, h) IN
        \A down \in SUBSET InRing :
            LET a == Pick(ring, found, down)
                own == {v.address : v \in {x \in Range(ring) : x.hash = h}} IN
            /\ a \in InRing /\ (a \in down => InRing \subseteq down)
            /\ own # {} /\ own \cap down = {} => a \in own

(* What the DNS says in the end comes to the load balancer, through the    *)
(* results that the resolver keeps, and wakes requests that wait for it.   *)
(* A lost datagram stops it, see the README.                               *)
Follows ==
    <>[](\/ lost > 0
         \/ /\ \A h \in Host :
                 dns[h] # {} => {x \in dns[h] : Vnodes[h][x] # {}} =
                                {a.name : a \in {x \in InRing : x.host = h}}
            /\ waiting => \A h \in Host : dns[h] = {})
===============================================================================
