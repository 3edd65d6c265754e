----------------------------- MODULE HashBalance -----------------------------
(***************************************************************************)
(* The "hash" load balancer, src/src/loadbalances/phl_upstream_hash.c, as  *)
(* operators: the ring that an update builds, and the address that a pick  *)
(* finds in it.  Resolve keeps the ring and updates it.                    *)
(*                                                                         *)
(* Hashes are numbers.  Those of the vnodes of one address are different;  *)
(* those of two addresses may be equal, as they all are if two hostnames   *)
(* have one socket address, and then qsort() leaves either in front.       *)
(***************************************************************************)
EXTENDS Sort

CONSTANTS
    Hash,       (* what wuy_vhash64() may return                           *)
    Vnodes,     (* the hashes of the vnodes of a socket address of a       *)
                (* hostname: as many as address_vnodes and its weight      *)
                (* give, which may be none                                 *)
    Ranks       (* the orders that qsort() may put them in: the rank of a  *)
                (* vnode, by hostname, socket address and hash             *)

ASSUME HashAssumption == Hash \subseteq Nat

(* phl_upstream_hash_update(): the vnodes of the addresses ...             *)
VnodesOf(addresses) ==
    UNION {{[hash |-> h, address |-> a] : h \in Vnodes[a.host][a.name]} : a \in addresses}

(* ... sorted                                                              *)
RankOf(rank, v) == rank[v.address.host][v.address.name][v.hash]

RingOf(addresses, rank) ==
    LET vnodes == VnodesOf(addresses)
        order == Sorted[{RankOf(rank, v) : v \in vnodes}]
    IN  [i \in DOMAIN order |-> CHOOSE v \in vnodes : RankOf(rank, v) = order[i]]

(* phl_upstream_hash_pick(), the binary search: where it looks next, or    *)
(* where it has ended                                                      *)
Mid(w) == (w.low + w.high) \div 2

Narrow(ring, h) ==
    [w \in [low : Nat, high : Nat] |->
        CASE ring[Mid(w)].hash < h /\ Mid(w) < w.high ->
                [w EXCEPT !.low = Mid(w) + 1]
          [] ring[Mid(w)].hash > h /\ w.low < Mid(w) ->
                [w EXCEPT !.high = Mid(w) - 1]
          [] OTHER -> w]

(* The vnode it looks at last need not be the next one on the ring.        *)
Search(ring, h) ==
    LET window[steps \in 0 .. Len(ring)] ==
            IF steps = 0 THEN [low |-> 1, high |-> Len(ring)]
            ELSE Narrow(ring, h)[window[steps - 1]]
    IN  Mid(window[Len(ring)])

(* slip: the scan ends where the array does                                *)
PickOnwards(ring, found, down) ==
    LET up == {i \in found .. Len(ring) : ring[i].address \notin down}
    IN  ring[IF up = {} THEN found ELSE CHOOSE i \in up : \A j \in up : i <= j].address

(* phl_upstream_hash_pick(), the scan: the first address that is up from   *)
(* there on, and from the begin on, or else the one that was found         *)
Pick(ring, found, down) ==
    LET ahead == {i \in found .. Len(ring) : ring[i].address \notin down}
        up == IF ahead # {} THEN ahead ELSE {i \in 1 .. found : ring[i].address \notin down}
    IN  ring[IF up = {} THEN found ELSE CHOOSE i \in up : \A j \in up : i <= j].address
===============================================================================
