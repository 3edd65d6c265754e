------------------------------- MODULE Balance -------------------------------
(***************************************************************************)
(* What phorklift's "random" load balancer promises to the upstream code.  *)
(*                                                                         *)
(* The balancer keeps the set of addresses it currently offers.  It may    *)
(* stop offering an address only after it has seen that the address cannot *)
(* be picked, offers an address again only once it is up, and answers a    *)
(* pick with an address that cannot be picked only when nothing is left to *)
(* offer.  RandomBalance, which models the arrays and the binary search of *)
(* the code, is shown to implement this module.                            *)
(***************************************************************************)

CONSTANTS
    Address,    (* the addresses that resolving may ever produce          *)
    NoAddress   (* "nothing picked yet"                                   *)

VARIABLES
    members,    (* the addresses the balancer was last updated with       *)
    offered,    (* those of them it still offers                          *)
    health,     (* what phl_upstream_address_is_pickable() would say      *)
    answer      (* the address of the last finished pick                  *)

bvars == <<members, offered, health, answer>>

(* "up": neither check marks the address down.  "trial": marked down by    *)
(* the failure counter, but its timeout is over and the address is idle,   *)
(* so that it may be tried.  "down": not to be picked.                     *)
Health == {"up", "trial", "down"}
IsPickable(a) == health[a] # "down"

Init ==
    /\ members = {}
    /\ offered = {}
    /\ health = [a \in Address |-> "up"]
    /\ answer = NoAddress

(* The address list changed: forget what was learnt.                       *)
Renew ==
    /\ members' \in SUBSET Address
    /\ offered' = members'
    /\ answer' = NoAddress
    /\ UNCHANGED health

(* Checks, timeouts and filters change the health of an address.           *)
HealthChange ==
    /\ health' \in [Address -> Health]
    /\ UNCHANGED <<members, offered, answer>>

(* An offered address turned out not to be pickable; if it was the last    *)
(* one it may be the answer nevertheless.                                  *)
Drop(a) ==
    /\ a \in offered
    /\ ~ IsPickable(a)
    /\ offered' = offered \ {a}
    /\ \/ answer' = answer
       \/ answer' = a /\ offered' = {}
    /\ UNCHANGED <<members, health>>

(* Answer with an address that may be picked, offering it again if it is   *)
(* up.                                                                     *)
Give(a) ==
    /\ a \in members
    /\ IsPickable(a)
    /\ offered' = IF health[a] = "up" THEN offered \cup {a} ELSE offered
    /\ answer' = a
    /\ UNCHANGED <<members, health>>

(* Answer with an address that may not be picked: nothing else is offered. *)
GiveUp(a) ==
    /\ a \in members
    /\ ~ IsPickable(a)
    /\ offered = {}
    /\ answer' = a
    /\ UNCHANGED <<members, offered, health>>

Next ==
    \/ Renew
    \/ HealthChange
    \/ \E a \in Address : Drop(a) \/ Give(a) \/ GiveUp(a)

Spec == Init /\ [][Next]_bvars
=============================================================================
