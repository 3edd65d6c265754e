---------------------------- MODULE RandomBalance ----------------------------
(***************************************************************************)
(* The "random" load balancer, src/src/loadbalances/phl_upstream_random.c. *)
(*                                                                         *)
(* The balancer keeps an array of addresses, the available ones in front,  *)
(* and beside each the sum of the weights before it, its `hash`.  A pick   *)
(* draws a number below the sum of the weights and finds the address that  *)
(* owns it by binary search; an address that turns out to be down is       *)
(* exchanged with the last available one, one that recovered with the      *)
(* first unavailable one, and the sums between the two are shifted.        *)
(*                                                                         *)
(* The loops of update(), random() and pick() are taken one iteration at a *)
(* time.  Weights are integers (the code has doubles; rounding is left     *)
(* out), so a drawn real number is represented by its integer part: every  *)
(* comparison of the search is with an integer sum.                        *)
(***************************************************************************)
EXTENDS Integers

CONSTANTS
    Address,    (* the addresses that resolving may ever produce           *)
    NoAddress,  (* the NULL pointer                                        *)
    Weight,     (* hostname weight of each address                         *)
    Capacity    (* bound on the length of the array: number of addresses   *)

(* phl_upstream_conf_resolve_init() refuses a weight of 0, and nothing     *)
(* else.                                                                   *)
ASSUME WeightAssumption == Weight \in [Address -> Int \ {0}]
ASSUME CapacityAssumption == Capacity \in Nat
ASSUME NoAddressAssumption == NoAddress \notin Address

VARIABLES
    members,    (* upstream->address_head at the last update               *)
    health,     (* what address_is_pickable() would say of each address    *)
    slot,       (* ctx->addresses[i].address                               *)
    hash,       (* ctx->addresses[i].hash                                  *)
    total,      (* ctx->total_num                                          *)
    available,  (* ctx->available_num                                      *)
    pc,         (* "idle", or the loop that is running                     *)
    todo,       (* update(): the addresses not yet iterated                *)
    among,      (* pick(): which addresses the number was drawn among      *)
    limit,      (* random(): the number of addresses to pick from          *)
    draw,       (* random(): the number drawn                              *)
    low, high,  (* random(): the window of the binary search               *)
    answer      (* the address that the last pick returned                 *)

search == <<among, limit, draw, low, high>>
table  == <<slot, hash, total, available>>
vars   == <<members, health, table, pc, todo, search, answer>>

Index == 0 .. Capacity

(* "up": failure.down_time and healthcheck.down_time are 0.  "trial": down *)
(* by failure.down_time, but pickable.  "down": not pickable.              *)
Health == {"up", "trial", "down"}
IsPickable(a) == health[a] # "down"

Init ==
    /\ members = {}
    /\ health = [a \in Address |-> "up"]
    /\ slot = [i \in Index |-> NoAddress]
    /\ hash = [i \in Index |-> 0]
    /\ total = 0
    /\ available = 0
    /\ pc = "idle"
    /\ todo = {}
    /\ among = "all"
    /\ limit = 0
    /\ draw = 0
    /\ low = 0
    /\ high = 0
    /\ answer = NoAddress

(***************************************************************************)
(* update(): rebuild the array from the address list.  A pick cannot       *)
(* happen before the loop is over: everything runs in one thread.          *)
(***************************************************************************)
UpdateBegin ==
    /\ pc = "idle"
    /\ members' \in SUBSET Address
    /\ todo' = members'
    /\ total' = 0
    /\ available' = 0
    /\ hash' = [hash EXCEPT ![0] = 0]
    /\ pc' = "update"
    /\ answer' = NoAddress
    /\ UNCHANGED <<health, slot, search>>

UpdateStep(a) ==
    /\ pc = "update"
    /\ a \in todo
    /\ total < Capacity
    /\ todo' = todo \ {a}
    /\ slot' = [slot EXCEPT ![total] = a]
    /\ hash' = [hash EXCEPT ![total + 1] = hash[total] + Weight[a]]
    /\ total' = total + 1
    /\ available' = total + 1
    /\ UNCHANGED <<members, health, pc, search, answer>>

UpdateEnd ==
    /\ pc = "update"
    /\ todo = {}
    /\ pc' = "idle"
    /\ UNCHANGED <<members, health, table, todo, search, answer>>

(***************************************************************************)
(* exchange(): the two addresses change places, and the sums between them  *)
(* shift by the difference of their weights.                               *)
(***************************************************************************)
ExchangeShortShift(i, j) ==  (* slip: the last of the sums is not shifted *)
    LET diff == Weight[slot[j]] - Weight[slot[i]]
    IN  /\ slot' = [slot EXCEPT ![i] = slot[j], ![j] = slot[i]]
        /\ hash' = [k \in Index |-> IF i < k /\ k < j THEN hash[k] + diff ELSE hash[k]]

Exchange(i, j) ==
    LET diff == Weight[slot[j]] - Weight[slot[i]]
    IN  /\ slot' = [slot EXCEPT ![i] = slot[j], ![j] = slot[i]]
        /\ hash' = [k \in Index |-> IF i < k /\ k <= j
                                    THEN hash[k] + diff
                                    ELSE hash[k]]

ExpireInPlace(i) ==  (* slip: the boundary moves, the address stays *)
    /\ available' = available - 1
    /\ UNCHANGED <<slot, hash, total>>

ExpireNothing(i) ==  (* slip: the address moves, the boundary stays *)
    /\ Exchange(i, available - 1)
    /\ UNCHANGED <<available, total>>

(* expire(): exchange with the last available address.                     *)
Expire(i) ==
    /\ Exchange(i, available - 1)
    /\ available' = available - 1
    /\ UNCHANGED total

(* recover(): exchange with the first unavailable address.                 *)
Recover(i) ==
    /\ Exchange(available, i)
    /\ available' = available + 1
    /\ UNCHANGED total

(***************************************************************************)
(* random(): a number in [0, hash[n]) and the search for its owner.        *)
(***************************************************************************)
Draws(n) == IF hash'[n] > 0 THEN 0 .. hash'[n] - 1 ELSE hash'[n] .. 0

Random(n) ==
    /\ pc' = "search"
    /\ limit' = n
    /\ draw' \in Draws(n)
    /\ low' = 0
    /\ high' = n - 1

Middle == (low + high) \div 2

SearchRight ==
    /\ pc = "search"
    /\ low <= high
    /\ draw >= hash[Middle + 1]
    /\ low' = Middle + 1
    /\ UNCHANGED <<members, health, table, pc, todo, among, limit, draw, high, answer>>

SearchLeft ==
    /\ pc = "search"
    /\ low <= high
    /\ draw < hash[Middle + 1]
    /\ draw < hash[Middle]
    /\ high' = Middle - 1
    /\ UNCHANGED <<members, health, table, pc, todo, among, limit, draw, low, answer>>

(* The search is over: the number belongs to the address in the middle.    *)
IsFound ==
    /\ pc = "search"
    /\ low <= high
    /\ hash[Middle] <= draw
    /\ draw < hash[Middle + 1]

(***************************************************************************)
(* pick()                                                                  *)
(***************************************************************************)
PickBegin ==
    /\ pc = "idle"
    /\ total > 0
    /\ among' = "all"
    /\ UNCHANGED <<members, health, table, todo, answer>>
    /\ Random(total)

(* The result of pick(); the locals of random() are gone.                  *)
Return(a) ==
    /\ answer' = a
    /\ pc' = "idle"
    /\ among' = "all"
    /\ limit' = 0
    /\ draw' = 0
    /\ low' = 0
    /\ high' = 0

RetryUnchecked(a, n) ==  (* slip: draw from no address at all *)
    /\ among' = "available"
    /\ Random(n)
    /\ UNCHANGED answer

(* The label `retry`, reached with `a` picked and n addresses available.   *)
Retry(a, n) ==
    IF n = 0
    THEN Return(a)
    ELSE /\ among' = "available"
         /\ Random(n)
         /\ UNCHANGED answer

(* The first draw hit an unavailable address that is up again.             *)
PickRecover ==
    /\ IsFound
    /\ among = "all" /\ Middle >= available
    /\ health[slot[Middle]] = "up"
    /\ Recover(Middle)
    /\ Return(slot[Middle])
    /\ UNCHANGED <<members, health, todo>>

(* The address found may be picked.                                        *)
PickPickable ==
    /\ IsFound
    /\ IF among = "available" \/ Middle < available
       THEN IsPickable(slot[Middle])
       ELSE health[slot[Middle]] = "trial"
    /\ Return(slot[Middle])
    /\ UNCHANGED <<members, health, table, todo>>

(* The first draw hit an unavailable address: draw from the others.        *)
PickUnavailable ==
    /\ IsFound
    /\ among = "all" /\ Middle >= available
    /\ ~IsPickable(slot[Middle])
    /\ UNCHANGED <<members, health, table, todo>>
    /\ Retry(slot[Middle], available)

(* An available address is found to be down.                               *)
PickExpire ==
    /\ IsFound
    /\ among = "available" \/ Middle < available
    /\ ~IsPickable(slot[Middle])
    /\ Expire(Middle)
    /\ UNCHANGED <<members, health, todo>>
    /\ Retry(slot[Middle], available - 1)

(* Checks, timeouts and failure.filter change what is pickable, between    *)
(* two picks.                                                              *)
HealthChange(a, h) ==
    /\ pc = "idle"
    /\ h # health[a]
    /\ health' = [health EXCEPT ![a] = h]
    /\ UNCHANGED <<members, table, pc, todo, search, answer>>

Next ==
    \/ UpdateBegin
    \/ \E a \in Address : UpdateStep(a)
    \/ UpdateEnd
    \/ PickBegin
    \/ SearchRight \/ SearchLeft
    \/ PickRecover \/ PickPickable \/ PickUnavailable \/ PickExpire
    \/ \E a \in Address, h \in Health : HealthChange(a, h)

Spec == Init /\ [][Next]_vars

(* A loop of the thread runs to its end: nothing else runs meanwhile.      *)
Fairness ==
    /\ WF_vars(\E a \in Address : UpdateStep(a))
    /\ WF_vars(UpdateEnd)
    /\ WF_vars(SearchRight \/ SearchLeft)
    /\ WF_vars(PickRecover \/ PickPickable \/ PickUnavailable \/ PickExpire)

FairSpec == Spec /\ Fairness

-----------------------------------------------------------------------------
(* Types of the variables, and the bounds of the array accesses.           *)
TypeOK ==
    /\ members \in SUBSET Address
    /\ todo \in SUBSET members
    /\ health \in [Address -> Health]
    /\ slot \in [Index -> Address \cup {NoAddress}]
    /\ hash \in [Index -> Int]
    /\ total \in Index
    /\ available \in 0 .. total
    /\ pc \in {"idle", "update", "search"}
    /\ among \in {"all", "available"}
    /\ limit \in 0 .. total
    /\ draw \in Int
    /\ low \in 0 .. total
    /\ high \in -1 .. total
    /\ answer \in Address \cup {NoAddress}

(* Exchanges lose no address and list none twice: what the array holds and *)
(* what update() has still to append make up the address list.             *)
Arrangement ==
    /\ \A i \in 0 .. total - 1 : slot[i] \in members \ todo
    /\ \A i, j \in 0 .. total - 1 : slot[i] = slot[j] => i = j
    /\ \A a \in members \ todo : \E i \in 0 .. total - 1 : slot[i] = a

(* However often addresses were exchanged, `hash` holds the sums of the    *)
(* weights before each address, so that each is drawn by its weight.       *)
Sums ==
    /\ hash[0] = 0
    /\ \A i \in 0 .. total - 1 : hash[i + 1] = hash[i] + Weight[slot[i]]

(* All that the array has to keep up through exchanges (the swaps of       *)
(* phl_upstream_random_exchange()): bounds, addresses and sums.            *)
Table == TypeOK /\ Arrangement /\ Sums

(* assert(low <= high && mid >= 0), phl_upstream_random.c:109.             *)
SearchSucceeds == pc = "search" => low <= high

(* Every pick returns: the label `retry` is not passed for ever.           *)
PickReturns == pc = "search" ~> pc = "idle"

(* The array implements the balancer's promise: an address leaves the      *)
(* available part only when it is down, and a pick answers with a down     *)
(* address only when that part is empty.                                   *)
Offered ==
    IF pc = "update" THEN members ELSE {slot[i] : i \in 0 .. available - 1}

Promise == INSTANCE Balance WITH offered <- Offered

KeepsPromise == Promise!Spec
=============================================================================
