------------------------- MODULE RandomBalanceProofs -------------------------
(***************************************************************************)
(* Proofs about the random load balancer, for every set of addresses and   *)
(* every capacity; the search and the promise for every assignment of      *)
(* positive weights.                                                       *)
(*                                                                         *)
(* Then proofs about Resolve, for all hostnames and results, and for every *)
(* assignment of hashes without a collision: the merge of a reply into a   *)
(* list, the ring that is built of the lists, and the search in it.  What  *)
(* makes them inductive is ResolveInv, and that the ring is sorted.        *)
(***************************************************************************)
EXTENDS RandomBalance, Resolve, FiniteSetTheorems, SequenceTheorems,
    WellFoundedInduction, TLAPS

(* Where the loops are: update() fills the array from the front with all   *)
(* of it available, and the search stays inside the part it draws from.    *)
Loops ==
    /\ pc = "update" => available = total
    /\ pc # "update" => todo = {}
    /\ pc # "search" => limit = 0 /\ low = 0 /\ high = 0
    /\ pc = "search" => /\ limit > 0
                        /\ low <= limit
                        /\ high < limit
                        /\ among = "available" => limit = available

TableInv == TypeOK /\ Loops /\ Arrangement /\ Sums

-----------------------------------------------------------------------------
(* The middle of a window lies in it.                                      *)
LEMMA MiddleInWindow ==
    ASSUME TypeOK, low <= high
    PROVE  Middle \in Int /\ low <= Middle /\ Middle <= high
BY DEF TypeOK, Middle, Index

(* A search that has an address in the middle looks inside the array.      *)
LEMMA MiddleInTable ==
    ASSUME TypeOK, Loops, Arrangement, pc = "search", low <= high
    PROVE  /\ Middle \in 0 .. total - 1
           /\ Middle + 1 \in 1 .. limit
           /\ slot[Middle] \in members
           /\ slot[Middle] \in Address
<1>1. Middle \in Int /\ low <= Middle /\ Middle <= high
  BY MiddleInWindow
<1>2. Middle \in 0 .. total - 1 /\ Middle + 1 \in 1 .. limit
  BY <1>1, CapacityAssumption DEF TypeOK, Loops, Index
<1>3. slot[Middle] \in members
  BY <1>2 DEF Arrangement
<1>4. QED
  BY <1>2, <1>3 DEF TypeOK

(* Exchanging two addresses keeps the array an arrangement of the same     *)
(* addresses, and its sums right.                                          *)
LEMMA ExchangeKeepsTable ==
    ASSUME TypeOK, Arrangement, Sums, todo' = todo, members' = members,
           total' = total,
           NEW i \in 0 .. total - 1, NEW j \in 0 .. total - 1, i <= j,
           Exchange(i, j)
    PROVE  /\ Arrangement'
           /\ Sums'
           /\ slot' \in [Index -> Address \cup {NoAddress}]
           /\ hash' \in [Index -> Int]
<1> DEFINE diff == Weight[slot[j]] - Weight[slot[i]]
<1>1. /\ slot[i] \in Address
      /\ slot[j] \in Address
      /\ i \in Index
      /\ j \in Index
      /\ 0 .. total - 1 \subseteq Index
      /\ \A k \in 0 .. total - 1 : k + 1 \in Index
  BY CapacityAssumption DEF TypeOK, Arrangement, Index
<1>2. diff \in Int
  BY <1>1, WeightAssumption
<1>3. \A k \in Index : slot'[k] = IF k = i THEN slot[j]
                                  ELSE IF k = j THEN slot[i] ELSE slot[k]
  BY <1>1 DEF Exchange, TypeOK
<1>4. \A k \in Index : hash'[k] = IF i < k /\ k <= j THEN hash[k] + diff ELSE hash[k]
  BY DEF Exchange
<1>5. slot' \in [Index -> Address \cup {NoAddress}]
  BY <1>1 DEF Exchange, TypeOK
<1>6. hash' \in [Index -> Int]
  BY <1>2 DEF Exchange, TypeOK
<1>7. Arrangement'
  <2>1. \A k \in 0 .. total - 1 : slot'[k] \in members \ todo
    BY <1>1, <1>3 DEF Arrangement
  <2>2. ASSUME NEW k \in 0 .. total - 1, NEW l \in 0 .. total - 1, slot'[k] = slot'[l]
        PROVE  k = l
    BY <1>1, <1>3, <2>2 DEF Arrangement
  <2>3. ASSUME NEW a \in members \ todo
        PROVE  \E k \in 0 .. total - 1 : slot'[k] = a
    <3>1. PICK k \in 0 .. total - 1 : slot[k] = a
      BY DEF Arrangement
    <3>2. CASE k = i
      BY <1>1, <1>3, <3>1, <3>2
    <3>3. CASE k = j
      BY <1>1, <1>3, <3>1, <3>3
    <3>4. CASE k # i /\ k # j
      BY <1>1, <1>3, <3>1, <3>4
    <3>5. QED
      BY <3>2, <3>3, <3>4
  <2>4. QED
    BY <2>1, <2>2, <2>3 DEF Arrangement
<1>8. Sums'
  <2>1. hash'[0] = 0
    BY <1>4, CapacityAssumption DEF Sums, Index
  <2>2. ASSUME NEW k \in 0 .. total - 1
        PROVE  hash'[k + 1] = hash'[k] + Weight[slot'[k]]
    <3>1. /\ hash[k + 1] = hash[k] + Weight[slot[k]]
          /\ hash[k] \in Int
          /\ hash[k + 1] \in Int
          /\ slot[k] \in Address
      BY <1>1 DEF Sums, TypeOK, Arrangement
    <3>2. Weight[slot[k]] \in Int /\ Weight[slot[i]] \in Int /\ Weight[slot[j]] \in Int
      BY <1>1, <3>1, WeightAssumption
    <3>3. CASE i = j
      BY <1>1, <1>2, <1>3, <1>4, <3>1, <3>2, <3>3
    <3>4. CASE i < j /\ k = i
      BY <1>1, <1>2, <1>3, <1>4, <3>1, <3>2, <3>4
    <3>5. CASE i < j /\ k = j
      BY <1>1, <1>2, <1>3, <1>4, <3>1, <3>2, <3>5
    <3>6. CASE i < j /\ k # i /\ k # j
      <4>1. slot'[k] = slot[k]
        BY <1>1, <1>3, <3>6
      <4>2. (i < k /\ k <= j) <=> (i < k + 1 /\ k + 1 <= j)
        BY <3>6, <1>1 DEF Index
      <4>3. QED
        BY <1>1, <1>2, <1>4, <3>1, <3>2, <4>1, <4>2
    <3>7. QED
      BY <3>3, <3>4, <3>5, <3>6
  <2>3. QED
    BY <2>1, <2>2 DEF Sums
<1>9. QED
  BY <1>5, <1>6, <1>7, <1>8

-----------------------------------------------------------------------------
(* Starting a search among n of the addresses.                             *)
LEMMA RandomStarts ==
    ASSUME TypeOK, NEW n \in 1 .. total, total' = total,
           hash' \in [Index -> Int], Random(n)
    PROVE  /\ pc' = "search"
           /\ limit' = n
           /\ draw' \in Int
           /\ low' = 0
           /\ high' = n - 1
BY CapacityAssumption DEF Random, Draws, TypeOK, Index

LEMMA TableInit == Init => TableInv
<1> SUFFICES ASSUME Init
             PROVE  TableInv
  OBVIOUS
<1>1. slot \in [Index -> Address \cup {NoAddress}] /\ hash \in [Index -> Int] /\ hash[0] = 0
  BY CapacityAssumption DEF Init, Index
<1>2. health \in [Address -> Health]
  BY DEF Init, Health
<1>3. TypeOK
  BY <1>1, <1>2, CapacityAssumption DEF Init, TypeOK, Index
<1>4. Loops /\ Arrangement /\ Sums
  BY <1>1 DEF Init, Loops, Arrangement, Sums
<1>5. QED
  BY <1>3, <1>4 DEF TableInv

(* One iteration of update() appends one address and its sum.              *)
LEMMA UpdateStepKeepsTable ==
    ASSUME TableInv, NEW a \in Address, UpdateStep(a)
    PROVE  TableInv'
<1> USE DEF TableInv
<1>1. /\ total \in Nat
      /\ total + 1 \in Index
      /\ total' = total + 1
      /\ 0 .. total' - 1 = (0 .. total - 1) \cup {total}
      /\ a \in members
      /\ todo' = todo \ {a}
      /\ members' = members
  BY CapacityAssumption DEF UpdateStep, TypeOK, Index
<1>2. /\ \A i \in 0 .. total - 1 : slot'[i] = slot[i]
      /\ slot'[total] = a
  BY <1>1, CapacityAssumption DEF UpdateStep, TypeOK, Index
<1>3. /\ \A i \in 0 .. total : hash'[i] = hash[i]
      /\ hash'[total + 1] = hash[total] + Weight[a]
  BY <1>1, CapacityAssumption DEF UpdateStep, TypeOK, Index
<1>4. TypeOK'
  <2>1. hash' \in [Index -> Int] /\ slot' \in [Index -> Address \cup {NoAddress}]
    BY <1>1, WeightAssumption, CapacityAssumption DEF UpdateStep, TypeOK, Index
  <2>2. QED
    BY <2>1, <1>1, CapacityAssumption DEF UpdateStep, TypeOK, Index, search
<1>5. Loops'
  BY DEF UpdateStep, Loops, search
<1>6. Arrangement'
  <2>1. members' \ todo' = (members \ todo) \cup {a} /\ a \notin members \ todo
    BY <1>1 DEF UpdateStep
  <2>2. \A i \in 0 .. total' - 1 : slot'[i] \in members' \ todo'
    BY <1>1, <1>2, <2>1 DEF Arrangement
  <2>3. ASSUME NEW i \in 0 .. total' - 1, NEW j \in 0 .. total' - 1, slot'[i] = slot'[j]
        PROVE  i = j
    <3>1. CASE i = total
      BY <1>1, <1>2, <2>1, <2>3, <3>1 DEF Arrangement
    <3>2. CASE j = total
      BY <1>1, <1>2, <2>1, <2>3, <3>2 DEF Arrangement
    <3>3. CASE i # total /\ j # total
      BY <1>1, <1>2, <2>3, <3>3 DEF Arrangement
    <3>4. QED
      BY <3>1, <3>2, <3>3
  <2>4. ASSUME NEW b \in members' \ todo'
        PROVE  \E i \in 0 .. total' - 1 : slot'[i] = b
    BY <1>1, <1>2, <2>1 DEF Arrangement
  <2>5. QED
    BY <2>2, <2>3, <2>4 DEF Arrangement
<1>7. Sums'
  <2>1. \A i \in 0 .. total - 1 : hash'[i + 1] = hash'[i] + Weight[slot'[i]]
    BY <1>1, <1>2, <1>3 DEF Sums
  <2>2. hash'[0] = 0
    BY <1>1, <1>3 DEF Sums
  <2>3. hash'[total + 1] = hash'[total] + Weight[slot'[total]]
    BY <1>1, <1>2, <1>3
  <2>4. QED
    BY <1>1, <2>1, <2>2, <2>3 DEF Sums
<1>8. QED
  BY <1>4, <1>5, <1>6, <1>7

(* Expiring and recovering keep the table and move the boundary by one.    *)
LEMMA ExpireKeepsTable ==
    ASSUME TableInv, NEW i \in 0 .. available - 1, Expire(i),
           todo' = todo, members' = members
    PROVE  /\ Arrangement'
           /\ Sums'
           /\ slot' \in [Index -> Address \cup {NoAddress}]
           /\ hash' \in [Index -> Int]
           /\ total' = total
           /\ available' \in 0 .. total'
           /\ available' = available - 1
<1>1. available - 1 \in 0 .. total - 1 /\ i \in 0 .. total - 1 /\ i <= available - 1
  BY CapacityAssumption DEF TableInv, TypeOK, Index
<1>2. /\ Exchange(i, available - 1)
      /\ total' = total
      /\ available' = available - 1
  BY DEF Expire
<1>3. /\ Arrangement' /\ Sums'
      /\ slot' \in [Index -> Address \cup {NoAddress}] /\ hash' \in [Index -> Int]
  BY <1>1, <1>2, ExchangeKeepsTable DEF TableInv
<1>4. available' \in 0 .. total'
  BY <1>1, <1>2, CapacityAssumption DEF TableInv, TypeOK, Index
<1>5. QED
  BY <1>2, <1>3, <1>4

LEMMA RecoverKeepsTable ==
    ASSUME TableInv, NEW i \in available .. total - 1, Recover(i),
           todo' = todo, members' = members
    PROVE  /\ Arrangement'
           /\ Sums'
           /\ slot' \in [Index -> Address \cup {NoAddress}]
           /\ hash' \in [Index -> Int]
           /\ total' = total
           /\ available' \in 0 .. total'
<1>1. available \in 0 .. total - 1 /\ i \in 0 .. total - 1 /\ available <= i
  BY CapacityAssumption DEF TableInv, TypeOK, Index
<1>2. /\ Exchange(available, i)
      /\ total' = total
      /\ available' = available + 1
  BY DEF Recover
<1>3. /\ Arrangement' /\ Sums'
      /\ slot' \in [Index -> Address \cup {NoAddress}] /\ hash' \in [Index -> Int]
  BY <1>1, <1>2, ExchangeKeepsTable DEF TableInv
<1>4. available' \in 0 .. total'
  BY <1>1, <1>2, CapacityAssumption DEF TableInv, TypeOK, Index
<1>5. QED
  BY <1>2, <1>3, <1>4

LEMMA TableNext == TableInv /\ [Next]_vars => TableInv'
<1> SUFFICES ASSUME TableInv, [Next]_vars
             PROVE  TableInv'
  OBVIOUS
<1> USE DEF TableInv
<1>1. CASE UpdateBegin
  <2>1. TypeOK'
    <3>1. hash' \in [Index -> Int]
      BY <1>1, CapacityAssumption DEF UpdateBegin, TypeOK, Index
    <3>2. limit' = 0 /\ low' = 0 /\ high' = 0
      BY <1>1 DEF UpdateBegin, Loops, search
    <3>3. QED
      BY <1>1, <3>1, <3>2, CapacityAssumption DEF UpdateBegin, TypeOK, Index, search
  <2>2. Loops' /\ Arrangement'
    BY <1>1 DEF UpdateBegin, Loops, Arrangement, search
  <2>3. Sums'
    BY <1>1, CapacityAssumption DEF UpdateBegin, Sums, TypeOK, Index
  <2>4. QED
    BY <2>1, <2>2, <2>3
<1>2. ASSUME NEW a \in Address, UpdateStep(a)
      PROVE  TableInv'
  BY <1>2, UpdateStepKeepsTable
<1>3. CASE UpdateEnd
  BY <1>3 DEF UpdateEnd, TypeOK, Loops, Arrangement, Sums, table, search
<1>4. CASE PickBegin
  <2>1. total \in 1 .. total /\ hash' \in [Index -> Int] /\ total' = total
    BY <1>4, CapacityAssumption DEF PickBegin, TypeOK, Index, table
  <2>2. /\ pc' = "search" /\ limit' = total /\ draw' \in Int
        /\ low' = 0 /\ high' = total - 1
    BY <1>4, <2>1, RandomStarts DEF PickBegin
  <2>3. QED
    BY <1>4, <2>1, <2>2, CapacityAssumption
       DEF PickBegin, TypeOK, Loops, Arrangement, Sums, table, Index
<1>5. CASE SearchRight
  <2>1. Middle \in Int /\ low <= Middle /\ Middle <= high
    BY <1>5, MiddleInWindow DEF SearchRight
  <2>2. QED
    BY <1>5, <2>1, CapacityAssumption
       DEF SearchRight, TypeOK, Loops, Arrangement, Sums, table, Index
<1>6. CASE SearchLeft
  <2>1. Middle \in Int /\ low <= Middle /\ Middle <= high
    BY <1>6, MiddleInWindow DEF SearchLeft
  <2>2. QED
    BY <1>6, <2>1, CapacityAssumption
       DEF SearchLeft, TypeOK, Loops, Arrangement, Sums, table, Index
<1>7. ASSUME IsFound
      PROVE  /\ Middle \in 0 .. total - 1
             /\ slot[Middle] \in Address
             /\ (among = "available" \/ Middle < available) => Middle \in 0 .. available - 1
             /\ among = "all" /\ Middle >= available => Middle \in available .. total - 1
  <2>1. Middle \in 0 .. total - 1 /\ Middle + 1 \in 1 .. limit /\ slot[Middle] \in Address
    BY <1>7, MiddleInTable DEF IsFound
  <2>2. QED
    BY <1>7, <2>1, CapacityAssumption DEF IsFound, Loops, TypeOK, Index
<1>8. CASE PickRecover
  <2>1. /\ Arrangement' /\ Sums' /\ total' = total /\ available' \in 0 .. total'
        /\ slot' \in [Index -> Address \cup {NoAddress}] /\ hash' \in [Index -> Int]
    BY <1>7, <1>8, RecoverKeepsTable DEF PickRecover
  <2>2. /\ pc' = "idle" /\ limit' = 0 /\ low' = 0 /\ high' = 0 /\ draw' = 0
        /\ among' = "all" /\ answer' = slot[Middle] /\ slot[Middle] \in Address
        /\ UNCHANGED <<members, health, todo>>
    BY <1>7, <1>8 DEF PickRecover, Return
  <2>3. TypeOK'
    BY <2>1, <2>2, CapacityAssumption DEF TypeOK, Index
  <2>4. Loops'
    BY <1>8, <2>2 DEF Loops, PickRecover, IsFound
  <2>5. QED
    BY <2>1, <2>3, <2>4
<1>9. CASE PickPickable
  <2>1. Middle \in 0 .. total - 1 /\ slot[Middle] \in Address
    BY <1>7, <1>9 DEF PickPickable
  <2>2. /\ pc' = "idle" /\ limit' = 0 /\ low' = 0 /\ high' = 0 /\ draw' = 0
        /\ among' = "all" /\ answer' = slot[Middle]
        /\ UNCHANGED <<slot, hash, total, available, members, health, todo>>
    BY <1>9 DEF PickPickable, Return, table
  <2>3. TypeOK'
    BY <2>1, <2>2, CapacityAssumption DEF TypeOK, Index
  <2>4. Loops'
    BY <1>9, <2>2 DEF Loops, PickPickable, IsFound
  <2>5. Arrangement' /\ Sums'
    BY <2>2 DEF Arrangement, Sums
  <2>6. QED
    BY <2>3, <2>4, <2>5
<1>10. CASE PickUnavailable
  <2>1. CASE available = 0
    BY <1>7, <1>10, <2>1, CapacityAssumption
       DEF PickUnavailable, Retry, Return, IsFound, TypeOK, Loops, Arrangement, Sums,
           table, Index
  <2>2. CASE available # 0
    <3>1. available \in 1 .. total /\ total' = total /\ hash' \in [Index -> Int]
      BY <1>10, <2>2, CapacityAssumption DEF PickUnavailable, TypeOK, table, Index
    <3>2. /\ pc' = "search" /\ limit' = available /\ draw' \in Int
          /\ low' = 0 /\ high' = available - 1 /\ among' = "available"
      BY <1>10, <2>2, <3>1, RandomStarts DEF PickUnavailable, Retry
    <3>3. QED
      BY <1>10, <2>2, <3>1, <3>2, CapacityAssumption
         DEF PickUnavailable, Retry, IsFound, TypeOK, Loops, Arrangement, Sums,
             table, Index
  <2>3. QED
    BY <2>1, <2>2
<1>11. CASE PickExpire
  <2>1. /\ Arrangement' /\ Sums' /\ total' = total /\ available' \in 0 .. total'
        /\ available' = available - 1
        /\ slot' \in [Index -> Address \cup {NoAddress}] /\ hash' \in [Index -> Int]
    BY <1>7, <1>11, ExpireKeepsTable DEF PickExpire
  <2>2. CASE available - 1 = 0
    BY <1>7, <1>11, <2>1, <2>2, CapacityAssumption
       DEF PickExpire, Retry, Return, IsFound, TypeOK, Loops, Index
  <2>3. CASE available - 1 # 0
    <3>1. available - 1 \in 1 .. total
      BY <2>1, <2>3, CapacityAssumption DEF TypeOK, Index
    <3>2. /\ pc' = "search" /\ limit' = available - 1 /\ draw' \in Int
          /\ low' = 0 /\ high' = available - 1 - 1 /\ among' = "available"
      BY <1>11, <2>1, <2>3, <3>1, RandomStarts DEF PickExpire, Retry
    <3>3. QED
      BY <1>11, <2>1, <2>3, <3>1, <3>2, CapacityAssumption
         DEF PickExpire, Retry, IsFound, TypeOK, Loops, Index
  <2>4. QED
    BY <2>2, <2>3
<1>12. ASSUME NEW a \in Address, NEW h \in Health, HealthChange(a, h)
       PROVE  TableInv'
  BY <1>12 DEF HealthChange, TypeOK, Loops, Arrangement, Sums, table, search
<1>13. CASE UNCHANGED vars
  BY <1>13 DEF vars, table, search, TypeOK, Loops, Arrangement, Sums
<1>14. QED
  BY <1>1, <1>2, <1>3, <1>4, <1>5, <1>6, <1>8, <1>9, <1>10, <1>11, <1>12, <1>13
     DEF Next

(* The array is always an arrangement of the address list, and its sums    *)
(* are right, however addresses fail and recover (update, exchange, expire *)
(* and recover of phl_upstream_random.c).                                  *)
THEOREM TableCorrect == Spec => []Table
<1>1. Spec => []TableInv
  BY TableInit, TableNext, PTL DEF Spec
<1>2. TableInv => Table
  BY DEF TableInv, Table
<1>3. QED
  BY <1>1, <1>2, PTL

-----------------------------------------------------------------------------
(* With positive weights the sums grow, and the number drawn stays inside  *)
(* the window of the search.                                               *)
PositiveWeights == \A a \in Address : Weight[a] > 0

Ordered == \A i, j \in 0 .. total : i < j => hash[i] < hash[j]

Window == pc = "search" => /\ hash[low] <= draw
                           /\ draw < hash[high + 1]
                           /\ low <= high + 1

SearchInv == TableInv /\ Ordered /\ Window

(* A window that holds the number is not empty.                            *)
LEMMA WindowNotEmpty == SearchInv => SearchSucceeds
<1> SUFFICES ASSUME SearchInv, pc = "search"
             PROVE  low <= high
  BY DEF SearchSucceeds
<1>1. low \in 0 .. total /\ high + 1 \in 0 .. total /\ low <= high + 1
  BY CapacityAssumption DEF SearchInv, TableInv, TypeOK, Loops, Window, Index
<1>2. hash[low] \in Int /\ hash[high + 1] \in Int /\ draw \in Int
  BY <1>1, CapacityAssumption DEF SearchInv, TableInv, TypeOK, Index
<1>3. low # high + 1
  BY <1>2 DEF SearchInv, Window
<1>4. QED
  BY <1>1, <1>3, CapacityAssumption DEF SearchInv, TableInv, TypeOK, Index

(* A draw among n addresses starts with a window that holds it.            *)
LEMMA RandomInWindow ==
    ASSUME TableInv, Ordered', Sums', NEW n \in 1 .. total, total' = total,
           hash' \in [Index -> Int], Random(n)
    PROVE  Window'
<1>1. n \in 1 .. total' /\ 0 \in 0 .. total' /\ n \in 0 .. total' /\ n \in Index
  BY CapacityAssumption DEF TableInv, TypeOK, Index
<1>2. hash'[0] = 0 /\ hash'[n] > 0 /\ hash'[n] \in Int
  BY <1>1 DEF Ordered, Sums
<1>3. draw' \in 0 .. hash'[n] - 1
  BY <1>2 DEF Random, Draws
<1>4. low' = 0 /\ high' + 1 = n
  BY <1>1 DEF Random
<1>5. QED
  BY <1>1, <1>2, <1>3, <1>4 DEF Window

(* Shifting the sums between two exchanged addresses keeps their order.    *)
LEMMA ExchangeKeepsOrder ==
    ASSUME PositiveWeights, TableInv, Ordered, total' = total,
           NEW i \in 0 .. total - 1, NEW j \in 0 .. total - 1, i <= j,
           Exchange(i, j)
    PROVE  Ordered'
<1> DEFINE wi == Weight[slot[i]]
           wj == Weight[slot[j]]
<1>1. /\ \A k \in 0 .. total : k \in Index
      /\ \A k \in 0 .. total - 1 : k \in 0 .. total /\ k + 1 \in 0 .. total
      /\ \A k \in 0 .. total : hash[k] \in Int
      /\ total \in Nat
      /\ i \in Nat /\ j \in Nat
  BY CapacityAssumption DEF TableInv, TypeOK, Index
<1>2. wi \in Int /\ wj \in Int /\ wi > 0 /\ wj > 0
  BY WeightAssumption DEF PositiveWeights, TableInv, Arrangement, TypeOK
<1>3. hash[i + 1] = hash[i] + wi /\ hash[j + 1] = hash[j] + wj
  BY DEF TableInv, Sums
<1>4. \A k \in 0 .. total : hash'[k] = IF i < k /\ k <= j
                                       THEN hash[k] + (wj - wi) ELSE hash[k]
  BY <1>1 DEF Exchange
<1>5. \A k, l \in 0 .. total : k <= l => hash[k] <= hash[l]
  BY <1>1 DEF Ordered
<1>6. SUFFICES ASSUME NEW k \in 0 .. total, NEW l \in 0 .. total, k < l
               PROVE  hash'[k] < hash'[l]
  BY DEF Ordered
<1>7. hash[k] < hash[l] /\ hash[k] \in Int /\ hash[l] \in Int
      /\ hash[i] \in Int /\ hash[j] \in Int /\ hash[i + 1] \in Int /\ hash[j + 1] \in Int
  BY <1>1, <1>6 DEF Ordered
<1>8. CASE (i < k /\ k <= j) /\ (i < l /\ l <= j)
  BY <1>2, <1>4, <1>7, <1>8
<1>9. CASE ~(i < k /\ k <= j) /\ ~(i < l /\ l <= j)
  BY <1>4, <1>7, <1>9
<1>10. CASE ~(i < k /\ k <= j) /\ (i < l /\ l <= j)
  <2>1. k <= i /\ i + 1 <= l
    BY <1>1, <1>6, <1>10
  <2>2. hash[k] <= hash[i] /\ hash[i + 1] <= hash[l]
    BY <1>1, <1>5, <2>1
  <2>3. QED
    BY <1>2, <1>3, <1>4, <1>7, <1>10, <2>2
<1>11. CASE (i < k /\ k <= j) /\ ~(i < l /\ l <= j)
  <2>1. k <= j /\ j + 1 <= l
    BY <1>1, <1>6, <1>11
  <2>2. hash[k] <= hash[j] /\ hash[j + 1] <= hash[l]
    BY <1>1, <1>5, <2>1
  <2>3. QED
    BY <1>2, <1>3, <1>4, <1>7, <1>11, <2>2
<1>12. QED
  BY <1>8, <1>9, <1>10, <1>11

LEMMA SearchInit == Init => SearchInv
<1> SUFFICES ASSUME Init
             PROVE  Ordered /\ Window
  BY TableInit DEF SearchInv
<1>1. QED
  BY DEF Init, Ordered, Window

LEMMA SearchNext ==
    ASSUME PositiveWeights, SearchInv, [Next]_vars
    PROVE  SearchInv'
<1> USE DEF SearchInv
<1>1. TableInv'
  BY TableNext
<1> SUFFICES Ordered' /\ Window'
  BY <1>1
<1>2. /\ total \in Nat /\ available \in 0 .. total
      /\ \A k \in 0 .. total : hash[k] \in Int /\ k \in Index
      /\ Sums'
      /\ hash' \in [Index -> Int]
  BY <1>1, CapacityAssumption DEF TableInv, TypeOK, Index
<1>3. CASE UpdateBegin
  BY <1>3 DEF UpdateBegin, Ordered, Window
<1>4. ASSUME NEW a \in Address, UpdateStep(a)
      PROVE  Ordered' /\ Window'
  <2>1. /\ total' = total + 1
        /\ \A k \in 0 .. total : hash'[k] = hash[k]
        /\ hash'[total + 1] = hash[total] + Weight[a]
    BY <1>2, <1>4, CapacityAssumption DEF UpdateStep, TableInv, TypeOK, Index
  <2>2. Weight[a] \in Int /\ Weight[a] > 0
    BY WeightAssumption DEF PositiveWeights
  <2>3. ASSUME NEW k \in 0 .. total', NEW l \in 0 .. total', k < l
        PROVE  hash'[k] < hash'[l]
    <3>1. CASE l <= total
      BY <1>2, <2>1, <2>3, <3>1 DEF Ordered
    <3>2. CASE l = total + 1
      <4>1. k \in 0 .. total /\ total \in 0 .. total
        BY <1>2, <2>1, <2>3, <3>2
      <4>2. hash[k] <= hash[total]
        BY <1>2, <4>1 DEF Ordered
      <4>3. QED
        BY <1>2, <2>1, <2>2, <3>2, <4>1, <4>2
    <3>3. QED
      BY <1>2, <2>1, <3>1, <3>2
  <2>4. QED
    BY <1>4, <2>3 DEF UpdateStep, Ordered, Window
<1>5. CASE UpdateEnd
  BY <1>5 DEF UpdateEnd, Ordered, Window, table
<1>6. CASE PickBegin
  <2>1. total' = total /\ Ordered' /\ total \in 1 .. total
    BY <1>2, <1>6 DEF PickBegin, Ordered, table
  <2>2. QED
    BY <1>2, <1>6, <2>1, RandomInWindow DEF PickBegin
<1>7. CASE SearchRight
  <2>1. Middle \in Int /\ low <= Middle /\ Middle <= high
    BY <1>7, MiddleInWindow DEF SearchRight, TableInv
  <2>2. high \in Int /\ low' = Middle + 1 /\ high' = high
    BY <1>7 DEF SearchRight, TableInv, TypeOK
  <2>3. QED
    BY <1>7, <2>1, <2>2 DEF SearchRight, Ordered, Window, table
<1>8. CASE SearchLeft
  <2>1. Middle \in Int /\ low <= Middle /\ Middle <= high
    BY <1>8, MiddleInWindow DEF SearchLeft, TableInv
  <2>2. low \in Int /\ low' = low /\ high' + 1 = Middle
    BY <1>8, <2>1 DEF SearchLeft, TableInv, TypeOK
  <2>3. QED
    BY <1>8, <2>1, <2>2 DEF SearchLeft, Ordered, Window, table
<1>9. ASSUME IsFound
      PROVE  /\ Middle \in 0 .. total - 1
             /\ (among = "available" \/ Middle < available) => Middle \in 0 .. available - 1
             /\ among = "all" /\ Middle >= available => Middle \in available .. total - 1
  <2>1. Middle \in 0 .. total - 1 /\ Middle + 1 \in 1 .. limit
    BY <1>9, MiddleInTable DEF IsFound, TableInv
  <2>2. QED
    BY <1>2, <1>9, <2>1 DEF IsFound, TableInv, Loops, TypeOK
<1>10. CASE PickRecover
  <2>1. /\ Middle \in available .. total - 1
        /\ Exchange(available, Middle)
        /\ total' = total
        /\ pc' = "idle"
    BY <1>9, <1>10 DEF PickRecover, Recover, Return
  <2>2. available \in 0 .. total - 1 /\ Middle \in 0 .. total - 1 /\ available <= Middle
    BY <1>2, <2>1
  <2>3. QED
    BY <2>1, <2>2, ExchangeKeepsOrder DEF Window
<1>11. CASE PickPickable
  BY <1>11 DEF PickPickable, Return, Ordered, Window, table
<1>12. CASE PickUnavailable
  <2>1. total' = total /\ Ordered'
    BY <1>12 DEF PickUnavailable, Ordered, table
  <2>2. CASE available = 0
    BY <1>12, <2>1, <2>2 DEF PickUnavailable, Retry, Return, Window
  <2>3. CASE available # 0
    <3>1. available \in 1 .. total
      BY <1>2, <2>3
    <3>2. QED
      BY <1>2, <1>12, <2>1, <2>3, <3>1, RandomInWindow DEF PickUnavailable, Retry
  <2>4. QED
    BY <2>2, <2>3, <2>1
<1>13. CASE PickExpire
  <2>1. /\ Middle \in 0 .. available - 1
        /\ Exchange(Middle, available - 1)
        /\ total' = total
        /\ Retry(slot[Middle], available - 1)
    BY <1>9, <1>13 DEF PickExpire, Expire
  <2>2. available - 1 \in 0 .. total - 1 /\ Middle \in 0 .. total - 1 /\ Middle <= available - 1
    BY <1>2, <2>1
  <2>3. Ordered'
    BY <2>1, <2>2, ExchangeKeepsOrder
  <2>4. CASE available - 1 = 0
    BY <2>1, <2>3, <2>4 DEF Retry, Return, Window
  <2>5. CASE available - 1 # 0
    <3>1. available - 1 \in 1 .. total
      BY <1>2, <2>5, <2>2
    <3>2. QED
      BY <1>2, <2>1, <2>3, <2>5, <3>1, RandomInWindow DEF Retry
  <2>6. QED
    BY <2>4, <2>5, <2>3
<1>14. ASSUME NEW a \in Address, NEW h \in Health, HealthChange(a, h)
       PROVE  Ordered' /\ Window'
  BY <1>14 DEF HealthChange, Ordered, Window, table, search
<1>15. CASE UNCHANGED vars
  BY <1>15 DEF vars, table, search, Ordered, Window
<1>16. QED
  BY <1>1, <1>3, <1>4, <1>5, <1>6, <1>7, <1>8, <1>10, <1>11, <1>12, <1>13, <1>14, <1>15
     DEF Next

(* With positive weights the assertion of random()                         *)
(* (phl_upstream_random.c:109) never fails: the search always finds the    *)
(* address that owns the drawn number.                                     *)
THEOREM SearchCorrect ==
    ASSUME PositiveWeights
    PROVE  Spec => []SearchSucceeds
<1>1. SearchInv /\ [Next]_vars => SearchInv'
  BY SearchNext
<1>2. Spec => []SearchInv
  BY <1>1, SearchInit, PTL DEF Spec
<1>3. QED
  BY <1>2, WindowNotEmpty, PTL

-----------------------------------------------------------------------------
(* The available part of the array after an address left or joined it.     *)
LEMMA ExpireShrinksOffer ==
    ASSUME TableInv, NEW i \in 0 .. available - 1, Expire(i)
    PROVE  {slot'[k] : k \in 0 .. available' - 1}
             = {slot[k] : k \in 0 .. available - 1} \ {slot[i]}
<1>1. /\ available' = available - 1
      /\ available \in Nat /\ available <= total /\ total \in Index
      /\ 0 .. available - 1 \subseteq 0 .. total - 1
      /\ 0 .. available - 1 \subseteq Index
  BY CapacityAssumption DEF Expire, TableInv, TypeOK, Index
<1>2. available - 1 \in 0 .. available - 1
  BY <1>1
<1>3. \A k \in 0 .. available - 1 :
        slot'[k] = IF k = available - 1 THEN slot[i]
                   ELSE IF k = i THEN slot[available - 1] ELSE slot[k]
  BY <1>1, <1>2 DEF Expire, Exchange, TableInv, TypeOK
<1>4. \A k, l \in 0 .. available - 1 : slot[k] = slot[l] => k = l
  BY <1>1 DEF TableInv, Arrangement
<1>5. ASSUME NEW k \in 0 .. available' - 1
      PROVE  slot'[k] \in {slot[l] : l \in 0 .. available - 1} \ {slot[i]}
  <2>1. k \in 0 .. available - 1 /\ k # available - 1
    BY <1>1
  <2>2. CASE k = i
    BY <1>2, <1>3, <1>4, <2>1, <2>2
  <2>3. CASE k # i
    BY <1>3, <1>4, <2>1, <2>3
  <2>4. QED
    BY <2>2, <2>3
<1>6. ASSUME NEW k \in 0 .. available - 1, slot[k] # slot[i]
      PROVE  \E l \in 0 .. available' - 1 : slot'[l] = slot[k]
  <2>1. CASE k = available - 1
    <3>1. i \in 0 .. available' - 1 /\ slot'[i] = slot[k]
      BY <1>1, <1>3, <1>6, <2>1
    <3>2. QED
      BY <3>1
  <2>2. CASE k # available - 1
    <3>1. k \in 0 .. available' - 1 /\ slot'[k] = slot[k]
      BY <1>1, <1>3, <1>6, <2>2
    <3>2. QED
      BY <3>1
  <2>3. QED
    BY <2>1, <2>2
<1>7. QED
  BY <1>5, <1>6

LEMMA RecoverGrowsOffer ==
    ASSUME TableInv, NEW i \in available .. total - 1, Recover(i)
    PROVE  {slot'[k] : k \in 0 .. available' - 1}
             = {slot[k] : k \in 0 .. available - 1} \cup {slot[i]}
<1>1. /\ available' = available + 1
      /\ available \in Nat /\ available <= total /\ total \in Index
      /\ available \in 0 .. available' - 1
      /\ 0 .. available' - 1 = (0 .. available - 1) \cup {available}
      /\ 0 .. available' - 1 \subseteq Index
      /\ i \in Index
  BY CapacityAssumption DEF Recover, TableInv, TypeOK, Index
<1>2. /\ \A k \in 0 .. available - 1 : slot'[k] = slot[k]
      /\ slot'[available] = slot[i]
  BY <1>1 DEF Recover, Exchange, TableInv, TypeOK
<1>3. QED
  BY <1>1, <1>2

(* Every step of the code is a step of the promise, or leaves it alone.    *)
LEMMA PromiseInit == Init => Promise!Init
BY DEF Init, Promise!Init, Offered

LEMMA PromiseNext ==
    ASSUME TableInv, [Next]_vars
    PROVE  [Promise!Next]_(Promise!bvars)
<1> DEFINE Front == {slot[i] : i \in 0 .. available - 1}
<1> USE DEF TableInv
<1>1. CASE UpdateBegin
  <2>1. Promise!Renew
    BY <1>1 DEF UpdateBegin, Promise!Renew, Offered
  <2>2. QED
    BY <2>1 DEF Promise!Next
<1>2. ASSUME NEW a \in Address, UpdateStep(a)
      PROVE  UNCHANGED Promise!bvars
  BY <1>2 DEF UpdateStep, Offered, Promise!bvars
<1>3. CASE UpdateEnd
  <2>1. members = Front
    BY <1>3 DEF UpdateEnd, Loops, Arrangement
  <2>2. Offered = members /\ Offered' = Front
    BY <1>3 DEF UpdateEnd, Offered, table
  <2>3. QED
    BY <1>3, <2>1, <2>2 DEF UpdateEnd, Promise!bvars
<1>4. ASSUME PickBegin \/ SearchRight \/ SearchLeft
      PROVE  UNCHANGED Promise!bvars
  BY <1>4 DEF PickBegin, SearchRight, SearchLeft, Random, Offered, table, Promise!bvars
<1>5. ASSUME IsFound
      PROVE  /\ slot[Middle] \in members
             /\ slot[Middle] \in Address
             /\ Offered = Front
             /\ (among = "available" \/ Middle < available) => Middle \in 0 .. available - 1
             /\ among = "all" /\ Middle >= available => Middle \in available .. total - 1
  <2>1. /\ Middle \in 0 .. total - 1 /\ Middle + 1 \in 1 .. limit
        /\ slot[Middle] \in members /\ slot[Middle] \in Address
    BY <1>5, MiddleInTable DEF IsFound
  <2>2. QED
    BY <1>5, <2>1, CapacityAssumption DEF IsFound, Loops, TypeOK, Index, Offered
<1>6. CASE PickRecover
  <2>1. Offered' = Offered \cup {slot[Middle]}
    BY <1>5, <1>6, RecoverGrowsOffer DEF PickRecover, Return, Offered
  <2>2. Promise!Give(slot[Middle])
    BY <1>5, <1>6, <2>1 DEF PickRecover, Return, Promise!Give, Promise!IsPickable
  <2>3. QED
    BY <1>5, <1>6, <2>2 DEF PickRecover, Promise!Next
<1>7. CASE PickPickable
  <2>1. Offered' = Offered
    BY <1>5, <1>7 DEF PickPickable, Return, Offered, table
  <2>2. health[slot[Middle]] = "up" => slot[Middle] \in Offered
    BY <1>5, <1>7 DEF PickPickable
  <2>3. Promise!Give(slot[Middle])
    BY <1>5, <1>7, <2>1, <2>2
       DEF PickPickable, Return, IsPickable, Promise!Give, Promise!IsPickable
  <2>4. QED
    BY <1>5, <1>7, <2>3 DEF PickPickable, Promise!Next
<1>8. CASE PickUnavailable
  <2>1. Offered' = Offered
    BY <1>5, <1>8 DEF PickUnavailable, Retry, Return, Random, Offered, table
  <2>2. CASE available = 0
    <3>1. Offered = {}
      BY <1>5, <1>8, <2>2 DEF PickUnavailable
    <3>2. Promise!GiveUp(slot[Middle])
      BY <1>5, <1>8, <2>1, <2>2, <3>1
         DEF PickUnavailable, Retry, Return, IsPickable, Promise!GiveUp, Promise!IsPickable
    <3>3. QED
      BY <1>5, <1>8, <3>2 DEF PickUnavailable, Promise!Next
  <2>3. CASE available # 0
    BY <1>8, <2>1, <2>3 DEF PickUnavailable, Retry, Promise!bvars
  <2>4. QED
    BY <2>2, <2>3
<1>9. CASE PickExpire
  <2>1. Middle \in 0 .. available - 1 /\ slot[Middle] \in Offered
    BY <1>5, <1>9 DEF PickExpire
  <2>2. Offered' = Offered \ {slot[Middle]}
    BY <1>5, <1>9, <2>1, ExpireShrinksOffer
       DEF PickExpire, Retry, Return, Random, Offered
  <2>3. answer' = answer \/ (answer' = slot[Middle] /\ Offered' = {})
    <3>1. CASE available - 1 = 0
      <4>1. 0 .. available' - 1 = {} /\ pc' = "idle" /\ answer' = slot[Middle]
        BY <1>9, <3>1 DEF PickExpire, Expire, Retry, Return
      <4>2. QED
        BY <4>1 DEF Offered
    <3>2. CASE available - 1 # 0
      BY <1>9, <3>2 DEF PickExpire, Retry
    <3>3. QED
      BY <3>1, <3>2
  <2>4. Promise!Drop(slot[Middle])
    BY <1>5, <1>9, <2>1, <2>2, <2>3
       DEF PickExpire, IsPickable, Promise!Drop, Promise!IsPickable
  <2>5. QED
    BY <1>5, <1>9, <2>4 DEF PickExpire, Promise!Next
<1>10. ASSUME NEW a \in Address, NEW h \in Health, HealthChange(a, h)
       PROVE  Promise!HealthChange
  <2>1. health' \in [Address -> Promise!Health]
    BY <1>10 DEF HealthChange, TypeOK, Health, Promise!Health
  <2>2. Offered' = Offered
    BY <1>10 DEF HealthChange, Offered, table
  <2>3. QED
    BY <1>10, <2>1, <2>2 DEF HealthChange, Promise!HealthChange
<1>11. CASE UNCHANGED vars
  BY <1>11 DEF vars, table, Offered, Promise!bvars
<1>12. QED
  BY <1>1, <1>2, <1>3, <1>4, <1>6, <1>7, <1>8, <1>9, <1>10, <1>11 DEF Next, Promise!Next

(* The array of the code implements the promise of a balancer, for every   *)
(* address list and all weights (phl_upstream_random_pick()).              *)
THEOREM PromiseKept == Spec => KeepsPromise
<1>1. Spec => []TableInv
  BY TableInit, TableNext, PTL DEF Spec
<1>2. TableInv /\ [Next]_vars => [Promise!Next]_(Promise!bvars)
  BY PromiseNext
<1>3. QED
  BY <1>1, <1>2, PromiseInit, PTL DEF Spec, KeepsPromise, Promise!Spec

-----------------------------------------------------------------------------
(***************************************************************************)
(* Resolve: numbers first.                                                 *)
(***************************************************************************)
(* Of natural numbers, one is the least.                                   *)
LEMMA LeastOf ==
    ASSUME NEW T, T \subseteq Nat, T # {}
    PROVE  /\ Least(T) \in T
           /\ \A y \in T : Least(T) <= y
<1>1. \E x \in T : \A y \in T : ~ (<<y, x>> \in OpToRel(<, Nat))
    BY NatLessThanWellFounded, WFMin, Zenon
<1>2. \E x \in T : \A y \in T : x <= y
    <2>1. PICK x \in T : \A y \in T : ~ (<<y, x>> \in OpToRel(<, Nat))
        BY <1>1
    <2>2. ASSUME NEW y \in T PROVE x <= y
        <3>1. x \in Nat /\ y \in Nat
            OBVIOUS
        <3>2. ~(y < x)
            BY <2>1, <3>1 DEF OpToRel
        <3> QED BY <3>1, <3>2
    <2> QED BY <2>2
<1> QED BY <1>2 DEF Least

(* A loop that does the same in every step has a run of every length.      *)
IsRun(f, start, step, last) ==
    f = [s \in 0 .. last |-> IF s = 0 THEN start ELSE step[f[s - 1]]]

LEMMA Runs ==
    ASSUME NEW start, NEW step, NEW last \in Nat
    PROVE  \E f : IsRun(f, start, step, last)
<1> USE DEF IsRun
<1> DEFINE Run(f, k) == IsRun(f, start, step, k)
           None == {k \in Nat : ~ \E f : Run(f, k)}
<1>1. SUFFICES ASSUME None # {} PROVE FALSE
    BY <1>1
<1>2. PICK k \in None : \A y \in None : k <= y
    BY <1>1, LeastOf, Zenon
<1>3. CASE k = 0
    <2>1. Run([s \in 0 .. 0 |-> start], 0)
        OBVIOUS
    <2> QED BY <1>2, <1>3, <2>1
<1>4. CASE k # 0
    <2>1. k - 1 \in Nat /\ k - 1 \notin None
        <3>1. k \in Nat
            BY <1>2
        <3>2. k - 1 \in Nat /\ ~(k <= k - 1)
            BY <1>4, <3>1
        <3> HIDE DEF None
        <3> QED BY <1>2, <3>2
    <2>2. PICK f : Run(f, k - 1)
        BY <2>1
    <2> DEFINE g == [s \in 0 .. k |-> IF s = k THEN step[f[k - 1]] ELSE f[s]]
    <2>3. \A s \in 0 .. k : g[s] = IF s = 0 THEN start ELSE step[g[s - 1]]
        <3> SUFFICES ASSUME NEW s \in 0 .. k PROVE g[s] = IF s = 0 THEN start ELSE step[g[s - 1]]
            OBVIOUS
        <3>1. k \in Nat
            BY <1>2
        <3>2. CASE s = k
            BY <1>4, <3>1, <3>2
        <3>3. CASE s # k
            <4>1. s \in 0 .. k - 1 /\ g[s] = f[s]
                BY <3>1, <3>3
            <4>2. f[s] = IF s = 0 THEN start ELSE step[f[s - 1]]
                BY <2>2, <4>1
            <4>3. s # 0 => g[s - 1] = f[s - 1]
                BY <3>1, <3>3
            <4> QED BY <4>1, <4>2, <4>3
        <3> QED BY <3>2, <3>3
    <2>4. Run(g, k)
        <3>1. g = [s \in 0 .. k |-> g[s]]
            OBVIOUS
        <3> HIDE DEF g
        <3> QED BY <2>3, <3>1
    <2> QED BY <1>2, <2>4
<1> QED BY <1>3, <1>4

-----------------------------------------------------------------------------
(* qsort() puts all of the numbers in ascending order.                     *)
LEMMA SortedNumbers ==
    ASSUME NEW S, S \subseteq Nat, IsFiniteSet(S)
    PROVE  /\ Sorted[S] \in Seq(S)
           /\ Len(Sorted[S]) = Cardinality(S)
           /\ Ascending(Sorted[S])
           /\ Range(Sorted[S]) = S
<1> DEFINE below(x) == {y \in S : y <= x}
           place == [x \in S |-> Cardinality(below(x))]
           n == Cardinality(S)
<1>1. n \in Nat
    BY FS_CardinalityType
<1>2. ASSUME NEW x \in S PROVE place[x] \in 1 .. n /\ IsFiniteSet(below(x))
    <2>1. IsFiniteSet(below(x)) /\ Cardinality(below(x)) <= n
        BY FS_Subset
    <2>2. Cardinality(below(x)) \in Nat /\ Cardinality(below(x)) # 0
        BY <2>1, FS_CardinalityType, FS_EmptySet
    <2> QED BY <1>1, <2>1, <2>2
<1>3. ASSUME NEW x \in S, NEW y \in S, x < y PROVE place[x] < place[y]
    <2>1. below(x) \in SUBSET below(y)
        <3>1. x \in Nat /\ y \in Nat /\ S \subseteq Nat
            OBVIOUS
        <3>2. ASSUME NEW z \in S, z <= x PROVE z <= y
            <4>1. z \in Nat
                OBVIOUS
            <4> QED BY <1>3, <3>1, <3>2, <4>1
        <3> QED BY <3>2
    <2>2. y \in below(y) /\ y \notin below(x)
        BY <1>3
    <2>3. Cardinality(below(x)) <= Cardinality(below(y)) /\ Cardinality(below(x)) # Cardinality(below(y))
        BY <1>2, <2>1, <2>2, FS_Subset
    <2> QED BY <1>2, <2>3
<1>4. place \in Injection(S, 1 .. n)
    <2>1. place \in [S -> 1 .. n]
        BY <1>2
    <2>2. \A x, y \in S : place[x] = place[y] => x = y
        <3> SUFFICES ASSUME NEW x \in S, NEW y \in S, place[x] = place[y] PROVE x = y
            BY Zenon
        <3>1. ~(x < y) /\ ~(y < x)
            BY <1>2, <1>3
        <3> QED BY <3>1
    <2> HIDE DEF place
    <2> QED BY <2>1, <2>2 DEF Injection, IsInjective
<1>5. place \in Surjection(S, 1 .. n)
    BY <1>1, <1>4, FS_Interval, FS_Injection
<1> DEFINE s == Sorted[S]
<1>6. s = [i \in 1 .. n |-> CHOOSE x \in S : Cardinality(below(x)) = i]
    BY DEF Sorted
<1>7. \A i \in 1 .. n : s[i] \in S /\ place[s[i]] = i
    <2> SUFFICES ASSUME NEW i \in 1 .. n PROVE s[i] \in S /\ place[s[i]] = i
        OBVIOUS
    <2>1. PICK x \in S : place[x] = i
        BY <1>5 DEF Surjection
    <2>2. \E y \in S : Cardinality(below(y)) = i
        BY <2>1
    <2>3. s[i] = CHOOSE y \in S : Cardinality(below(y)) = i
        BY <1>6
    <2> QED BY <2>2, <2>3
<1>8. DOMAIN s = 1 .. n /\ s \in [1 .. n -> S]
    BY <1>6, <1>7
<1> HIDE DEF s
<1>9. s \in Seq(S) /\ Len(s) = n
    BY <1>1, <1>8, SeqDef
<1>10. Ascending(s)
    <2> SUFFICES ASSUME NEW i \in 1 .. n, NEW j \in 1 .. n, i < j PROVE s[i] < s[j]
        BY <1>8 DEF Ascending
    <2>1. s[i] # s[j] /\ ~(s[j] < s[i])
        <3>1. place[s[i]] = i /\ place[s[j]] = j /\ s[i] \in S /\ s[j] \in S
            BY <1>7
        <3>2. s[j] < s[i] => place[s[j]] < place[s[i]]
            BY <1>3, <3>1
        <3> HIDE DEF place
        <3> QED BY <3>1, <3>2
    <2>2. s[i] \in Nat /\ s[j] \in Nat
        BY <1>7
    <2> QED BY <2>1, <2>2
<1>11. Range(s) = S
    <2>1. ASSUME NEW x \in S PROVE \E i \in 1 .. n : s[i] = x
        <3>1. place[x] \in 1 .. n
            BY <1>2
        <3>2. s[place[x]] \in S /\ place[s[place[x]]] = place[x]
            BY <1>7, <3>1
        <3>3. s[place[x]] = x
            BY <1>4, <3>2 DEF Injection, IsInjective
        <3> QED BY <3>1, <3>3
    <2> QED BY <1>8, <2>1 DEF Range
<1> QED BY <1>9, <1>10, <1>11 DEF s


-----------------------------------------------------------------------------
(* A list of entries, or numbers, with one more at the end, or one less at *)
(* the begin.                                                              *)
LEMMA RangeOfAppend ==
    ASSUME NEW S, NEW s \in Seq(S), NEW e \in S
    PROVE  Range(Append(s, e)) = Range(s) \cup {e}
<1>1. /\ DOMAIN s = 1 .. Len(s) /\ Len(s) \in Nat
      /\ DOMAIN Append(s, e) = 1 .. Len(s) + 1
      /\ \A i \in 1 .. Len(s) : Append(s, e)[i] = s[i]
      /\ Append(s, e)[Len(s) + 1] = e
    BY AppendProperties, LenProperties
<1> DEFINE a == Append(s, e)
<1> HIDE DEF a
<1>2. ASSUME NEW x \in Range(a) PROVE x \in Range(s) \cup {e}
    BY <1>1, <1>2 DEF a, Range
<1>3. ASSUME NEW x \in Range(s) PROVE x \in Range(a)
    BY <1>1, <1>3 DEF a, Range
<1>4. e \in Range(a)
    <2>1. Len(s) + 1 \in 1 .. Len(s) + 1
        BY <1>1
    <2> QED BY <1>1, <2>1 DEF a, Range
<1> QED BY <1>2, <1>3, <1>4 DEF a

LEMMA RangeOfTail ==
    ASSUME NEW S, NEW s \in Seq(S), s # <<>>
    PROVE  /\ Head(s) \in S /\ Tail(s) \in Seq(S)
           /\ Len(s) \in Nat \ {0} /\ Len(Tail(s)) = Len(s) - 1
           /\ Head(s) = s[1]
           /\ Range(s) = {Head(s)} \cup Range(Tail(s))
<1>1. /\ DOMAIN s = 1 .. Len(s) /\ Len(s) \in Nat \ {0}
      /\ Tail(s) \in Seq(S) /\ Len(Tail(s)) = Len(s) - 1
      /\ \A i \in 1 .. Len(Tail(s)) : Tail(s)[i] = s[i + 1]
      /\ Head(s) = s[1] /\ Head(s) \in S
    BY HeadTailProperties, LenProperties, EmptySeq
<1>2. DOMAIN Tail(s) = 1 .. Len(s) - 1
    BY <1>1, LenProperties
<1> DEFINE t == Tail(s)
<1> HIDE DEF t
<1>3. ASSUME NEW x \in Range(s) PROVE x = s[1] \/ x \in Range(t)
    <2>1. PICK i \in 1 .. Len(s) : x = s[i]
        BY <1>1 DEF Range
    <2>2. CASE i # 1
        <3>1. i - 1 \in 1 .. Len(s) - 1 /\ t[i - 1] = s[i]
            BY <1>1, <2>2 DEF t
        <3> QED BY <1>2, <2>1, <3>1 DEF t, Range
    <2> QED BY <2>1, <2>2
<1>4. ASSUME NEW x \in Range(t) PROVE x \in Range(s)
    BY <1>1, <1>2, <1>4 DEF t, Range
<1>5. s[1] \in Range(s)
    BY <1>1 DEF Range
<1> QED BY <1>1, <1>3, <1>4, <1>5 DEF t

(* The entries of a list in the order of their addresses, each of them     *)
(* once.                                                                   *)
ByName(l) ==
    \A i, j \in DOMAIN l : i < j => l[i].address.name < l[j].address.name

LEMMA ByNameAppend ==
    ASSUME NEW l \in Seq(Entry), NEW e \in Entry, ByName(l),
           \A f \in Range(l) : f.address.name < e.address.name
    PROVE  ByName(Append(l, e))
<1>1. /\ DOMAIN l = 1 .. Len(l) /\ Len(l) \in Nat
      /\ DOMAIN Append(l, e) = 1 .. Len(l) + 1
      /\ \A i \in 1 .. Len(l) : Append(l, e)[i] = l[i]
      /\ Append(l, e)[Len(l) + 1] = e
    BY AppendProperties, LenProperties
<1>2. \A i \in 1 .. Len(l) : l[i].address.name < e.address.name
    BY <1>1 DEF Range
<1> QED BY <1>1, <1>2 DEF ByName

LEMMA ByNameTail ==
    ASSUME NEW l \in Seq(Entry), ByName(l), l # <<>>
    PROVE  /\ ByName(Tail(l))
           /\ \A f \in Range(Tail(l)) : Head(l).address.name < f.address.name
<1>1. /\ DOMAIN l = 1 .. Len(l) /\ Len(l) \in Nat \ {0}
      /\ DOMAIN Tail(l) = 1 .. Len(l) - 1
      /\ \A i \in 1 .. Len(l) - 1 : Tail(l)[i] = l[i + 1]
      /\ Head(l) = l[1]
    BY HeadTailProperties, LenProperties, EmptySeq
<1>2. ByName(Tail(l))
    BY <1>1 DEF ByName
<1>3. \A i \in 1 .. Len(l) - 1 : l[1].address.name < l[i + 1].address.name
    BY <1>1 DEF ByName
<1> QED BY <1>1, <1>2, <1>3 DEF Range

LEMMA AscendingTail ==
    ASSUME NEW s \in Seq(Nat), Ascending(s), s # <<>>
    PROVE  /\ Ascending(Tail(s))
           /\ \A x \in Range(Tail(s)) : Head(s) < x
<1>1. /\ DOMAIN s = 1 .. Len(s) /\ Len(s) \in Nat \ {0}
      /\ DOMAIN Tail(s) = 1 .. Len(s) - 1
      /\ \A i \in 1 .. Len(s) - 1 : Tail(s)[i] = s[i + 1]
      /\ Head(s) = s[1]
    BY HeadTailProperties, LenProperties, EmptySeq
<1>2. Ascending(Tail(s))
    BY <1>1 DEF Ascending
<1>3. \A i \in 1 .. Len(s) - 1 : s[1] < s[i + 1]
    BY <1>1 DEF Ascending
<1> QED BY <1>1, <1>2, <1>3 DEF Range

-----------------------------------------------------------------------------
(* A new address structure is one that is not in use.                      *)
LEMMA AddedIsFresh ==
    ASSUME NEW n \in Name, NEW name \in Nat, IsFiniteSet(Allocated)
    PROVE  /\ Added(n, name) \in Entry
           /\ Added(n, name).address.host = n
           /\ Added(n, name).address.name = name
           /\ Added(n, name).address \notin Allocated
           /\ ~Added(n, name).deleted
<1> DEFINE count == Cardinality(Allocated)
           fresh(gen) == [host |-> n, name |-> name, gen |-> gen]
           free == {g \in 0 .. count : fresh(g) \notin Allocated}
<1>1. count \in Nat
    BY FS_CardinalityType
<1>2. free # {}
    <2>1. SUFFICES ASSUME free = {} PROVE FALSE
        OBVIOUS
    <2> DEFINE f == [g \in 0 .. count |-> fresh(g)]
    <2>2. f \in [0 .. count -> Allocated]
        BY <2>1
    <2>3. IsFiniteSet(0 .. count) /\ Cardinality(0 .. count) = count + 1
        BY <1>1, FS_Interval
    <2>4. Cardinality(Allocated) < Cardinality(0 .. count)
        BY <1>1, <2>3
    <2> HIDE DEF f
    <2>5. \E x, y \in 0 .. count : x # y /\ f[x] = f[y]
        BY <2>2, <2>3, <2>4, FS_PigeonHole, Zenon
    <2>6. \A x \in 0 .. count : f[x].gen = x
        BY DEF f
    <2> QED BY <2>5, <2>6
<1>3. Least(free) \in free
    <2>1. free \subseteq Nat
        OBVIOUS
    <2> HIDE DEF free
    <2> QED BY <1>2, <2>1, LeastOf
<1>4. Added(n, name) = [address |-> fresh(Least(free)), deleted |-> FALSE]
    BY DEF Added
<1>5. Least(free) \in Nat /\ fresh(Least(free)) \notin Allocated
    BY <1>3
<1> HIDE DEF free
<1> QED BY <1>4, <1>5 DEF Entry, Structure


-----------------------------------------------------------------------------
(* What is added for the new results of a hostname.                        *)
IsAdded(n, new, e) ==
    /\ e.address.host = n
    /\ e.address.name \in Range(new)
    /\ e.address \notin Allocated
    /\ ~e.deleted

(* What the merge of the results `new` and the list `old` has to give.     *)
Merged(n, new, old, l) ==
    /\ l \in Seq(Entry)
    /\ ByName(l)
    /\ \A x : x \in Range(new) <=> \E e \in Range(l) : ~e.deleted /\ e.address.name = x
    /\ \A e \in Range(old) : \E f \in Range(l) : f.address = e.address
    /\ \A e \in Range(l) : IsAdded(n, new, e) \/ \E f \in Range(old) : f.address = e.address

(* On the way there: what is merged comes before all the rest, and is      *)
(* right for what is no longer there of the rest.                          *)
Merging(n, new, old, m) ==
    /\ m \in [merged : Seq(Entry), new : Seq(Nat), old : Seq(Entry)]
    /\ ByName(m.merged) /\ Ascending(m.new) /\ ByName(m.old)
    /\ \A e \in Range(m.merged) : \A x \in Range(m.new) : e.address.name < x
    /\ \A e \in Range(m.merged) : \A f \in Range(m.old) : e.address.name < f.address.name
    /\ \A x : x \in Range(new) <=> \/ x \in Range(m.new)
                                   \/ \E e \in Range(m.merged) : ~e.deleted /\ e.address.name = x
    /\ Range(m.old) \subseteq Range(old)
    /\ \A e \in Range(old) : \/ e \in Range(m.old)
                             \/ \E f \in Range(m.merged) : f.address = e.address
    /\ \A e \in Range(m.merged) :
            IsAdded(n, new, e) \/ \E f \in Range(old) : f.address = e.address

LEMMA MergesNew ==
    ASSUME NEW n \in Name, NEW new \in Seq(Nat), NEW old \in Seq(Entry), NEW m,
           IsFiniteSet(Allocated), Merging(n, new, old, m), IsNew(m)
    PROVE  Merging(n, new, old, [merged |-> Append(m.merged, Added(n, Head(m.new))),
                                 new |-> Tail(m.new), old |-> m.old])
<1> DEFINE x == Head(m.new)
           a == Added(n, x)
           l == Append(m.merged, a)
<1>1. m.merged \in Seq(Entry) /\ m.new \in Seq(Nat) /\ m.old \in Seq(Entry) /\ m.new # <<>>
    BY DEF Merging, IsNew
<1>2. x \in Nat /\ Tail(m.new) \in Seq(Nat) /\ Range(m.new) = {x} \cup Range(Tail(m.new))
    BY <1>1, RangeOfTail
<1>3. Ascending(Tail(m.new)) /\ \A y \in Range(Tail(m.new)) : x < y
    BY <1>1, AscendingTail DEF Merging
<1>4. /\ a \in Entry /\ a.address.host = n /\ a.address.name = x
      /\ a.address \notin Allocated /\ ~a.deleted
    BY <1>2, AddedIsFresh
<1>5. l \in Seq(Entry) /\ Range(l) = Range(m.merged) \cup {a}
    BY <1>1, <1>4, RangeOfAppend, AppendProperties
<1>6. \A f \in Range(m.old) : x < f.address.name
    <2> SUFFICES ASSUME NEW f \in Range(m.old) PROVE x < f.address.name
        OBVIOUS
    <2>1. m.old # <<>>
        BY DEF Range
    <2>2. x < Head(m.old).address.name
        BY <2>1 DEF IsNew
    <2>3. Range(m.old) = {Head(m.old)} \cup Range(Tail(m.old)) /\ Head(m.old) \in Entry
        BY <1>1, <2>1, RangeOfTail
    <2>4. f \in Range(Tail(m.old)) => Head(m.old).address.name < f.address.name
        BY <1>1, <2>1, ByNameTail DEF Merging
    <2>5. f \in Entry
        BY <1>1, RangeOfSeq
    <2>6. f.address.name \in Nat /\ Head(m.old).address.name \in Nat
        BY <2>3, <2>5 DEF Entry, Structure
    <2> QED BY <1>2, <2>2, <2>3, <2>4, <2>6
<1>7. \A e \in Range(m.merged) : e.address.name < a.address.name
    BY <1>2, <1>4 DEF Merging
<1>8. ByName(l)
    BY <1>1, <1>4, <1>7, ByNameAppend DEF Merging
<1>9. x \in Range(new)
    BY <1>2 DEF Merging
<1>10. IsAdded(n, new, a)
    BY <1>4, <1>9 DEF IsAdded
<1> HIDE DEF a, x, l
<1>11. \A y : y \in Range(new) <=> \/ y \in Range(Tail(m.new))
                                   \/ \E e \in Range(l) : ~e.deleted /\ e.address.name = y
    <2>1. ASSUME NEW y, y \in Range(new)
          PROVE  \/ y \in Range(Tail(m.new))
                 \/ \E e \in Range(l) : ~e.deleted /\ e.address.name = y
        BY <1>2, <1>4, <1>5, <2>1 DEF Merging
    <2>2. ASSUME NEW y, \/ y \in Range(Tail(m.new))
                        \/ \E e \in Range(l) : ~e.deleted /\ e.address.name = y
          PROVE  y \in Range(new)
        BY <1>2, <1>4, <1>5, <1>9, <2>2 DEF Merging
    <2> QED BY <2>1, <2>2
<1> DEFINE next == [merged |-> l, new |-> Tail(m.new), old |-> m.old]
<1>12. next \in [merged : Seq(Entry), new : Seq(Nat), old : Seq(Entry)]
    BY <1>1, <1>2, <1>5
<1>13. /\ next.merged = l /\ next.new = Tail(m.new) /\ next.old = m.old
    OBVIOUS
<1> HIDE DEF next
<1>14. \A e \in Range(l) : \A y \in Range(Tail(m.new)) : e.address.name < y
    BY <1>2, <1>3, <1>4, <1>5 DEF Merging
<1>15. \A e \in Range(l) : \A f \in Range(m.old) : e.address.name < f.address.name
    BY <1>4, <1>5, <1>6 DEF Merging
<1>16. \A e \in Range(old) : e \in Range(m.old) \/ \E f \in Range(l) : f.address = e.address
    BY <1>5 DEF Merging
<1>17. \A e \in Range(l) : IsAdded(n, new, e) \/ \E f \in Range(old) : f.address = e.address
    BY <1>5, <1>10 DEF Merging
<1>18. ByName(m.old) /\ Range(m.old) \subseteq Range(old)
    BY DEF Merging
<1>19. Merging(n, new, old, next)
    BY <1>3, <1>8, <1>11, <1>12, <1>13, <1>14, <1>15, <1>16, <1>17, <1>18 DEF Merging
<1> QED BY <1>19 DEF next, l, a, x


LEMMA MergesOld ==
    ASSUME NEW n \in Name, NEW new \in Seq(Nat), NEW old \in Seq(Entry), NEW m,
           Merging(n, new, old, m), m.old # <<>>,
           NEW e \in Entry, e.address = Head(m.old).address,
           NEW rest \in Seq(Nat), Ascending(rest),
           \A x \in Range(rest) : e.address.name < x,
           \A y : y \in Range(m.new) <=> y \in Range(rest) \/ (~e.deleted /\ e.address.name = y)
    PROVE  Merging(n, new, old, [merged |-> Append(m.merged, e), new |-> rest, old |-> Tail(m.old)])
<1> DEFINE l == Append(m.merged, e)
           o == Head(m.old)
<1>1. m.merged \in Seq(Entry) /\ m.old \in Seq(Entry)
    BY DEF Merging
<1>2. o \in Entry /\ Tail(m.old) \in Seq(Entry) /\ Range(m.old) = {o} \cup Range(Tail(m.old))
    BY <1>1, RangeOfTail
<1>3. ByName(Tail(m.old)) /\ \A f \in Range(Tail(m.old)) : o.address.name < f.address.name
    BY <1>1, ByNameTail DEF Merging
<1>4. l \in Seq(Entry) /\ Range(l) = Range(m.merged) \cup {e}
    BY <1>1, RangeOfAppend, AppendProperties
<1>5. \A f \in Range(m.merged) : f.address.name < e.address.name
    BY <1>2 DEF Merging
<1>6. ByName(l)
    BY <1>1, <1>5, ByNameAppend DEF Merging
<1>7. o \in Range(old)
    BY <1>2 DEF Merging
<1>8. e.address = o.address
    OBVIOUS
<1> HIDE DEF l, o
<1>9. \A y : y \in Range(new) <=> \/ y \in Range(rest)
                                  \/ \E f \in Range(l) : ~f.deleted /\ f.address.name = y
    <2>1. ASSUME NEW y, y \in Range(new)
          PROVE  \/ y \in Range(rest)
                 \/ \E f \in Range(l) : ~f.deleted /\ f.address.name = y
        BY <1>4, <2>1 DEF Merging
    <2>2. ASSUME NEW y, \/ y \in Range(rest)
                        \/ \E f \in Range(l) : ~f.deleted /\ f.address.name = y
          PROVE  y \in Range(new)
        BY <1>4, <2>2 DEF Merging
    <2> QED BY <2>1, <2>2
<1> DEFINE next == [merged |-> l, new |-> rest, old |-> Tail(m.old)]
<1>10. next \in [merged : Seq(Entry), new : Seq(Nat), old : Seq(Entry)]
    BY <1>2, <1>4
<1>11. /\ next.merged = l /\ next.new = rest /\ next.old = Tail(m.old)
    OBVIOUS
<1> HIDE DEF next
<1>12. \A f \in Range(l) : \A x \in Range(rest) : f.address.name < x
    <2>1. \A f \in Range(m.merged) : \A x \in Range(rest) : f.address.name < x
        BY DEF Merging
    <2> QED BY <1>4, <2>1
<1>13. \A f \in Range(l) : \A g \in Range(Tail(m.old)) : f.address.name < g.address.name
    BY <1>2, <1>3, <1>4, <1>8 DEF Merging
<1>14. \A f \in Range(old) : f \in Range(Tail(m.old)) \/ \E g \in Range(l) : g.address = f.address
    BY <1>2, <1>4, <1>8 DEF Merging
<1>15. \A f \in Range(l) : IsAdded(n, new, f) \/ \E g \in Range(old) : g.address = f.address
    BY <1>4, <1>7, <1>8 DEF Merging
<1>16. Range(Tail(m.old)) \subseteq Range(old)
    BY <1>2 DEF Merging
<1>17. Merging(n, new, old, next)
    BY <1>3, <1>6, <1>9, <1>10, <1>11, <1>12, <1>13, <1>14, <1>15, <1>16 DEF Merging
<1> QED BY <1>17 DEF next, l

(* One step of the loops, which has less left to do after it.              *)
Rest(m) == Len(m.new) + Len(m.old)

LEMMA DiffStep ==
    ASSUME NEW n \in Name, NEW new \in Seq(Nat), NEW old \in Seq(Entry), NEW m,
           IsFiniteSet(Allocated), \A e \in Range(old) : ~e.deleted,
           Merging(n, new, old, m)
    PROVE  /\ Merging(n, new, old, Diff(n)[m])
           /\ Rest(m) \in Nat
           /\ Rest(Diff(n)[m]) \in Nat
           /\ Rest(m) > 0 => Rest(Diff(n)[m]) < Rest(m)
<1> DEFINE next == Diff(n)[m]
           o == Head(m.old)
           x == Head(m.new)
<1>1. m \in [merged : Seq(Entry), new : Seq(Nat), old : Seq(Entry)]
    BY DEF Merging
<1>2. /\ Len(m.new) \in Nat /\ Len(m.old) \in Nat
      /\ m.new # <<>> => Len(m.new) # 0 /\ Len(Tail(m.new)) = Len(m.new) - 1 /\ x \in Nat
      /\ m.old # <<>> => Len(m.old) # 0 /\ Len(Tail(m.old)) = Len(m.old) - 1 /\ o \in Entry
    BY <1>1, LenProperties, RangeOfTail
<1>3. m.old # <<>> => o.address.name \in Nat
    BY <1>2 DEF Entry, Structure
<1>4. Len(m.new) \in Nat /\ Len(m.old) \in Nat
    BY <1>2
<1>5. PICK a \in Nat, b \in Nat : a = Len(m.new) /\ b = Len(m.old)
    BY <1>4
<1>6. Rest(m) = a + b
    BY <1>5 DEF Rest
<1> HIDE DEF next
<1>7. CASE IsNew(m)
    <2>1. ~IsGone(m)
        BY <1>2, <1>3, <1>7 DEF IsNew, IsGone
    <2>2. Diff(n)[m] = [merged |-> Append(m.merged, Added(n, x)), new |-> Tail(m.new), old |-> m.old]
        BY <1>1, <1>7, <2>1 DEF Diff
    <2>3. Merging(n, new, old, next)
        BY <1>7, <2>2, MergesNew DEF next
    <2>4. next.new = Tail(m.new) /\ next.old = m.old /\ m.new # <<>>
        BY <1>7, <2>2 DEF next, IsNew
    <2>5. Rest(next) = Len(m.new) - 1 + Len(m.old) /\ Len(m.new) # 0
        BY <1>2, <2>4 DEF Rest
    <2>6. Rest(next) = (a - 1) + b /\ a # 0
        BY <1>5, <2>5
    <2>7. Rest(m) \in Nat /\ Rest(next) \in Nat /\ Rest(next) < Rest(m)
        BY <1>6, <2>6
    <2> QED BY <2>3, <2>7 DEF next
<1>8. CASE ~IsNew(m) /\ IsGone(m)
    <2> DEFINE e == [o EXCEPT !.deleted = TRUE]
    <2>1. next = [merged |-> Append(m.merged, e), new |-> m.new, old |-> Tail(m.old)]
        BY <1>1, <1>8 DEF Diff, next
    <2>2. m.old # <<>> /\ (m.new # <<>> => x > o.address.name)
        BY <1>8 DEF IsGone
    <2>3. e \in Entry /\ e.address = o.address /\ e.deleted
        BY <1>2, <2>2 DEF Entry
    <2> HIDE DEF e
    <2>4. \A y \in Range(m.new) : e.address.name < y
        <3> SUFFICES ASSUME NEW y \in Range(m.new) PROVE e.address.name < y
            OBVIOUS
        <3>1. m.new # <<>> /\ m.new \in Seq(Nat)
            BY <1>1 DEF Range
        <3>2. y = x \/ x < y
            BY <3>1, RangeOfTail, AscendingTail DEF Merging
        <3>3. y \in Nat /\ x \in Nat /\ o.address.name \in Nat
            BY <1>2, <1>3, <2>2, <3>1, RangeOfSeq
        <3> QED BY <2>2, <2>3, <3>1, <3>2, <3>3
    <2>5. m.new \in Seq(Nat) /\ Ascending(m.new)
        BY <1>1 DEF Merging
    <2>6. Merging(n, new, old, next)
        BY <2>1, <2>2, <2>3, <2>4, <2>5, MergesOld
    <2>7. Rest(next) = Len(m.new) + (Len(m.old) - 1) /\ Len(m.old) # 0
        BY <1>2, <2>1, <2>2 DEF Rest
    <2>8. Rest(next) = a + (b - 1) /\ b # 0
        BY <1>5, <2>7
    <2>9. Rest(m) \in Nat /\ Rest(next) \in Nat /\ Rest(next) < Rest(m)
        BY <1>6, <2>8
    <2> QED BY <2>6, <2>9 DEF next
<1>9. CASE ~IsNew(m) /\ ~IsGone(m) /\ m.old # <<>>
    <2>1. next = [merged |-> Append(m.merged, o), new |-> Tail(m.new), old |-> Tail(m.old)]
        BY <1>1, <1>9 DEF Diff, next
    <2>2. m.new # <<>> /\ x = o.address.name
        BY <1>2, <1>3, <1>9 DEF IsNew, IsGone
    <2>3. o \in Entry /\ ~o.deleted
        <3>1. o \in Range(old)
            BY <1>1, <1>9, RangeOfTail DEF Merging
        <3> QED BY <1>2, <1>9, <3>1
    <2>4. /\ Tail(m.new) \in Seq(Nat) /\ Ascending(Tail(m.new))
          /\ \A y \in Range(Tail(m.new)) : x < y
          /\ Range(m.new) = {x} \cup Range(Tail(m.new))
        BY <1>1, <2>2, RangeOfTail, AscendingTail DEF Merging
    <2>5. \A y : y \in Range(m.new) <=> y \in Range(Tail(m.new)) \/ (~o.deleted /\ o.address.name = y)
        BY <2>2, <2>3, <2>4
    <2>6. \A y \in Range(Tail(m.new)) : o.address.name < y
        BY <2>2, <2>4
    <2> DEFINE rest == Tail(m.new)
    <2> HIDE DEF rest, o
    <2>7. Merging(n, new, old, [merged |-> Append(m.merged, o), new |-> rest, old |-> Tail(m.old)])
        <3>1. o.address = Head(m.old).address
            BY DEF o
        <3>2. rest \in Seq(Nat) /\ Ascending(rest) /\ \A y \in Range(rest) : o.address.name < y
            BY <2>4, <2>6 DEF rest
        <3>3. \A y : y \in Range(m.new) <=> y \in Range(rest) \/ (~o.deleted /\ o.address.name = y)
            BY <2>5 DEF rest
        <3> QED BY <1>9, <2>3, <3>1, <3>2, <3>3, MergesOld
    <2>8. Merging(n, new, old, next)
        BY <2>1, <2>7 DEF rest
    <2>9. Rest(next) = (Len(m.new) - 1) + (Len(m.old) - 1) /\ Len(m.old) # 0 /\ Len(m.new) # 0
        BY <1>2, <1>9, <2>1, <2>2 DEF Rest
    <2>10. Rest(next) = (a - 1) + (b - 1) /\ a # 0 /\ b # 0
        BY <1>5, <2>9
    <2>11. Rest(m) \in Nat /\ Rest(next) \in Nat /\ Rest(next) < Rest(m)
        BY <1>6, <2>10
    <2> QED BY <2>8, <2>11 DEF next
<1>10. CASE ~IsNew(m) /\ ~IsGone(m) /\ m.old = <<>>
    <2>1. next = m
        BY <1>1, <1>10 DEF Diff, next
    <2>2. m.new = <<>>
        BY <1>10 DEF IsNew
    <2>3. Rest(m) = 0
        BY <1>10, <2>2 DEF Rest
    <2> QED BY <2>1, <2>3 DEF next
<1> QED BY <1>7, <1>8, <1>9, <1>10 DEF next


LEMMA NothingLeft ==
    ASSUME NEW m \in [merged : Seq(Entry), new : Seq(Nat), old : Seq(Entry)], Rest(m) = 0
    PROVE  m.new = <<>> /\ m.old = <<>>
<1>1. Len(m.new) \in Nat /\ Len(m.old) \in Nat
    BY LenProperties
<1>2. PICK a \in Nat, b \in Nat : a = Len(m.new) /\ b = Len(m.old)
    BY <1>1
<1>3. a + b = 0
    BY <1>2 DEF Rest
<1>4. a = 0 /\ b = 0
    BY <1>3
<1> QED BY <1>2, <1>4, EmptySeq

(* The loops end with all of it merged.                                    *)
LEMMA MergeMerges ==
    ASSUME NEW n \in Name, NEW new \in Seq(Nat), NEW old \in Seq(Entry),
           IsFiniteSet(Allocated), \A e \in Range(old) : ~e.deleted,
           Ascending(new), ByName(old)
    PROVE  Merged(n, new, old, Merge(n, new, old))
<1> DEFINE all == Len(new) + Len(old)
           start == [merged |-> <<>>, new |-> new, old |-> old]
           step == Diff(n)
           run == CHOOSE f : IsRun(f, start, step, all)
           Good(k) == Merging(n, new, old, run[k]) /\ Rest(run[k]) \in Nat /\ Rest(run[k]) + k <= all
           Bad == {k \in 0 .. all : ~Good(k)}
<1>1. all \in Nat
    BY LenProperties
<1>2. Merge(n, new, old) = run[all].merged
    BY DEF Merge, IsRun
<1>3. IsRun(run, start, step, all)
    <2> HIDE DEF start, step, all
    <2> QED BY <1>1, Runs
<1> HIDE DEF run
<1>4. run[0] = start
    BY <1>1, <1>3 DEF IsRun
<1>5. \A k \in 1 .. all : run[k] = step[run[k - 1]]
    <2> HIDE DEF start, step, all
    <2>1. \A k \in 0 .. all : run[k] = IF k = 0 THEN start ELSE step[run[k - 1]]
        BY <1>3 DEF IsRun
    <2> QED BY <1>1, <2>1
<1>6. Good(0)
    <2>1. start \in [merged : Seq(Entry), new : Seq(Nat), old : Seq(Entry)]
        BY EmptySeq
    <2>2. start.merged = <<>> /\ start.new = new /\ start.old = old
        OBVIOUS
    <2>3. Range(start.merged) = {} /\ ByName(start.merged)
        BY <2>2 DEF Range, ByName
    <2> HIDE DEF start
    <2>4. Merging(n, new, old, start)
        BY <2>1, <2>2, <2>3 DEF Merging
    <2>5. Rest(start) = all
        BY <2>2 DEF Rest
    <2> HIDE DEF all
    <2> QED BY <1>1, <1>4, <2>4, <2>5
<1>7. ASSUME NEW k \in 0 .. all, k # 0, Good(k - 1) PROVE Good(k)
    <2>1. run[k] = step[run[k - 1]] /\ k \in Nat /\ k - 1 \in Nat
        BY <1>1, <1>5, <1>7
    <2>2. /\ Merging(n, new, old, run[k]) /\ Rest(run[k]) \in Nat
          /\ Rest(run[k - 1]) > 0 => Rest(run[k]) < Rest(run[k - 1])
        BY <1>7, <2>1, DiffStep
    <2>3. CASE Rest(run[k - 1]) > 0
        BY <1>1, <1>7, <2>1, <2>2, <2>3
    <2>4. CASE Rest(run[k - 1]) = 0
        <3>1. run[k - 1].new = <<>> /\ run[k - 1].old = <<>>
            <4>1. run[k - 1] \in [merged : Seq(Entry), new : Seq(Nat), old : Seq(Entry)]
                BY <1>7 DEF Merging
            <4> QED BY <2>4, <4>1, NothingLeft
        <3>2. run[k] = run[k - 1]
            <4>1. run[k - 1] \in [merged : Seq(Entry), new : Seq(Nat), old : Seq(Entry)]
                BY <1>7 DEF Merging
            <4> QED BY <2>1, <3>1, <4>1 DEF Diff, IsNew, IsGone
        <3> QED BY <1>1, <2>1, <2>2, <2>4, <3>2
    <2> QED BY <1>7, <2>3, <2>4
<1>8. Bad = {}
    <2>1. SUFFICES ASSUME Bad # {} PROVE FALSE
        OBVIOUS
    <2>2. Bad \subseteq Nat
        OBVIOUS
    <2> HIDE DEF Good
    <2>3. PICK k \in Bad : \A j \in Bad : k <= j
        <3> HIDE DEF Bad
        <3> QED BY <2>1, <2>2, LeastOf, Zenon
    <2>4. k # 0 /\ k \in 0 .. all /\ ~Good(k)
        BY <1>6, <2>3
    <2>5. k - 1 \in 0 .. all /\ ~(k <= k - 1)
        BY <1>1, <2>4
    <2>6. Good(k - 1)
        BY <2>3, <2>5
    <2> QED BY <1>7, <2>4, <2>6
<1>9. Good(all)
    <2> HIDE DEF Good
    <2> QED BY <1>1, <1>8
<1> DEFINE m == run[all]
<1>10. Merging(n, new, old, m) /\ Rest(m) \in Nat /\ Rest(m) + all <= all
    BY <1>9
<1> HIDE DEF m
<1>11. m.new = <<>> /\ m.old = <<>>
    <2>1. m \in [merged : Seq(Entry), new : Seq(Nat), old : Seq(Entry)]
        BY <1>10 DEF Merging
    <2>2. Rest(m) = 0
        BY <1>1, <1>10
    <2> QED BY <2>1, <2>2, NothingLeft
<1>12. Range(m.new) = {} /\ Range(m.old) = {}
    BY <1>11 DEF Range
<1>13. Merged(n, new, old, m.merged)
    <2>1. m.merged \in Seq(Entry) /\ ByName(m.merged)
        BY <1>10 DEF Merging
    <2>2. \A x : x \in Range(new) <=> \E e \in Range(m.merged) : ~e.deleted /\ e.address.name = x
        BY <1>10, <1>12 DEF Merging
    <2>3. \A e \in Range(old) : \E f \in Range(m.merged) : f.address = e.address
        BY <1>10, <1>12 DEF Merging
    <2>4. \A e \in Range(m.merged) : IsAdded(n, new, e) \/ \E f \in Range(old) : f.address = e.address
        BY <1>10 DEF Merging
    <2> QED BY <2>1, <2>2, <2>3, <2>4 DEF Merged
<1> QED BY <1>2, <1>13 DEF m


-----------------------------------------------------------------------------
(* What is taken out of a list is what is marked.                          *)
LEMMA UnmarkedKeeps ==
    ASSUME NEW l \in Seq(Entry), ByName(l)
    PROVE  /\ Unmarked(l) \in Seq(Entry)
           /\ ByName(Unmarked(l))
           /\ Range(Unmarked(l)) = {e \in Range(l) : ~e.deleted}
<1> DEFINE places == {i \in DOMAIN l : ~l[i].deleted}
           kept == Sorted[places]
           u == Unmarked(l)
<1>1. DOMAIN l = 1 .. Len(l) /\ Len(l) \in Nat /\ l \in [1 .. Len(l) -> Entry]
    BY LenProperties
<1>2. places \subseteq Nat /\ IsFiniteSet(places)
    <2>1. places \in SUBSET (1 .. Len(l)) /\ IsFiniteSet(1 .. Len(l))
        <3>1. places \subseteq DOMAIN l
            OBVIOUS
        <3> QED BY <1>1, <3>1, FS_Interval
    <2> HIDE DEF places
    <2>2. IsFiniteSet(places)
        BY <2>1, FS_Subset
    <2>3. places \subseteq Nat
        BY <1>1, <2>1
    <2> QED BY <2>2, <2>3
<1>3. kept \in Seq(places) /\ Ascending(kept) /\ Range(kept) = places
    <2> HIDE DEF places
    <2> QED BY <1>2, SortedNumbers
<1>4. u = [k \in DOMAIN kept |-> l[kept[k]]]
    BY DEF Unmarked
<1> HIDE DEF kept, u
<1>5. DOMAIN kept = 1 .. Len(kept) /\ Len(kept) \in Nat /\ \A k \in DOMAIN kept : kept[k] \in places
    <2> HIDE DEF places
    <2> QED BY <1>3, LenProperties, ElementOfSeq
<1>6. u \in Seq(Entry)
    <2>1. u \in [1 .. Len(kept) -> Entry]
        BY <1>1, <1>4, <1>5
    <2> QED BY <1>5, <2>1, SeqDef
<1>7. ByName(u)
    <2> SUFFICES ASSUME NEW i \in DOMAIN kept, NEW j \in DOMAIN kept, i < j
                 PROVE  u[i].address.name < u[j].address.name
        BY <1>4 DEF ByName
    <2>1. kept[i] < kept[j]
        BY <1>3 DEF Ascending
    <2>2. kept[i] \in DOMAIN l /\ kept[j] \in DOMAIN l
        BY <1>5
    <2> QED BY <1>4, <2>1, <2>2 DEF ByName
<1>8. ASSUME NEW e \in Range(u) PROVE e \in Range(l) /\ ~e.deleted
    <2>1. PICK k \in DOMAIN kept : e = l[kept[k]]
        BY <1>4 DEF Range
    <2>2. kept[k] \in places
        BY <1>5
    <2> QED BY <2>1, <2>2 DEF Range
<1>9. ASSUME NEW e \in Range(l), ~e.deleted PROVE e \in Range(u)
    <2>1. PICK i \in DOMAIN l : e = l[i]
        BY DEF Range
    <2>2. i \in Range(kept)
        BY <1>3, <1>9, <2>1
    <2>3. PICK k \in DOMAIN kept : i = kept[k]
        BY <2>2 DEF Range
    <2> QED BY <1>4, <2>1, <2>3 DEF Range
<1> QED BY <1>6, <1>7, <1>8, <1>9 DEF u

-----------------------------------------------------------------------------
(* The structures in the lists are finitely many.                          *)
LEMMA FiniteRange ==
    ASSUME NEW f, IsFiniteSet(DOMAIN f), f = [x \in DOMAIN f |-> f[x]]
    PROVE  IsFiniteSet(Range(f))
<1>1. f \in Surjection(DOMAIN f, Range(f))
    BY DEF Surjection, Range
<1> QED BY <1>1, FS_Surjection

LEMMA InStructures ==
    ASSUME NEW l, NEW a
    PROVE  a \in Structures(l) <=> \E n \in Name : \E e \in Range(l[n]) : a = e.address
BY DEF Structures

LEMMA StructuresType ==
    ASSUME NEW l \in [Name -> Seq(Entry)]
    PROVE  IsFiniteSet(Structures(l)) /\ Structures(l) \subseteq Structure
<1> DEFINE ranges == [n \in Name |-> Range(l[n])]
           entries == UNION Range(ranges)
           address == [e \in entries |-> e.address]
<1>1. ASSUME NEW n \in Name PROVE IsFiniteSet(Range(l[n])) /\ Range(l[n]) \subseteq Entry
    <2>1. l[n] \in Seq(Entry)
        OBVIOUS
    <2>2. DOMAIN l[n] = 1 .. Len(l[n]) /\ Len(l[n]) \in Nat /\ l[n] \in [1 .. Len(l[n]) -> Entry]
        BY <2>1, LenProperties
    <2>3. IsFiniteSet(DOMAIN l[n])
        BY <2>2, FS_Interval
    <2>4. l[n] = [x \in DOMAIN l[n] |-> l[n][x]]
        BY <2>2
    <2> QED BY <2>1, <2>3, <2>4, FiniteRange, RangeOfSeq
<1>2. IsFiniteSet(Range(ranges))
    <2>1. DOMAIN ranges = Name /\ ranges = [n \in DOMAIN ranges |-> ranges[n]]
        OBVIOUS
    <2> HIDE DEF ranges
    <2> QED BY <2>1, FiniteRange, ResolveAssumption
<1>3. \A r \in Range(ranges) : IsFiniteSet(r) /\ r \subseteq Entry
    BY <1>1 DEF Range
<1>4. IsFiniteSet(entries) /\ entries \subseteq Entry
    <2> HIDE DEF ranges
    <2> QED BY <1>2, <1>3, FS_UNION
<1>5. IsFiniteSet(Range(address))
    <2>1. DOMAIN address = entries /\ address = [e \in DOMAIN address |-> address[e]]
        OBVIOUS
    <2> HIDE DEF address, entries
    <2> QED BY <1>4, <2>1, FiniteRange
<1>6. Structures(l) = Range(address)
    <2>1. Range(ranges) = {Range(l[n]) : n \in Name}
        BY DEF Range
    <2>2. Range(address) = {e.address : e \in entries}
        BY DEF Range
    <2> HIDE DEF ranges
    <2> QED BY <2>1, <2>2 DEF Structures
<1>7. Structures(l) \subseteq Structure
    BY <1>1 DEF Structures, Entry
<1> QED BY <1>5, <1>6, <1>7

-----------------------------------------------------------------------------
(* The vnodes of finitely many addresses                                   *)
Vnode == [hash : Nat, address : Structure]

(* A set of addresses of which none is there twice, nor one that no        *)
(* hostname may have                                                       *)
Addressable(A) ==
    /\ A \in SUBSET Structure /\ IsFiniteSet(A)
    /\ \A a \in A : a.name \in Known(a.host)
    /\ \A a, b \in A : a.host = b.host /\ a.name = b.name => a = b

LEMMA VnodesAre ==
    ASSUME NEW A, Addressable(A)
    PROVE  /\ \A v : v \in VnodesOf(A) <=>
                \E a \in A : \E h \in Vnodes[a.host][a.name] : v = [hash |-> h, address |-> a]
           /\ VnodesOf(A) \subseteq Vnode /\ IsFiniteSet(VnodesOf(A))
<1> DEFINE vnode(a) == [h \in Vnodes[a.host][a.name] |-> [hash |-> h, address |-> a]]
           of == [a \in A |-> Range(vnode(a))]
<1>1. ASSUME NEW v
      PROVE  v \in VnodesOf(A) <=>
                \E a \in A : \E h \in Vnodes[a.host][a.name] : v = [hash |-> h, address |-> a]
    BY DEF VnodesOf
<1>2. ASSUME NEW a \in A
      PROVE  Vnodes[a.host][a.name] \subseteq Nat /\ IsFiniteSet(Vnodes[a.host][a.name])
    <2>1. a.host \in Name /\ a.name \in Known(a.host)
        BY DEF Addressable, Structure
    <2> QED BY <2>1, VnodesAssumption, HashAssumption
<1>3. VnodesOf(A) \subseteq Vnode
    BY <1>1, <1>2 DEF Vnode, Addressable
<1>4. \A a \in A : IsFiniteSet(of[a])
    <2> SUFFICES ASSUME NEW a \in A PROVE IsFiniteSet(Range(vnode(a)))
        OBVIOUS
    <2>1. DOMAIN vnode(a) = Vnodes[a.host][a.name] /\ vnode(a) = [h \in DOMAIN vnode(a) |-> vnode(a)[h]]
        OBVIOUS
    <2> HIDE DEF vnode
    <2> QED BY <1>2, <2>1, FiniteRange
<1>5. IsFiniteSet(Range(of)) /\ \A s \in Range(of) : IsFiniteSet(s)
    <2>1. DOMAIN of = A /\ of = [a \in DOMAIN of |-> of[a]] /\ IsFiniteSet(A)
        BY DEF Addressable
    <2> HIDE DEF of
    <2>2. IsFiniteSet(Range(of))
        BY <2>1, FiniteRange
    <2> QED BY <1>4, <2>1, <2>2 DEF Range
<1>6. VnodesOf(A) = UNION Range(of)
    <2>1. ASSUME NEW v PROVE v \in UNION Range(of) <=> \E a \in A : v \in Range(vnode(a))
        <3>1. Range(of) = {Range(vnode(a)) : a \in A}
            BY DEF Range
        <3> HIDE DEF of, vnode
        <3> QED BY <3>1
    <2>2. ASSUME NEW v, NEW a \in A
          PROVE  v \in Range(vnode(a)) <=>
                    \E h \in Vnodes[a.host][a.name] : v = [hash |-> h, address |-> a]
        BY DEF Range
    <2> HIDE DEF of, vnode
    <2> QED BY <1>1, <2>1, <2>2
<1> HIDE DEF of, vnode
<1>7. IsFiniteSet(VnodesOf(A))
    BY <1>5, <1>6, FS_UNION
<1> QED BY <1>1, <1>3, <1>7

(* They can be sorted, and no two have one place.                          *)
LEMMA RanksAre ==
    ASSUME NEW A, Addressable(A), NEW rank \in Ranks
    PROVE  /\ \A u, v \in VnodesOf(A) :
                /\ RankOf(rank, u) \in Nat
                /\ u.hash < v.hash => RankOf(rank, u) < RankOf(rank, v)
                /\ RankOf(rank, u) = RankOf(rank, v) => u = v
           /\ IsFiniteSet({RankOf(rank, v) : v \in VnodesOf(A)})
<1>1. ASSUME NEW u \in VnodesOf(A), NEW v \in VnodesOf(A)
      PROVE  /\ RankOf(rank, u) \in Nat
             /\ u.hash < v.hash => RankOf(rank, u) < RankOf(rank, v)
             /\ RankOf(rank, u) = RankOf(rank, v) => u = v
    <2>1. PICK a \in A : \E g \in Vnodes[a.host][a.name] : u = [hash |-> g, address |-> a]
        BY VnodesAre
    <2>2. PICK g \in Vnodes[a.host][a.name] : u = [hash |-> g, address |-> a]
        BY <2>1
    <2>3. PICK b \in A : \E h \in Vnodes[b.host][b.name] : v = [hash |-> h, address |-> b]
        BY VnodesAre
    <2>4. PICK h \in Vnodes[b.host][b.name] : v = [hash |-> h, address |-> b]
        BY <2>3
    <2>5. /\ a.host \in Name /\ a.name \in Known(a.host)
          /\ b.host \in Name /\ b.name \in Known(b.host)
        BY DEF Addressable, Structure
    <2>6. /\ RankOf(rank, u) = rank[a.host][a.name][g] /\ RankOf(rank, v) = rank[b.host][b.name][h]
          /\ u.hash = g /\ v.hash = h
        BY <2>2, <2>4 DEF RankOf
    <2>7. /\ rank[a.host][a.name][g] \in Nat
          /\ g < h => rank[a.host][a.name][g] < rank[b.host][b.name][h]
          /\ rank[a.host][a.name][g] = rank[b.host][b.name][h] =>
                a.host = b.host /\ a.name = b.name /\ g = h
        BY <2>5, RanksAssumption
    <2>8. a.host = b.host /\ a.name = b.name => a = b
        BY DEF Addressable
    <2> QED BY <2>2, <2>4, <2>6, <2>7, <2>8
<1> DEFINE rankof == [v \in VnodesOf(A) |-> RankOf(rank, v)]
<1>2. {RankOf(rank, v) : v \in VnodesOf(A)} = Range(rankof)
    BY DEF Range
<1>3. DOMAIN rankof = VnodesOf(A) /\ rankof = [v \in DOMAIN rankof |-> rankof[v]]
    OBVIOUS
<1>4. IsFiniteSet(VnodesOf(A))
    BY VnodesAre
<1> HIDE DEF rankof
<1>5. IsFiniteSet(Range(rankof))
    BY <1>3, <1>4, FiniteRange
<1> QED BY <1>1, <1>2, <1>5

(* The ring is in the order of the hashes, of which some may be equal, and *)
(* has all vnodes.                                                         *)
IsRing(r) ==
    /\ r \in Seq(Vnode)
    /\ \A i, j \in DOMAIN r : i < j => r[i].hash <= r[j].hash

LEMMA RingIs ==
    ASSUME NEW A, Addressable(A), NEW rank \in Ranks
    PROVE  IsRing(RingOf(A, rank)) /\ Range(RingOf(A, rank)) = VnodesOf(A)
<1> DEFINE vnodes == VnodesOf(A)
           at(v) == RankOf(rank, v)
           places == {at(v) : v \in vnodes}
           order == Sorted[places]
           pick(x) == CHOOSE v \in vnodes : at(v) = x
           r == RingOf(A, rank)
<1>1. /\ \A u, v \in vnodes : /\ at(u) \in Nat
                              /\ u.hash < v.hash => at(u) < at(v)
                              /\ at(u) = at(v) => u = v
      /\ places \subseteq Nat /\ IsFiniteSet(places)
    BY RanksAre
<1>2. vnodes \subseteq Vnode
    BY VnodesAre
<1>3. order \in Seq(places) /\ Ascending(order) /\ Range(order) = places
    <2> HIDE DEF places
    <2> QED BY <1>1, SortedNumbers
<1>4. r = [i \in DOMAIN order |-> pick(order[i])]
    BY DEF RingOf
<1>5. \A x \in places : pick(x) \in vnodes /\ at(pick(x)) = x
    <2> HIDE DEF at, vnodes
    <2> QED OBVIOUS
<1>6. \A v \in vnodes : at(v) \in places
    <2> HIDE DEF at, vnodes
    <2> QED OBVIOUS
<1> HIDE DEF r, order, pick, places, at, vnodes
<1>7. DOMAIN order = 1 .. Len(order) /\ Len(order) \in Nat /\ \A i \in DOMAIN order : order[i] \in places
    BY <1>3, LenProperties, ElementOfSeq
<1>8. \A i \in DOMAIN order : r[i] \in vnodes /\ at(r[i]) = order[i]
    BY <1>4, <1>5, <1>7
<1>9. r \in Seq(Vnode)
    <2>1. r \in [1 .. Len(order) -> Vnode]
        BY <1>2, <1>4, <1>7, <1>8
    <2> QED BY <1>7, <2>1, SeqDef
<1>10. ASSUME NEW i \in DOMAIN r, NEW j \in DOMAIN r, i < j PROVE r[i].hash <= r[j].hash
    <2>1. i \in DOMAIN order /\ j \in DOMAIN order
        BY <1>4, <1>10
    <2>2. r[i] \in vnodes /\ r[j] \in vnodes /\ at(r[i]) < at(r[j]) /\ at(r[i]) \in Nat /\ at(r[j]) \in Nat
        BY <1>1, <1>3, <1>8, <1>10, <2>1 DEF Ascending
    <2>3. r[i].hash \in Nat /\ r[j].hash \in Nat
        BY <1>2, <2>2 DEF Vnode
    <2>4. ~(r[j].hash < r[i].hash)
        BY <1>1, <2>2
    <2> QED BY <2>3, <2>4
<1>11. ASSUME NEW v \in vnodes PROVE v \in Range(r)
    <2>1. PICK i \in DOMAIN order : order[i] = at(v)
        BY <1>3, <1>6 DEF Range
    <2>2. r[i] = v /\ i \in DOMAIN r
        BY <1>1, <1>4, <1>8, <2>1
    <2> QED BY <2>2 DEF Range
<1>12. ASSUME NEW v \in Range(r) PROVE v \in vnodes
    BY <1>4, <1>8 DEF Range
<1>13. IsRing(r) /\ Range(r) = vnodes
    BY <1>9, <1>10, <1>11, <1>12 DEF IsRing
<1> QED BY <1>13 DEF r, vnodes

(* The ring has the addresses that it is built of, but for those that have *)
(* no vnode.                                                               *)
LEMMA RingMembers ==
    ASSUME NEW A, Addressable(A), NEW rank \in Ranks
    PROVE  {v.address : v \in Range(RingOf(A, rank))} = WithVnodes(A)
<1>1. Range(RingOf(A, rank)) = VnodesOf(A)
    BY RingIs
<1>2. ASSUME NEW v \in VnodesOf(A) PROVE v.address \in WithVnodes(A)
    BY VnodesAre DEF WithVnodes
<1>3. ASSUME NEW a \in WithVnodes(A) PROVE \E v \in VnodesOf(A) : v.address = a
    <2>1. PICK h \in Vnodes[a.host][a.name] : TRUE
        BY DEF WithVnodes
    <2>2. [hash |-> h, address |-> a] \in VnodesOf(A)
        BY VnodesAre DEF WithVnodes
    <2> QED BY <2>2
<1> QED BY <1>1, <1>2, <1>3


-----------------------------------------------------------------------------
(* The lists of the hostnames and the last good replies.                   *)
ListsFor(l, t) ==
    /\ l \in [Name -> Seq(Entry)]
    /\ t \in [Host -> SUBSET Nat]
    /\ \A n \in Name :
        /\ ByName(l[n])
        /\ \A e \in Range(l[n]) : e.address.host = n /\ e.address.name \in Known(n)
    /\ \A n \in Host : \A x :
        x \in t[n] <=> \E e \in Range(l[n]) : ~e.deleted /\ e.address.name = x

AnyUnmarked(l) == \E n \in Name : \E e \in Range(l[n]) : ~e.deleted
AllUnmarked(l) == \A n \in Name : \A e \in Range(l[n]) : ~e.deleted

(* What holds of the addresses of the worker.  Unless an update is due,    *)
(* the ring has what the lists have; if one is due, there is something to  *)
(* build a ring of.                                                        *)
ListInv ==
    /\ index \in {0} \cup Host /\ updated \in BOOLEAN /\ waiting \in BOOLEAN
    /\ ListsFor(list, told)
    /\ \A n \in Name : \A e \in Range(list[n]) : e.deleted => n < index
    /\ dead \subseteq Structure /\ IsFiniteSet(dead) /\ dead \cap Structures(list) = {}
    /\ held \subseteq Structure /\ held \subseteq Structures(list) \cup dead
    /\ InRing \subseteq Structures(list)
    /\ addressNum \in Nat /\ Cardinality(InRing) <= addressNum
    /\ updated => index # 0 /\ AnyUnmarked(list)
    /\ ~updated => /\ InRing = WithVnodes(Structures(list)) /\ AllUnmarked(list)
                   /\ addressNum = Cardinality(Structures(list))

(* What the resolver knows, and the one datagram on its way: none between  *)
(* rounds, or after a loss.                                                *)
MessageInv ==
    /\ DOMAIN dns = Host
    /\ \A h \in Host : dns[h] \in Results[h] /\ cache[h] \in Results[h] \cup {NoResult}
    /\ lost \in 0 .. MaxLost
    /\ \/ queries = <<>> /\ replies = <<>> /\ (index = 0 \/ lost > 0)
       \/ queries = <<index>> /\ replies = <<>> /\ index # 0
       \/ /\ queries = <<>> /\ index # 0
          /\ \E r \in Seq(Nat) : replies = <<r>> /\ Ascending(r) /\ Range(r) \subseteq Known(index)

ResolveInv == ListInv /\ MessageInv

LEMMA ResolveInvGives ==
    ASSUME ResolveInv
    PROVE  Addresses /\ OneQuery
<1>1. OneQuery
    <2>1. lost \in Nat
        BY ResolverAssumption DEF ResolveInv, MessageInv
    <2>2. CASE queries = <<>> /\ replies = <<>> /\ (index = 0 \/ lost > 0)
        <3>1. Len(queries) = 0 /\ Len(replies) = 0
            BY <2>2
        <3> QED BY <2>1, <2>2, <3>1 DEF OneQuery
    <2>3. CASE queries = <<index>> /\ replies = <<>> /\ index # 0
        <3>1. Len(queries) = 1 /\ Len(replies) = 0 /\ Head(queries) = index
            BY <2>3
        <3> QED BY <2>3, <3>1 DEF OneQuery
    <2>4. CASE queries = <<>> /\ index # 0 /\ \E r \in Seq(Nat) : replies = <<r>>
        <3>1. Len(queries) = 0 /\ Len(replies) = 1 /\ replies # <<>>
            BY <2>4
        <3> QED BY <2>4, <3>1 DEF OneQuery
    <2> QED BY <2>2, <2>3, <2>4 DEF ResolveInv, MessageInv
<1>2. list \in [Name -> Seq(Entry)]
    BY DEF ResolveInv, ListInv, ListsFor
<1>4. addressNum \in Nat
    BY DEF ResolveInv, ListInv
<1>5. ResolveTypes
    BY <1>2, <1>4 DEF ResolveTypes, ResolveInv, ListInv, ListsFor, MessageInv
<1>6. Lists
    <2>1. ASSUME NEW n \in Name
          PROVE  /\ \A i, j \in DOMAIN list[n] :
                        i < j => list[n][i].address.name < list[n][j].address.name
                 /\ \A i \in DOMAIN list[n] : list[n][i].deleted => n < index
        BY DEF ResolveInv, ListInv, ListsFor, ByName, Range
    <2>2. ASSUME NEW n \in Host
          PROVE  told[n] = {e.address.name : e \in {x \in Range(list[n]) : ~x.deleted}}
        <3>1. \A x : x \in told[n] <=> \E e \in Range(list[n]) : ~e.deleted /\ e.address.name = x
            BY DEF ResolveInv, ListInv, ListsFor
        <3> QED BY <3>1
    <2>3. dead \cap Structures(list) = {}
        BY DEF ResolveInv, ListInv
    <2> QED BY <1>5, <2>1, <2>2, <2>3 DEF Lists
<1>7. InUse
    BY DEF InUse, ResolveInv, ListInv, Allocated
<1> QED BY <1>1, <1>6, <1>7 DEF Addresses


-----------------------------------------------------------------------------
(* An address is in a list once.                                           *)
LEMMA OncePerName ==
    ASSUME NEW l, NEW t, ListsFor(l, t),
           NEW a \in Structures(l), NEW b \in Structures(l), a.host = b.host, a.name = b.name
    PROVE  a = b
<1>1. PICK n \in Name : \E e \in Range(l[n]) : a = e.address
    BY InStructures
<1>2. PICK m \in Name : \E f \in Range(l[m]) : b = f.address
    BY InStructures
<1>3. m = n
    BY <1>1, <1>2 DEF ListsFor
<1>4. PICK i \in DOMAIN l[n], j \in DOMAIN l[n] : a = l[n][i].address /\ b = l[n][j].address
    BY <1>1, <1>2, <1>3 DEF Range
<1>5. l[n] \in Seq(Entry) /\ ByName(l[n])
    BY DEF ListsFor
<1>6. i \in Nat /\ j \in Nat /\ l[n][i].address.name \in Nat
    <2>1. DOMAIN l[n] = 1 .. Len(l[n]) /\ Len(l[n]) \in Nat
        BY <1>5, LenProperties
    <2>2. l[n][i] \in Entry
        BY <1>5, <2>1, ElementOfSeq
    <2> QED BY <2>1, <2>2 DEF Entry, Structure
<1>7. ~(i < j) /\ ~(j < i)
    BY <1>4, <1>5, <1>6 DEF ByName
<1> QED BY <1>4, <1>6, <1>7

(* The lists at the end of a round that changed something.                 *)
LEMMA UnmarkedLists ==
    ASSUME NEW l, NEW t, ListsFor(l, t)
    PROVE  LET kept == [n \in Name |-> Unmarked(l[n])] IN
           /\ ListsFor(kept, t)
           /\ AllUnmarked(kept)
           /\ AnyUnmarked(l) => AnyUnmarked(kept)
           /\ Structures(kept) \subseteq Structures(l)
<1> DEFINE kept == [n \in Name |-> Unmarked(l[n])]
<1>1. ASSUME NEW n \in Name
      PROVE  /\ kept[n] \in Seq(Entry) /\ ByName(kept[n])
             /\ Range(kept[n]) = {e \in Range(l[n]) : ~e.deleted}
    BY UnmarkedKeeps DEF ListsFor
<1>2. kept = [n \in Name |-> kept[n]]
    OBVIOUS
<1> HIDE DEF kept
<1>3. kept \in [Name -> Seq(Entry)]
    BY <1>1, <1>2
<1>4. ASSUME NEW n \in Name, NEW e \in Range(kept[n]) PROVE e \in Range(l[n]) /\ ~e.deleted
    BY <1>1
<1>5. ASSUME NEW n \in Name, NEW e \in Range(l[n]), ~e.deleted PROVE e \in Range(kept[n])
    BY <1>1, <1>5
<1>6. ASSUME NEW n \in Host, NEW x
      PROVE  x \in t[n] <=> \E e \in Range(kept[n]) : ~e.deleted /\ e.address.name = x
    <2>1. n \in Name
        BY DEF Name
    <2>2. x \in t[n] <=> \E e \in Range(l[n]) : ~e.deleted /\ e.address.name = x
        BY DEF ListsFor
    <2> QED BY <1>4, <1>5, <2>1, <2>2
<1>7. ListsFor(kept, t)
    <2>1. \A n \in Name : ByName(kept[n])
        BY <1>1
    <2>2. \A n \in Name : \A e \in Range(kept[n]) : e.address.host = n /\ e.address.name \in Known(n)
        BY <1>4 DEF ListsFor
    <2>3. t \in [Host -> SUBSET Nat]
        BY DEF ListsFor
    <2> QED BY <1>3, <1>6, <2>1, <2>2, <2>3 DEF ListsFor
<1>8. AllUnmarked(kept) /\ (AnyUnmarked(l) => AnyUnmarked(kept))
    BY <1>4, <1>5 DEF AllUnmarked, AnyUnmarked
<1>9. Structures(kept) \subseteq Structures(l)
    BY <1>4, InStructures
<1> QED BY <1>7, <1>8, <1>9 DEF kept

(* A ring that is built of the lists                                       *)
LEMMA ListsAddressable ==
    ASSUME NEW l, NEW t, ListsFor(l, t)
    PROVE  Addressable(Structures(l))
<1>1. IsFiniteSet(Structures(l)) /\ Structures(l) \in SUBSET Structure
    BY StructuresType DEF ListsFor
<1>2. \A a \in Structures(l) : a.name \in Known(a.host)
    BY InStructures DEF ListsFor
<1>3. \A a, b \in Structures(l) : a.host = b.host /\ a.name = b.name => a = b
    BY OncePerName
<1> QED BY <1>1, <1>2, <1>3 DEF Addressable

LEMMA RingOfLists ==
    ASSUME NEW l, NEW t, ListsFor(l, t), NEW rank \in Ranks
    PROVE  {v.address : v \in Range(RingOf(Structures(l), rank))} = WithVnodes(Structures(l))
BY ListsAddressable, RingMembers

LEMMA Fewer ==
    ASSUME NEW A, IsFiniteSet(A)
    PROVE  /\ WithVnodes(A) \subseteq A
           /\ Cardinality(A) \in Nat /\ Cardinality(WithVnodes(A)) <= Cardinality(A)
<1>1. WithVnodes(A) \in SUBSET A
    BY DEF WithVnodes
<1> QED BY <1>1, FS_Subset, FS_CardinalityType

-----------------------------------------------------------------------------
(* What a callback has done to the addresses when it goes on with the      *)
(* round: `t` are the last good replies, `l` the lists.                    *)
Asking(l, changed, unfreed, t) ==
    /\ index \in {0} \cup Host /\ waiting \in BOOLEAN /\ changed \in BOOLEAN
    /\ ListsFor(l, t)
    /\ \A n \in Name : \A e \in Range(l[n]) : e.deleted => n <= index
    /\ unfreed \subseteq Structure /\ IsFiniteSet(unfreed) /\ unfreed \cap Structures(l) = {}
    /\ held \subseteq Structure /\ held \subseteq Structures(l) \cup unfreed
    /\ InRing \subseteq Structures(l)
    /\ addressNum \in Nat /\ Cardinality(InRing) <= addressNum
    /\ changed => AnyUnmarked(l)
    /\ ~changed => /\ InRing = WithVnodes(Structures(l)) /\ AllUnmarked(l)
                   /\ addressNum = Cardinality(Structures(l))
    /\ unfreed = dead \/ index = 0

LEMMA HostNumbers == Host \subseteq Name /\ Name \subseteq Nat \ {0} /\ Host # {}
BY ResolveAssumption DEF Name

(* There is a next hostname to ask for.                                    *)
LEMMA AskAnother ==
    ASSUME NEW l, NEW changed, NEW unfreed, NEW t, Asking(l, changed, unfreed, t),
           AskNext(l, changed, unfreed), held' = held, told' = t,
           {h \in Host : h > index} # {}
    PROVE  ListInv'
<1> DEFINE next == {h \in Host : h > index}
<1>1. Least(next) \in next
    <2>1. next \subseteq Nat /\ next # {}
        BY HostNumbers
    <2> HIDE DEF next
    <2> QED BY <2>1, LeastOf
<1>2. /\ index' = Least(next) /\ list' = l /\ updated' = changed /\ dead' = unfreed
      /\ ring' = ring /\ addressNum' = addressNum /\ waiting' = waiting
    BY DEF AskNext
<1>3. index' \in Host /\ index' > index /\ index' # 0
    BY <1>1, <1>2, HostNumbers
<1> HIDE DEF next
<1>4. \A n \in Name : \A e \in Range(l[n]) : e.deleted => n < index'
    <2> SUFFICES ASSUME NEW n \in Name, NEW e \in Range(l[n]), e.deleted PROVE n < index'
        OBVIOUS
    <2>1. n \in Nat /\ index \in Nat /\ index' \in Nat /\ n <= index
        BY <1>3, HostNumbers DEF Asking
    <2> QED BY <1>3, <2>1
<1>5. InRing' = InRing
    BY <1>2 DEF InRing
<1> QED BY <1>2, <1>3, <1>4, <1>5 DEF ListInv, Asking

(* There is none, and the round ends.                                      *)
LEMMA RoundEnds ==
    ASSUME NEW l, NEW changed, NEW unfreed, NEW t, Asking(l, changed, unfreed, t),
           AskNext(l, changed, unfreed), held' = held, told' = t,
           {h \in Host : h > index} = {}
    PROVE  ListInv'
<1>1. Finish(l, changed)
    BY DEF AskNext
<1>2. index # 0 /\ unfreed = dead
    <2>1. \A h \in Host : h > 0
        BY HostNumbers
    <2>2. index # 0
        BY <2>1, HostNumbers
    <2> QED BY <2>2 DEF Asking
<1>3. index' = 0
    BY <1>1 DEF Finish
<1>4. CASE ~changed
    <2>1. /\ list' = l /\ updated' = FALSE /\ dead' = dead /\ ring' = ring
          /\ addressNum' = addressNum /\ waiting' = waiting
        BY <1>1, <1>4 DEF Finish
    <2>2. InRing' = InRing
        BY <2>1 DEF InRing
    <2>3. \A n \in Name : \A e \in Range(l[n]) : e.deleted => n < 0
        BY <1>4 DEF Asking, AllUnmarked
    <2> QED BY <1>2, <1>3, <1>4, <2>1, <2>2, <2>3 DEF ListInv, Asking
<1>5. CASE changed
    <2> DEFINE kept == [n \in Name |-> Unmarked(l[n])]
               left == Structures(kept)
    <2>1. /\ ListsFor(kept, t) /\ AllUnmarked(kept) /\ AnyUnmarked(kept)
          /\ left \subseteq Structures(l)
        BY <1>5, UnmarkedLists DEF Asking
    <2>2. left # {}
        <3> HIDE DEF kept
        <3> QED BY <2>1, InStructures DEF AnyUnmarked
    <2>3. /\ list' = kept /\ dead' = dead \cup (Structures(l) \ left)
          /\ addressNum' = Cardinality(left) /\ updated' = FALSE /\ waiting' = FALSE
          /\ \E rank \in Ranks : ring' = RingOf(left, rank)
        BY <1>1, <1>5, <2>2 DEF Finish
    <2> HIDE DEF kept
    <2>4. InRing' = WithVnodes(left)
        BY <2>1, <2>3, RingOfLists DEF InRing
    <2>10. /\ InRing' \subseteq left /\ addressNum' \in Nat
           /\ Cardinality(InRing') <= addressNum' /\ addressNum' = Cardinality(left)
        <3>1. IsFiniteSet(left)
            BY <2>1, StructuresType DEF ListsFor
        <3> HIDE DEF left
        <3> QED BY <2>3, <2>4, <3>1, Fewer
    <2>5. \A n \in Name : \A e \in Range(kept[n]) : e.deleted => n < 0
        BY <2>1 DEF AllUnmarked
    <2>6. IsFiniteSet(Structures(l)) /\ Structures(l) \subseteq Structure
        BY StructuresType DEF Asking, ListsFor
    <2>7. dead' \subseteq Structure /\ IsFiniteSet(dead')
        <3>1. IsFiniteSet(Structures(l) \ left)
            BY <2>6, FS_Difference
        <3>2. IsFiniteSet(dead) /\ dead \subseteq Structure
            BY <1>2 DEF Asking
        <3> QED BY <2>3, <2>6, <3>1, <3>2, FS_Union
    <2>8. dead' \cap left = {} /\ held' \subseteq left \cup dead' /\ held' \subseteq Structure
        BY <1>2, <2>1, <2>3 DEF Asking
    <2>9. left = Structures(kept)
        OBVIOUS
    <2> HIDE DEF left
    <2> QED BY <1>3, <2>1, <2>3, <2>4, <2>5, <2>7, <2>8, <2>9, <2>10 DEF ListInv
<1> QED BY <1>4, <1>5 DEF Asking

LEMMA AskNextKeepsLists ==
    ASSUME NEW l, NEW changed, NEW unfreed, NEW t, Asking(l, changed, unfreed, t),
           AskNext(l, changed, unfreed), held' = held, told' = t
    PROVE  ListInv'
BY AskAnother, RoundEnds


(* The query of the next hostname is on its way then, or the round over.   *)
LEMMA AskNextKeepsMessages ==
    ASSUME NEW l, NEW changed, NEW unfreed, AskNext(l, changed, unfreed),
           index \in {0} \cup Host, queries = <<>>, replies' = <<>>
    PROVE  \/ queries' = <<>> /\ index' = 0
           \/ queries' = <<index'>> /\ index' # 0
<1> DEFINE next == {h \in Host : h > index}
<1>1. CASE next = {}
    BY <1>1 DEF AskNext, Finish
<1>2. CASE next # {}
    <2>1. Least(next) \in next
        <3>1. next \subseteq Nat
            BY HostNumbers
        <3> HIDE DEF next
        <3> QED BY <1>2, <3>1, LeastOf
    <2>2. index' = Least(next) /\ queries' = Append(<<>>, Least(next))
        BY <1>2 DEF AskNext
    <2>3. index' # 0
        BY <2>1, <2>2, HostNumbers
    <2> HIDE DEF next
    <2> QED BY <2>2, <2>3
<1> QED BY <1>1, <1>2

-----------------------------------------------------------------------------
(* A list of a configuration, before the first round.                      *)
Begin(n, names) ==
    [i \in DOMAIN names |-> [address |-> [host |-> n, name |-> names[i], gen |-> 0],
                             deleted |-> FALSE]]

LEMMA BeginLists ==
    ASSUME NEW n \in Name, NEW names \in Seq(Nat), Ascending(names), Range(names) \subseteq Known(n)
    PROVE  /\ Begin(n, names) \in Seq(Entry)
           /\ ByName(Begin(n, names))
           /\ \A e \in Range(Begin(n, names)) :
                e.address.host = n /\ e.address.name \in Known(n) /\ ~e.deleted
           /\ \A x : x \in Range(names) <=> \E e \in Range(Begin(n, names)) : e.address.name = x
<1> DEFINE l == Begin(n, names)
<1>1. DOMAIN names = 1 .. Len(names) /\ Len(names) \in Nat /\ \A i \in DOMAIN names : names[i] \in Nat
    BY LenProperties, ElementOfSeq
<1>2. DOMAIN l = DOMAIN names
    BY DEF Begin
<1>3. \A i \in DOMAIN names : l[i] = [address |-> [host |-> n, name |-> names[i], gen |-> 0],
                                      deleted |-> FALSE]
    BY DEF Begin
<1>4. \A i \in DOMAIN names : l[i] \in Entry /\ l[i].address.host = n
                              /\ l[i].address.name = names[i] /\ ~l[i].deleted
    <2> SUFFICES ASSUME NEW i \in DOMAIN names
                 PROVE  /\ l[i] \in Entry /\ l[i].address.host = n
                        /\ l[i].address.name = names[i] /\ ~l[i].deleted
        OBVIOUS
    <2>1. [host |-> n, name |-> names[i], gen |-> 0] \in Structure
        BY <1>1 DEF Structure
    <2>2. l[i] = [address |-> [host |-> n, name |-> names[i], gen |-> 0], deleted |-> FALSE]
        BY <1>3
    <2>3. l[i] \in Entry
        BY <2>1, <2>2 DEF Entry
    <2> QED BY <2>2, <2>3
<1>5. l = [i \in DOMAIN names |-> l[i]]
    BY DEF Begin
<1> HIDE DEF l
<1>6. l \in Seq(Entry)
    <2>1. l \in [1 .. Len(names) -> Entry]
        BY <1>1, <1>4, <1>5
    <2> QED BY <1>1, <2>1, SeqDef
<1>7. ByName(l)
    BY <1>2, <1>4 DEF ByName, Ascending
<1>8. \A i \in DOMAIN names : names[i] \in Known(n)
    BY DEF Range
<1>9. \A e \in Range(l) : e.address.host = n /\ e.address.name \in Known(n) /\ ~e.deleted
    BY <1>2, <1>4, <1>8 DEF Range
<1>10. ASSUME NEW x PROVE x \in Range(names) <=> \E e \in Range(l) : e.address.name = x
    BY <1>2, <1>4 DEF Range
<1> QED BY <1>6, <1>7, <1>9, <1>10 DEF l

(* What the DNS knows of a hostname is a finite set of addresses.          *)
LEMMA ResultOf ==
    ASSUME NEW h \in Host, NEW r \in Results[h]
    PROVE  /\ r \subseteq Nat /\ IsFiniteSet(r) /\ r \subseteq Known(h)
           /\ Sorted[r] \in Seq(Nat) /\ Ascending(Sorted[r]) /\ Range(Sorted[r]) = r
<1>1. r \subseteq Nat /\ IsFiniteSet(r)
    BY ResolverAssumption
<1>2. Sorted[r] \in Seq(r) /\ Ascending(Sorted[r]) /\ Range(Sorted[r]) = r
    BY <1>1, SortedNumbers
<1>3. Sorted[r] \in Seq(Nat)
    BY <1>1, <1>2, SeqMonotonic
<1>4. r \subseteq Known(h)
    BY DEF Known
<1> QED BY <1>1, <1>2, <1>3, <1>4

LEMMA ResolveStarts == ResolveInit => ResolveInv
<1> SUFFICES ASSUME ResolveInit PROVE ResolveInv
    OBVIOUS
<1>1. \A h \in Host : dns[h] \in Results[h]
    BY DEF ResolveInit, ResolverInit
<1>2. MessageInv
    <2>1. lost = 0 /\ lost \in 0 .. MaxLost
        BY ResolverAssumption DEF ResolveInit, ResolverInit
    <2>2. DOMAIN dns = Host
        BY DEF ResolveInit, ResolverInit
    <2>3. \A h \in Host : cache[h] = NoResult
        BY DEF ResolveInit, ResolverInit
    <2>5. queries = <<>> /\ replies = <<>> /\ index = 0
        BY DEF ResolveInit, ResolverInit
    <2> QED BY <1>1, <2>1, <2>2, <2>3, <2>5 DEF MessageInv
<1>3. told \in [Host -> SUBSET Nat] /\ \A h \in Host : told[h] = {} \/ told[h] \in Results[h]
    <2>1. \A h \in Host : dns[h] \subseteq Nat
        BY <1>1, ResultOf
    <2>2. CASE told = [h \in Host |-> {}]
        BY <2>2
    <2>3. CASE told = dns
        BY <1>1, <2>1, <2>3 DEF ResolveInit, ResolverInit
    <2> QED BY <2>2, <2>3 DEF ResolveInit
<1>4. PICK statics \in SUBSET Static :
        list = [n \in Name |-> Begin(n, IF n \in Host THEN Sorted[told[n]]
                                        ELSE IF n \in statics THEN <<Fixed[n]>> ELSE <<>>)]
    BY DEF ResolveInit, Begin
<1> DEFINE names(n) == IF n \in Host THEN Sorted[told[n]]
                       ELSE IF n \in statics THEN <<Fixed[n]>> ELSE <<>>
<1>5. ASSUME NEW h \in Host
      PROVE  /\ Sorted[told[h]] \in Seq(Nat) /\ Ascending(Sorted[told[h]])
             /\ Range(Sorted[told[h]]) = told[h] /\ told[h] \subseteq Known(h)
    <2>1. CASE told[h] \in Results[h]
        BY <2>1, ResultOf
    <2>2. CASE told[h] = {}
        <3>1. {} \subseteq Nat /\ IsFiniteSet({})
            BY FS_EmptySet
        <3>2. /\ Sorted[{}] \in Seq({}) /\ Ascending(Sorted[{}]) /\ Range(Sorted[{}]) = {}
            BY <3>1, SortedNumbers
        <3>3. Sorted[{}] \in Seq(Nat)
            BY <3>2, SeqMonotonic
        <3> QED BY <2>2, <3>2, <3>3
    <2> QED BY <1>3, <2>1, <2>2
<1>6. ASSUME NEW n \in Name
      PROVE  /\ names(n) \in Seq(Nat) /\ Ascending(names(n)) /\ Range(names(n)) \subseteq Known(n)
    <2>1. CASE n \in Host
        BY <1>5, <2>1
    <2>2. CASE n \notin Host /\ n \in statics
        <3>1. names(n) = <<Fixed[n]>> /\ Fixed[n] \in Nat /\ Known(n) = {Fixed[n]}
            BY <2>2, ResolveAssumption DEF Known
        <3>2. \A i \in DOMAIN names(n) : i = 1 /\ names(n)[i] = Fixed[n]
            BY <3>1
        <3>3. Ascending(names(n)) /\ Range(names(n)) \subseteq Known(n)
            BY <3>1, <3>2 DEF Ascending, Range
        <3> HIDE DEF names
        <3>4. names(n) \in Seq(Nat)
            BY <3>1
        <3> QED BY <3>3, <3>4
    <2>3. CASE n \notin Host /\ n \notin statics
        <3>1. names(n) = <<>>
            BY <2>3
        <3> HIDE DEF names
        <3> QED BY <3>1 DEF Ascending, Range
    <2> QED BY <2>1, <2>2, <2>3
<1>7. \A n \in Name : list[n] = Begin(n, names(n))
    BY <1>4
<1>8. list = [n \in Name |-> list[n]]
    BY <1>4
<1>9. \A h \in Host : names(h) = Sorted[told[h]]
    OBVIOUS
<1> HIDE DEF names
<1>10. ASSUME NEW n \in Name
      PROVE  /\ list[n] \in Seq(Entry) /\ ByName(list[n])
             /\ \A e \in Range(list[n]) :
                    e.address.host = n /\ e.address.name \in Known(n) /\ ~e.deleted
             /\ \A x : x \in Range(names(n)) <=> \E e \in Range(list[n]) : e.address.name = x
    BY <1>6, <1>7, BeginLists
<1>11. ASSUME NEW h \in Host, NEW x
       PROVE  x \in told[h] <=> \E e \in Range(list[h]) : ~e.deleted /\ e.address.name = x
    <2>1. h \in Name /\ told[h] = Range(names(h))
        BY <1>5, <1>9, HostNumbers
    <2> QED BY <1>10, <2>1
<1>12. ListsFor(list, told)
    <2>1. list \in [Name -> Seq(Entry)]
        BY <1>8, <1>10
    <2> QED BY <1>3, <1>10, <1>11, <2>1 DEF ListsFor
<1>13. AllUnmarked(list)
    BY <1>10 DEF AllUnmarked
<1>14. /\ index = 0 /\ updated = FALSE /\ dead = {} /\ held = {} /\ waiting = FALSE
       /\ addressNum = Cardinality(Structures(list))
       /\ \E rank \in Ranks : ring = RingOf(Structures(list), rank)
    BY DEF ResolveInit
<1>15. InRing = WithVnodes(Structures(list))
    BY <1>12, <1>14, RingOfLists DEF InRing
<1>16. /\ InRing \subseteq Structures(list) /\ addressNum \in Nat
       /\ Cardinality(InRing) <= addressNum
    <2>1. IsFiniteSet(Structures(list))
        BY <1>12, StructuresType DEF ListsFor
    <2> QED BY <1>14, <1>15, <2>1, Fewer
<1>17. ListInv
    BY <1>12, <1>13, <1>14, <1>15, <1>16, FS_EmptySet DEF ListInv, AllUnmarked
<1> QED BY <1>2, <1>17 DEF ResolveInv


-----------------------------------------------------------------------------
(* A reply is read.                                                        *)
LEMMA ReadReply ==
    ASSUME ResolveInv, OnRead
    PROVE  /\ index \in Host /\ replies' = <<>> /\ queries = <<>>
           /\ \E r \in Seq(Nat) : replies = <<r>> /\ Ascending(r) /\ Range(r) \subseteq Known(index)
<1>1. replies # <<>> /\ replies' = Tail(replies)
    BY DEF OnRead
<1>2. queries = <<>> /\ index # 0
    BY <1>1 DEF ResolveInv, MessageInv
<1>3. PICK r \in Seq(Nat) : replies = <<r>> /\ Ascending(r) /\ Range(r) \subseteq Known(index)
    BY <1>1 DEF ResolveInv, MessageInv
<1>4. replies' = <<>>
    BY <1>1, <1>3
<1>5. index \in Host
    BY <1>2 DEF ResolveInv, ListInv
<1> QED BY <1>2, <1>3, <1>4, <1>5

LEMMA AllocatedFinite ==
    ASSUME ListInv
    PROVE  IsFiniteSet(Allocated) /\ IsFiniteSet(Structures(list)) /\ Structures(list) \subseteq Structure
<1>1. IsFiniteSet(Structures(list)) /\ Structures(list) \subseteq Structure
    BY StructuresType DEF ListInv, ListsFor
<1> QED BY <1>1, FS_Union DEF ListInv, Allocated

(* The lists and the good replies when one more is merged.                 *)
LEMMA MergedLists ==
    ASSUME ListInv, index \in Host, NEW r \in Seq(Nat), r # <<>>, Range(r) \subseteq Known(index),
           NEW merged, Merged(index, r, list[index], merged)
    PROVE  LET l == [list EXCEPT ![index] = merged]
               t == [told EXCEPT ![index] = Range(r)] IN
           /\ ListsFor(l, t)
           /\ \A n \in Name : \A e \in Range(l[n]) : e.deleted => n <= index
           /\ dead \cap Structures(l) = {}
           /\ Structures(list) \subseteq Structures(l)
           /\ AnyUnmarked(l)
<1> DEFINE l == [list EXCEPT ![index] = merged]
           t == [told EXCEPT ![index] = Range(r)]
<1>1. ListsFor(list, told) /\ index \in Name /\ index \in Nat
    BY HostNumbers DEF ListInv
<1>2. /\ l[index] = merged /\ \A n \in Name : n # index => l[n] = list[n]
      /\ t[index] = Range(r) /\ \A n \in Host : n # index => t[n] = told[n]
      /\ l = [n \in Name |-> l[n]] /\ t = [n \in Host |-> t[n]]
    BY <1>1 DEF ListsFor
<1> HIDE DEF l, t
<1>3. Range(r) \subseteq Nat
    BY RangeOfSeq
<1>4. merged \in Seq(Entry) /\ ByName(merged)
    BY DEF Merged
<1>5. ASSUME NEW e \in Range(merged) PROVE e.address.host = index /\ e.address.name \in Known(index)
    <2>1. CASE IsAdded(index, r, e)
        BY <2>1 DEF IsAdded
    <2>2. CASE \E f \in Range(list[index]) : f.address = e.address
        BY <1>1, <2>2 DEF ListsFor
    <2> QED BY <2>1, <2>2 DEF Merged
<1>6. l \in [Name -> Seq(Entry)]
    BY <1>1, <1>2, <1>4 DEF ListsFor
<1>7. t \in [Host -> SUBSET Nat]
    BY <1>1, <1>2, <1>3 DEF ListsFor
<1>8. ASSUME NEW n \in Name
      PROVE  /\ ByName(l[n])
             /\ \A e \in Range(l[n]) : e.address.host = n /\ e.address.name \in Known(n)
    <2>1. CASE n = index
        BY <1>2, <1>4, <1>5, <2>1
    <2>2. CASE n # index
        BY <1>1, <1>2, <2>2 DEF ListsFor
    <2> QED BY <2>1, <2>2
<1>9. ASSUME NEW n \in Host, NEW x
      PROVE  x \in t[n] <=> \E e \in Range(l[n]) : ~e.deleted /\ e.address.name = x
    <2>1. n \in Name
        BY HostNumbers
    <2>2. CASE n = index
        BY <1>2, <2>2 DEF Merged
    <2>3. CASE n # index
        BY <1>1, <1>2, <2>1, <2>3 DEF ListsFor
    <2> QED BY <2>2, <2>3
<1>10. ListsFor(l, t)
    BY <1>6, <1>7, <1>8, <1>9 DEF ListsFor
<1>11. ASSUME NEW n \in Name, NEW e \in Range(l[n]), e.deleted PROVE n <= index
    <2>1. n \in Nat
        BY HostNumbers
    <2>2. CASE n # index
        <3>1. n < index
            BY <1>2, <1>11, <2>2 DEF ListInv
        <3> QED BY <1>1, <2>1, <3>1
    <2> QED BY <2>1, <2>2
<1>12. ASSUME NEW a \in Structures(l) PROVE a \notin dead
    <2>1. PICK n \in Name : \E e \in Range(l[n]) : a = e.address
        BY InStructures
    <2>2. PICK e \in Range(l[n]) : a = e.address
        BY <2>1
    <2>3. CASE n # index
        <3>1. a \in Structures(list)
            BY <1>2, <2>2, <2>3, InStructures
        <3> QED BY <3>1 DEF ListInv
    <2>4. CASE n = index /\ IsAdded(index, r, e)
        BY <2>2, <2>4 DEF IsAdded, Allocated
    <2>5. CASE n = index /\ \E f \in Range(list[index]) : f.address = e.address
        <3>1. a \in Structures(list)
            BY <1>1, <2>2, <2>5, InStructures
        <3> QED BY <3>1 DEF ListInv
    <2> QED BY <1>2, <2>3, <2>4, <2>5 DEF Merged
<1>13. ASSUME NEW a \in Structures(list) PROVE a \in Structures(l)
    <2>1. PICK n \in Name : \E e \in Range(list[n]) : a = e.address
        BY InStructures
    <2>2. CASE n # index
        BY <1>2, <2>1, <2>2, InStructures
    <2>3. CASE n = index
        <3>1. \E f \in Range(merged) : f.address = a
            BY <2>1, <2>3 DEF Merged
        <3> QED BY <1>1, <1>2, <3>1, InStructures
    <2> QED BY <2>2, <2>3
<1>14. AnyUnmarked(l)
    <2>1. Head(r) \in Range(r)
        BY RangeOfTail
    <2>2. \E e \in Range(merged) : ~e.deleted
        BY <2>1 DEF Merged
    <2> QED BY <1>1, <1>2, <2>2 DEF AnyUnmarked
<1> QED BY <1>10, <1>11, <1>12, <1>13, <1>14 DEF l, t

LEMMA OnReadKeeps == ResolveInv /\ OnRead => ResolveInv'
<1> SUFFICES ASSUME ResolveInv, OnRead PROVE ResolveInv'
    OBVIOUS
<1>1. index \in Host /\ replies' = <<>> /\ queries = <<>>
    BY ReadReply
<1>2. PICK r \in Seq(Nat) : replies = <<r>> /\ Ascending(r) /\ Range(r) \subseteq Known(index)
    BY ReadReply
<1>3. Head(replies) = r
    BY <1>2
<1>4. ListInv
    BY DEF ResolveInv
<1>5. index \in Name /\ index # 0 /\ ListsFor(list, told)
    BY <1>1, <1>4, HostNumbers DEF ListInv
<1>6. PICK merged \in {IF r = <<>> THEN list[index] ELSE Merge(index, r, list[index])} :
        AskNext([list EXCEPT ![index] = merged], updated \/ merged # list[index], dead)
    BY <1>3 DEF OnRead
<1>7. told' = [told EXCEPT ![index] = IF r = <<>> THEN told[index] ELSE Range(r)]
    BY <1>3 DEF OnRead
<1>8. held' = held /\ dns' = dns /\ cache' = cache /\ lost' = lost
    BY DEF OnRead
<1> DEFINE l == [list EXCEPT ![index] = merged]
           changed == updated \/ merged # list[index]
<1>9. Asking(l, changed, dead, told')
    <2>1. CASE r = <<>>
        <3>1. merged = list[index]
            BY <1>6, <2>1
        <3>2. l = list /\ (changed <=> updated)
            BY <1>5, <3>1 DEF ListsFor
        <3>3. told' = told
            BY <1>5, <1>7, <2>1 DEF ListsFor
        <3> HIDE DEF l, changed
        <3>4. \A n \in Name : \A e \in Range(list[n]) : e.deleted => n <= index
            BY <1>4, <1>5, HostNumbers DEF ListInv
        <3> QED BY <1>4, <3>2, <3>3, <3>4 DEF Asking, ListInv
    <2>2. CASE r # <<>>
        <3>1. merged = Merge(index, r, list[index])
            BY <1>6, <2>2
        <3>2. list[index] \in Seq(Entry) /\ ByName(list[index])
            BY <1>5 DEF ListsFor
        <3>3. \A e \in Range(list[index]) : ~e.deleted
            BY <1>4, <1>5, HostNumbers DEF ListInv
        <3>4. Merged(index, r, list[index], merged)
            BY <1>2, <1>4, <1>5, <3>1, <3>2, <3>3, AllocatedFinite, MergeMerges
        <3>5. told' = [told EXCEPT ![index] = Range(r)]
            BY <1>7, <2>2
        <3>6. /\ ListsFor(l, told')
              /\ \A n \in Name : \A e \in Range(l[n]) : e.deleted => n <= index
              /\ dead \cap Structures(l) = {}
              /\ Structures(list) \subseteq Structures(l)
              /\ AnyUnmarked(l)
            BY <1>1, <1>2, <1>4, <2>2, <3>4, <3>5, MergedLists
        <3>7. ~changed => l = list /\ ~updated
            BY <1>5 DEF ListsFor
        <3>8. changed \in BOOLEAN
            BY <1>4 DEF ListInv
        <3> HIDE DEF l, changed
        <3>9. ~changed => /\ InRing = WithVnodes(Structures(l)) /\ AllUnmarked(l)
                          /\ addressNum = Cardinality(Structures(l))
            BY <1>4, <3>7 DEF ListInv
        <3> QED BY <1>4, <3>6, <3>8, <3>9 DEF Asking, ListInv
    <2> QED BY <2>1, <2>2
<1>10. AskNext(l, changed, dead)
    BY <1>6
<1> HIDE DEF l, changed
<1>11. ListInv'
    BY <1>8, <1>9, <1>10, AskNextKeepsLists
<1>12. \/ queries' = <<>> /\ index' = 0
       \/ queries' = <<index'>> /\ index' # 0
    <2>1. index \in {0} \cup Host
        BY <1>1
    <2> QED BY <1>1, <1>10, <2>1, AskNextKeepsMessages
<1>13. MessageInv'
    BY <1>1, <1>8, <1>12 DEF ResolveInv, MessageInv
<1> QED BY <1>11, <1>13 DEF ResolveInv

(* The timer, which runs between rounds.                                   *)
LEMMA TimerKeeps == ResolveInv /\ Timer => ResolveInv'
<1> SUFFICES ASSUME ResolveInv, Timer PROVE ResolveInv'
    OBVIOUS
<1>1. index = 0 /\ AskNext(list, updated, DeferFree)
    BY DEF Timer
<1>2. held' = held /\ told' = told /\ dns' = dns /\ cache' = cache /\ lost' = lost /\ replies' = replies
    BY DEF Timer
<1>3. ListInv
    BY DEF ResolveInv
<1>4. DeferFree \subseteq dead /\ IsFiniteSet(DeferFree) /\ dead \cap held \subseteq DeferFree
    <2>1. DeferFree \in SUBSET dead /\ dead \cap held \subseteq DeferFree
        BY DEF DeferFree
    <2> QED BY <1>3, <2>1, FS_Subset DEF ListInv
<1>5. \A n \in Name : \A e \in Range(list[n]) : e.deleted => n <= index
    <2> SUFFICES ASSUME NEW n \in Name, NEW e \in Range(list[n]), e.deleted PROVE n <= index
        OBVIOUS
    <2>1. n < 0 /\ n \in Nat
        BY <1>1, <1>3, HostNumbers DEF ListInv
    <2> QED BY <2>1
<1>6. Asking(list, updated, DeferFree, told')
    BY <1>1, <1>2, <1>3, <1>4, <1>5 DEF Asking, ListInv
<1>7. ListInv'
    BY <1>1, <1>2, <1>6, AskNextKeepsLists
<1>8. queries = <<>> /\ replies = <<>>
    BY <1>1 DEF ResolveInv, MessageInv
<1>9. \/ queries' = <<>> /\ index' = 0
      \/ queries' = <<index'>> /\ index' # 0
    <2>1. index \in {0} \cup Host /\ replies' = <<>>
        BY <1>1, <1>2, <1>8
    <2> QED BY <1>1, <1>8, <2>1, AskNextKeepsMessages
<1>10. MessageInv'
    BY <1>2, <1>8, <1>9 DEF ResolveInv, MessageInv
<1> QED BY <1>7, <1>10 DEF ResolveInv


(* Requests: an address of the ring is in the lists.                       *)
LEMMA RequestsKeep == ResolveInv /\ (Wait \/ Connect \/ Disconnect) => ResolveInv'
<1> SUFFICES ASSUME ResolveInv, Wait \/ Connect \/ Disconnect PROVE ResolveInv'
    OBVIOUS
<1>1. /\ queries' = queries /\ replies' = replies /\ dns' = dns /\ cache' = cache /\ lost' = lost
      /\ index' = index /\ updated' = updated /\ list' = list /\ dead' = dead
      /\ ring' = ring /\ addressNum' = addressNum /\ told' = told
    BY DEF Wait, Connect, Disconnect, rvars
<1>2. waiting' \in BOOLEAN
    BY DEF Wait, Connect, Disconnect, ResolveInv, ListInv
<1>3. held' \subseteq Structure /\ held' \subseteq Structures(list) \cup dead
    <2>1. InRing \subseteq Structures(list) /\ Structures(list) \subseteq Structure
        BY AllocatedFinite DEF ResolveInv, ListInv
    <2>2. held \subseteq Structure /\ held \subseteq Structures(list) \cup dead
        BY DEF ResolveInv, ListInv
    <2>3. \/ held' = held
          \/ \E a \in InRing : held' = held \cup {a}
          \/ \E a \in held : held' = held \ {a}
        BY DEF Wait, Connect, Disconnect
    <2> QED BY <2>1, <2>2, <2>3
<1>4. InRing' = InRing
    BY <1>1 DEF InRing
<1>5. ListInv'
    BY <1>1, <1>2, <1>3, <1>4 DEF ResolveInv, ListInv
<1>6. MessageInv'
    BY <1>1 DEF ResolveInv, MessageInv
<1> QED BY <1>5, <1>6 DEF ResolveInv

-----------------------------------------------------------------------------
(* The resolver.                                                           *)
LEMMA WorkerUnchanged ==
    ASSUME ListInv, UNCHANGED wvars
    PROVE  ListInv'
BY DEF ListInv, wvars, InRing

(* What it finds is a result of the hostname.                              *)
LEMMA ServeKeeps ==
    ASSUME MessageInv, NEW h \in Host, Serve(h)
    PROVE  /\ Found(h) \in Results[h]
           /\ dns' = dns /\ lost' = lost
           /\ \A x \in Host : cache'[x] \in Results[x] \cup {NoResult}
<1>1. Found(h) \in Results[h]
    BY DEF MessageInv, Found
<1>2. \A x \in Host : cache'[x] = IF x \in expired THEN NoResult
                                  ELSE IF x = h /\ Found(h) # {} THEN Found(h)
                                  ELSE cache[x]
    BY DEF Serve
<1> QED BY <1>1, <1>2 DEF MessageInv, Serve

LEMMA ReplyKeeps == ResolveInv /\ Reply /\ UNCHANGED wvars => ResolveInv'
<1> SUFFICES ASSUME ResolveInv, Reply, UNCHANGED wvars PROVE ResolveInv'
    OBVIOUS
<1>1. queries = <<index>> /\ replies = <<>> /\ index # 0
    BY DEF Reply, ResolveInv, MessageInv
<1>2. index \in Host /\ Head(queries) = index
    BY <1>1 DEF ResolveInv, ListInv
<1>3. Serve(index)
    BY <1>2 DEF Reply
<1>4. /\ Found(index) \in Results[index] /\ dns' = dns /\ lost' = lost
      /\ \A x \in Host : cache'[x] \in Results[x] \cup {NoResult}
    BY <1>2, <1>3, ServeKeeps DEF ResolveInv
<1> DEFINE r == Sorted[Found(index)]
<1>5. r \in Seq(Nat) /\ Ascending(r) /\ Range(r) \subseteq Known(index)
    BY <1>2, <1>4, ResultOf
<1>6. replies' = Append(<<>>, r) /\ queries' = Tail(<<index>>)
    BY <1>1, <1>2 DEF Reply
<1> HIDE DEF r
<1>7. replies' = <<r>> /\ queries' = <<>> /\ index' = index
    BY <1>6 DEF wvars
<1>8. MessageInv'
    BY <1>1, <1>4, <1>5, <1>7 DEF ResolveInv, MessageInv
<1> QED BY <1>8, WorkerUnchanged DEF ResolveInv

LEMMA ResolverKeeps == ResolveInv /\ ResolverNext /\ UNCHANGED wvars => ResolveInv'
<1> SUFFICES ASSUME ResolveInv, ResolverNext, UNCHANGED wvars PROVE ResolveInv'
    OBVIOUS
<1>1. ListInv'
    BY WorkerUnchanged DEF ResolveInv
<1>2. index' = index
    BY DEF wvars
<1>3. CASE Reply
    BY <1>3, ReplyKeeps
<1>4. CASE LoseQuery
    <2>1. queries = <<index>> /\ replies = <<>> /\ index # 0
        BY <1>4 DEF LoseQuery, ResolveInv, MessageInv
    <2>2. queries' = <<>> /\ replies' = <<>>
        BY <1>4, <2>1 DEF LoseQuery
    <2>3. lost' \in 0 .. MaxLost /\ lost' > 0
        BY <1>4, ResolverAssumption DEF LoseQuery, ResolveInv, MessageInv
    <2>4. MessageInv'
        BY <1>2, <1>4, <2>2, <2>3 DEF LoseQuery, ResolveInv, MessageInv
    <2> QED BY <1>1, <2>4 DEF ResolveInv
<1>5. CASE LoseReply
    <2>1. queries = <<>> /\ \E r \in Seq(Nat) : replies = <<r>>
        BY <1>5 DEF LoseReply, ResolveInv, MessageInv
    <2>2. queries' = <<>> /\ replies' = <<>>
        BY <1>5, <2>1 DEF LoseReply
    <2>3. lost' \in 0 .. MaxLost /\ lost' > 0
        BY <1>5, ResolverAssumption DEF LoseReply, ResolveInv, MessageInv
    <2>4. MessageInv'
        BY <1>2, <1>5, <2>2, <2>3 DEF LoseReply, ResolveInv, MessageInv
    <2> QED BY <1>1, <2>4 DEF ResolveInv
<1>6. ASSUME NEW h \in Host, ServeOther(h) PROVE ResolveInv'
    <2>1. Serve(h) /\ queries' = queries /\ replies' = replies
        BY <1>6 DEF ServeOther
    <2>2. dns' = dns /\ lost' = lost /\ \A x \in Host : cache'[x] \in Results[x] \cup {NoResult}
        BY <2>1, ServeKeeps DEF ResolveInv
    <2>3. MessageInv'
        BY <1>2, <2>1, <2>2 DEF ResolveInv, MessageInv
    <2> QED BY <1>1, <2>3 DEF ResolveInv
<1>7. ASSUME NEW h \in Host, Expires(h) PROVE ResolveInv'
    <2>1. MessageInv'
        BY <1>2, <1>7 DEF Expires, ResolveInv, MessageInv
    <2> QED BY <1>1, <2>1 DEF ResolveInv
<1>8. ASSUME NEW h \in Host, DnsChange(h) PROVE ResolveInv'
    <2>1. PICK r \in Results[h] : dns' = [dns EXCEPT ![h] = r]
        BY <1>8 DEF DnsChange
    <2>2. DOMAIN dns' = Host /\ \A x \in Host : dns'[x] \in Results[x]
        BY <2>1 DEF ResolveInv, MessageInv
    <2>3. queries' = queries /\ replies' = replies /\ cache' = cache /\ lost' = lost
        BY <1>8 DEF DnsChange
    <2>4. MessageInv'
        BY <1>2, <2>2, <2>3 DEF ResolveInv, MessageInv
    <2> QED BY <1>1, <2>4 DEF ResolveInv
<1> QED BY <1>3, <1>4, <1>5, <1>6, <1>7, <1>8 DEF ResolverNext

LEMMA ResolveStutters == ResolveInv /\ UNCHANGED rwvars => ResolveInv'
<1> SUFFICES ASSUME ResolveInv, UNCHANGED rwvars PROVE ResolveInv'
    OBVIOUS
<1>1. UNCHANGED wvars /\ UNCHANGED rvars
    BY DEF rwvars
<1>2. ListInv'
    BY <1>1, WorkerUnchanged DEF ResolveInv
<1>3. MessageInv'
    BY <1>1 DEF ResolveInv, MessageInv, wvars, rvars
<1> QED BY <1>2, <1>3 DEF ResolveInv

LEMMA ResolveInvariant == ResolveSpec => []ResolveInv
<1>1. ResolveInv /\ [ResolveNext]_rwvars => ResolveInv'
    BY OnReadKeeps, TimerKeeps, RequestsKeep, ResolverKeeps, ResolveStutters DEF ResolveNext
<1> QED BY <1>1, ResolveStarts, PTL DEF ResolveSpec

-----------------------------------------------------------------------------
(* The lists of a worker are the last good reply for each hostname, and    *)
(* what requests are given is in them (phl_upstream_resolve.c).            *)
THEOREM AddressesHold == ResolveSpec => []Addresses
<1>1. ResolveInv => Addresses
    BY ResolveInvGives
<1> QED BY <1>1, ResolveInvariant, PTL

(* There is one query or one reply in a round, and it is for the hostname  *)
(* that the round is at (phl_upstream_resolve_hostname()).                 *)
THEOREM OneQueryHolds == ResolveSpec => []OneQuery
<1>1. ResolveInv => OneQuery
    BY ResolveInvGives
<1> QED BY <1>1, ResolveInvariant, PTL


-----------------------------------------------------------------------------
(* The ring, from one update to the next                                   *)
LEMMA ListsRing ==
    ASSUME NEW l, NEW t, ListsFor(l, t), NEW rank \in Ranks
    PROVE  IsRing(RingOf(Structures(l), rank))
BY ListsAddressable, RingIs

LEMMA RingKept ==
    ASSUME ResolveInv, IsRing(ring), [ResolveNext]_rwvars
    PROVE  IsRing(ring')
<1>1. ResolveInv'
    BY OnReadKeeps, TimerKeeps, RequestsKeep, ResolverKeeps, ResolveStutters DEF ResolveNext
<1>2. \/ ring' = ring
      \/ \E rank \in Ranks : ring' = RingOf(Structures(list'), rank)
    <2>1. ASSUME NEW l, NEW changed, NEW unfreed, AskNext(l, changed, unfreed)
          PROVE  ring' = ring \/ \E rank \in Ranks : ring' = RingOf(Structures(list'), rank)
        BY <2>1 DEF AskNext, Finish
    <2>2. CASE OnRead
        BY <2>1, <2>2 DEF OnRead
    <2>3. CASE Timer
        BY <2>1, <2>3 DEF Timer
    <2>4. CASE Wait \/ Connect \/ Disconnect
        BY <2>4 DEF Wait, Connect, Disconnect
    <2>5. CASE UNCHANGED wvars \/ UNCHANGED rwvars
        BY <2>5 DEF wvars, rwvars
    <2> QED BY <2>2, <2>3, <2>4, <2>5 DEF ResolveNext
<1>3. ListsFor(list', told')
    BY <1>1 DEF ResolveInv, ListInv
<1>4. \A rank \in Ranks : IsRing(RingOf(Structures(list'), rank))
    BY <1>3, ListsRing
<1> QED BY <1>2, <1>4

LEMMA RingAtFirst == ResolveInit => IsRing(ring)
<1> SUFFICES ASSUME ResolveInit PROVE IsRing(ring)
    OBVIOUS
<1>1. ListsFor(list, told)
    BY ResolveStarts DEF ResolveInv, ListInv
<1>2. \E rank \in Ranks : ring = RingOf(Structures(list), rank)
    BY DEF ResolveInit
<1> QED BY <1>1, <1>2, ListsRing

-----------------------------------------------------------------------------
(* The binary search: a hash that is on the ring is in the window.         *)
HashWindow(r, h, w) ==
    /\ w \in [low : Nat, high : Nat]
    /\ 1 <= w.low /\ w.low <= w.high /\ w.high <= Len(r)
    /\ \A i \in DOMAIN r : r[i].hash = h => w.low <= i /\ i <= w.high

LEMMA NarrowKeeps ==
    ASSUME NEW r, IsRing(r), NEW h \in Nat, NEW w, HashWindow(r, h, w)
    PROVE  /\ Mid(w) \in DOMAIN r
           /\ HashWindow(r, h, Narrow(r, h)[w])
           /\ \/ /\ Narrow(r, h)[w] = w
                 /\ \A i \in DOMAIN r : r[i].hash = h => r[Mid(w)].hash = h
              \/ Narrow(r, h)[w].high - Narrow(r, h)[w].low < w.high - w.low
<1> DEFINE mid == Mid(w)
           next == Narrow(r, h)[w]
<1>1. w.low \in Nat /\ w.high \in Nat /\ 1 <= w.low /\ w.low <= w.high /\ w.high <= Len(r)
    BY DEF HashWindow
<1>2. mid \in Nat /\ w.low <= mid /\ mid <= w.high
    BY <1>1 DEF Mid
<1>3. DOMAIN r = 1 .. Len(r) /\ Len(r) \in Nat /\ \A i \in DOMAIN r : r[i].hash \in Nat
    <2>1. r \in Seq(Vnode)
        BY DEF IsRing
    <2>2. DOMAIN r = 1 .. Len(r) /\ Len(r) \in Nat
        BY <2>1, LenProperties
    <2>3. \A i \in DOMAIN r : r[i] \in Vnode
        BY <2>1, <2>2, ElementOfSeq
    <2> QED BY <2>2, <2>3 DEF Vnode
<1>4. mid \in DOMAIN r
    BY <1>1, <1>2, <1>3
<1>5. r[mid].hash \in Nat
    BY <1>3, <1>4
<1>6. \A i \in DOMAIN r : i \in Nat /\ (i < mid => r[i].hash <= r[mid].hash)
                                   /\ (mid < i => r[mid].hash <= r[i].hash)
    BY <1>3, <1>4 DEF IsRing
<1>7. \A i \in DOMAIN r : r[i].hash = h => w.low <= i /\ i <= w.high
    BY DEF HashWindow
<1>8. w \in [low : Nat, high : Nat] /\ w = [low |-> w.low, high |-> w.high]
    BY DEF HashWindow
<1> HIDE DEF mid
<1>9. CASE r[mid].hash < h /\ mid < w.high
    <2>1. next = [w EXCEPT !.low = mid + 1]
        BY <1>5, <1>8, <1>9 DEF Narrow, mid
    <2>2. next \in [low : Nat, high : Nat] /\ next.low = mid + 1 /\ next.high = w.high
        BY <1>2, <1>8, <2>1
    <2> HIDE DEF next
    <2>3. \A i \in DOMAIN r : r[i].hash = h => mid < i
        BY <1>2, <1>3, <1>5, <1>6, <1>9
    <2>4. HashWindow(r, h, next)
        BY <1>1, <1>2, <1>6, <1>7, <1>9, <2>2, <2>3 DEF HashWindow
    <2>5. next.high - next.low < w.high - w.low
        BY <1>1, <1>2, <2>2
    <2> QED BY <1>4, <2>4, <2>5 DEF next, mid
<1>10. CASE r[mid].hash > h /\ w.low < mid
    <2>1. next = [w EXCEPT !.high = mid - 1]
        BY <1>5, <1>8, <1>10 DEF Narrow, mid
    <2>2. next \in [low : Nat, high : Nat] /\ next.low = w.low /\ next.high = mid - 1
        BY <1>1, <1>2, <1>8, <1>10, <2>1
    <2> HIDE DEF next
    <2>3. \A i \in DOMAIN r : r[i].hash = h => i < mid
        BY <1>2, <1>3, <1>5, <1>6, <1>10
    <2>4. HashWindow(r, h, next)
        BY <1>1, <1>2, <1>6, <1>7, <1>10, <2>2, <2>3 DEF HashWindow
    <2>5. next.high - next.low < w.high - w.low
        BY <1>1, <1>2, <2>2
    <2> QED BY <1>4, <2>4, <2>5 DEF next, mid
<1>11. CASE ~(r[mid].hash < h /\ mid < w.high) /\ ~(r[mid].hash > h /\ w.low < mid)
    <2>1. next = w
        BY <1>8, <1>11 DEF Narrow, mid
    <2>2. ASSUME NEW i \in DOMAIN r, r[i].hash = h PROVE r[mid].hash = h
        <3>1. w.low <= i /\ i <= w.high /\ i \in Nat
            BY <1>6, <1>7, <2>2
        <3>2. ~(r[mid].hash < h)
            <4> SUFFICES ASSUME r[mid].hash < h PROVE FALSE
                OBVIOUS
            <4>1. ~(mid < w.high)
                BY <1>11
            <4>2. i <= mid
                BY <1>1, <1>2, <3>1, <4>1
            <4>3. i = mid \/ r[i].hash <= r[mid].hash
                BY <1>2, <1>6, <3>1, <4>2
            <4> QED BY <1>5, <2>2, <4>3
        <3>3. ~(r[mid].hash > h)
            <4> SUFFICES ASSUME r[mid].hash > h PROVE FALSE
                OBVIOUS
            <4>1. ~(w.low < mid)
                BY <1>11
            <4>2. mid <= i
                BY <1>1, <1>2, <3>1, <4>1
            <4>3. i = mid \/ r[mid].hash <= r[i].hash
                BY <1>2, <1>6, <3>1, <4>2
            <4> QED BY <1>5, <2>2, <4>3
        <3> QED BY <1>5, <3>2, <3>3
    <2> QED BY <1>4, <2>1, <2>2 DEF next, mid
<1> QED BY <1>9, <1>10, <1>11


(* The search ends at a vnode, which is the one with the hash if there is  *)
(* one.                                                                    *)
LEMMA SearchFinds ==
    ASSUME NEW r, IsRing(r), r # <<>>, NEW h \in Nat
    PROVE  /\ Search(r, h) \in DOMAIN r
           /\ \A i \in DOMAIN r : r[i].hash = h => r[Search(r, h)].hash = h
<1> DEFINE size == Len(r)
           start == [low |-> 1, high |-> size]
           step == Narrow(r, h)
           run == CHOOSE f : IsRun(f, start, step, size)
           Ended(w) == step[w] = w /\ \A i \in DOMAIN r : r[i].hash = h => r[Mid(w)].hash = h
           Good(k) == /\ HashWindow(r, h, run[k])
                      /\ Ended(run[k]) \/ run[k].high - run[k].low + k < size
           Bad == {k \in 0 .. size : ~Good(k)}
<1>1. size \in Nat \ {0} /\ DOMAIN r = 1 .. size /\ r \in Seq(Vnode)
    BY EmptySeq, LenProperties DEF IsRing
<1>2. Search(r, h) = Mid(run[size])
    BY DEF Search, IsRun
<1>3. IsRun(run, start, step, size)
    <2> HIDE DEF start, step, size
    <2> QED BY <1>1, Runs
<1> HIDE DEF run
<1>4. run[0] = start
    BY <1>1, <1>3 DEF IsRun
<1>5. \A k \in 1 .. size : run[k] = step[run[k - 1]]
    <2> HIDE DEF start, step, size
    <2>1. \A k \in 0 .. size : run[k] = IF k = 0 THEN start ELSE step[run[k - 1]]
        BY <1>3 DEF IsRun
    <2> QED BY <1>1, <2>1
<1>6. Good(0)
    <2>1. start.low = 1 /\ start.high = size /\ start \in [low : Nat, high : Nat]
        BY <1>1
    <2> HIDE DEF start
    <2>2. HashWindow(r, h, start)
        BY <1>1, <2>1 DEF HashWindow
    <2> HIDE DEF Ended
    <2> QED BY <1>1, <1>4, <2>1, <2>2
<1>7. ASSUME NEW k \in 0 .. size, k # 0, Good(k - 1) PROVE Good(k)
    <2> DEFINE w == run[k - 1]
    <2>1. run[k] = step[w] /\ k \in Nat
        BY <1>1, <1>5, <1>7
    <2>2. HashWindow(r, h, w)
        BY <1>7
    <2>3. /\ HashWindow(r, h, step[w])
          /\ Ended(w) \/ step[w].high - step[w].low < w.high - w.low
        BY <2>2, NarrowKeeps
    <2>4. CASE Ended(w)
        BY <2>1, <2>3, <2>4
    <2>5. CASE ~Ended(w)
        <3> HIDE DEF Ended, step, w
        <3>1. step[w].high - step[w].low < w.high - w.low
            BY <2>3, <2>5
        <3>2. w.high - w.low + (k - 1) < size
            BY <1>7, <2>5 DEF w
        <3>3. w.high \in Nat /\ w.low \in Nat /\ step[w].high \in Nat /\ step[w].low \in Nat
            BY <2>2, <2>3 DEF HashWindow
        <3>4. step[w].high - step[w].low + k < size
            BY <1>1, <2>1, <3>1, <3>2, <3>3
        <3> QED BY <2>1, <2>3, <3>4
    <2> QED BY <2>4, <2>5
<1>8. Bad = {}
    <2>1. SUFFICES ASSUME Bad # {} PROVE FALSE
        OBVIOUS
    <2>2. Bad \subseteq Nat
        OBVIOUS
    <2> HIDE DEF Good
    <2>3. PICK k \in Bad : \A j \in Bad : k <= j
        <3> HIDE DEF Bad
        <3> QED BY <2>1, <2>2, LeastOf, Zenon
    <2>4. k # 0 /\ k \in 0 .. size /\ ~Good(k)
        BY <1>6, <2>3
    <2>5. k - 1 \in 0 .. size /\ ~(k <= k - 1)
        BY <1>1, <2>4
    <2>6. Good(k - 1)
        BY <2>3, <2>5
    <2> QED BY <1>7, <2>4, <2>6
<1>9. Good(size)
    <2> HIDE DEF Good
    <2> QED BY <1>1, <1>8
<1> DEFINE last == run[size]
<1>10. HashWindow(r, h, last) /\ (Ended(last) \/ last.high - last.low + size < size)
    BY <1>9
<1> HIDE DEF last
<1>11. Ended(last)
    <2>1. last.high \in Nat /\ last.low \in Nat /\ last.low <= last.high
        BY <1>10 DEF HashWindow
    <2> HIDE DEF Ended
    <2> QED BY <1>1, <1>10, <2>1
<1>12. Mid(last) \in DOMAIN r
    BY <1>10, NarrowKeeps
<1> QED BY <1>2, <1>11, <1>12 DEF last

(* What is picked when some vnode is found.                                *)
LEMMA PickIs ==
    ASSUME NEW r, IsRing(r), NEW found \in DOMAIN r, NEW down
    PROVE  /\ \E i \in DOMAIN r : Pick(r, found, down) = r[i].address
           /\ Pick(r, found, down) \in down => \A i \in DOMAIN r : r[i].address \in down
           /\ r[found].address \notin down => Pick(r, found, down) = r[found].address
<1> DEFINE ahead == {i \in found .. Len(r) : r[i].address \notin down}
           behind == {i \in 1 .. found : r[i].address \notin down}
           up == IF ahead # {} THEN ahead ELSE behind
           first == CHOOSE i \in up : \A j \in up : i <= j
<1>1. DOMAIN r = 1 .. Len(r) /\ Len(r) \in Nat
    BY LenProperties DEF IsRing
<1>2. Pick(r, found, down) = r[IF up = {} THEN found ELSE first].address
    BY DEF Pick
<1>3. up \subseteq DOMAIN r /\ \A i \in up : r[i].address \notin down
    BY <1>1
<1>4. up # {} => first \in up /\ \A j \in up : first <= j
    <2> SUFFICES ASSUME up # {} PROVE first \in up /\ \A j \in up : first <= j
        OBVIOUS
    <2>1. up \subseteq Nat
        BY <1>1, <1>3
    <2>2. first = Least(up)
        BY DEF Least
    <2> HIDE DEF first, up
    <2> QED BY <2>1, <2>2, LeastOf
<1>5. up = {} => \A i \in DOMAIN r : r[i].address \in down
    <2> SUFFICES ASSUME up = {}, NEW i \in DOMAIN r PROVE r[i].address \in down
        OBVIOUS
    <2>1. i \in found .. Len(r) \/ i \in 1 .. found
        BY <1>1
    <2>2. ahead = {} /\ behind = {}
        OBVIOUS
    <2> QED BY <2>1, <2>2
<1>6. r[found].address \notin down => up # {} /\ first = found
    <2> SUFFICES ASSUME r[found].address \notin down PROVE up # {} /\ first = found
        OBVIOUS
    <2>1. found \in ahead
        BY <1>1
    <2>2. up = ahead
        BY <2>1
    <2>3. first \in ahead /\ first <= found
        <3> HIDE DEF first, ahead, up
        <3> QED BY <1>4, <2>1, <2>2
    <2> HIDE DEF first
    <2>4. first \in found .. Len(r)
        BY <2>3
    <2> QED BY <1>1, <2>1, <2>2, <2>3, <2>4
<1> HIDE DEF first, up
<1>7. CASE up = {}
    BY <1>2, <1>5, <1>6, <1>7
<1>8. CASE up # {}
    <2>1. Pick(r, found, down) = r[first].address /\ first \in DOMAIN r
        BY <1>2, <1>3, <1>4, <1>8
    <2>2. r[first].address \notin down
        BY <1>3, <1>4, <1>8
    <2> QED BY <1>6, <2>1, <2>2
<1> QED BY <1>7, <1>8

LEMMA RingFindsUp ==
    ASSUME IsRing(ring)
    PROVE  FindsUp
<1> SUFFICES ASSUME ring # <<>>, NEW h \in Hash, NEW down \in SUBSET InRing
             PROVE  LET a == Pick(ring, Search(ring, h), down)
                        own == {v.address : v \in {x \in Range(ring) : x.hash = h}} IN
                    /\ a \in InRing /\ (a \in down => InRing \subseteq down)
                    /\ own # {} /\ own \cap down = {} => a \in own
    BY DEF FindsUp
<1> DEFINE found == Search(ring, h)
           a == Pick(ring, found, down)
           own == {v.address : v \in {x \in Range(ring) : x.hash = h}}
<1>1. found \in DOMAIN ring /\ \A i \in DOMAIN ring : ring[i].hash = h => ring[found].hash = h
    BY SearchFinds, HashAssumption
<1>2. /\ \E i \in DOMAIN ring : a = ring[i].address
      /\ a \in down => \A i \in DOMAIN ring : ring[i].address \in down
      /\ ring[found].address \notin down => a = ring[found].address
    BY <1>1, PickIs
<1>3. a \in InRing /\ (a \in down => InRing \subseteq down)
    BY <1>2 DEF InRing, Range
<1>4. ASSUME own # {}, own \cap down = {} PROVE a \in own
    <2>1. PICK i \in DOMAIN ring : ring[i].hash = h
        BY <1>4 DEF Range
    <2>2. ring[found].hash = h /\ ring[found] \in Range(ring)
        BY <1>1, <2>1 DEF Range
    <2> HIDE DEF found, a
    <2>3. ring[found].address \in own
        BY <2>2
    <2> QED BY <1>2, <1>4, <2>3
<1> QED BY <1>3, <1>4


(* Of the addresses that have a vnode, one that is up is picked if any is; *)
(* and if the key has the hash of some vnode, and all with that hash are   *)
(* up, it is the address of one of these, in whatever order qsort() left   *)
(* equal ones (phl_upstream_hash_pick()).                                  *)
THEOREM FindsUpHolds == ResolveSpec => []FindsUp
<1> DEFINE Inv == ResolveInv /\ IsRing(ring)
<1>1. ResolveInit => Inv
    BY ResolveStarts, RingAtFirst
<1>2. Inv /\ [ResolveNext]_rwvars => Inv'
    <2>1. Inv /\ [ResolveNext]_rwvars => ResolveInv'
        BY OnReadKeeps, TimerKeeps, RequestsKeep, ResolverKeeps, ResolveStutters DEF ResolveNext
    <2>2. Inv /\ [ResolveNext]_rwvars => IsRing(ring)'
        BY RingKept
    <2> QED BY <2>1, <2>2
<1>3. Inv => FindsUp
    BY RingFindsUp
<1> QED BY <1>1, <1>2, <1>3, PTL DEF ResolveSpec
=============================================================================
