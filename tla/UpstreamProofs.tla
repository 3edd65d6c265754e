---------------------------- MODULE UpstreamProofs ----------------------------
(***************************************************************************)
(* Proofs about Upstream, for every number of addresses, requests and      *)
(* connections and all limits.                                             *)
(*                                                                         *)
(* The invariant is proved in two halves.  PoolInv is about connections:   *)
(* who uses them, and which list they are in; each step that touches them  *)
(* is one of few kinds, with a lemma each.  RequestInv is about marks and  *)
(* requests.                                                               *)
(***************************************************************************)
EXTENDS Upstream, TLAPS

USE NullAssumption, LimitAssumption, CheckedAssumption, FailLimitAssumption, PassLimitAssumption

-----------------------------------------------------------------------------
(* Lists without duplicates: `s` lists the connections S.                  *)
Lists(s, S) ==
    /\ s \in Seq(Connection)
    /\ \A i, j \in 1 .. Len(s) : s[i] = s[j] => i = j
    /\ {s[i] : i \in 1 .. Len(s)} = S

(* Taking the first one out of a list,                                     *)
LEMMA TailLists ==
    ASSUME NEW s, NEW S, Lists(s, S), s # <<>>
    PROVE  /\ Head(s) \in S
           /\ Lists(Tail(s), S \ {Head(s)})
           /\ Len(Tail(s)) = Len(s) - 1
  <1>1. /\ s \in Seq(Connection) /\ Len(s) \in Nat \ {0}
        /\ Tail(s) \in Seq(Connection) /\ Len(Tail(s)) = Len(s) - 1
        /\ Head(s) = s[1]
        /\ \A i \in 1 .. Len(s) - 1 : Tail(s)[i] = s[i + 1]
    BY DEF Lists
  <1>2. \A i, j \in 1 .. Len(s) : s[i] = s[j] => i = j
    BY DEF Lists
  <1>3. {s[i] : i \in 1 .. Len(s)} = S
    BY DEF Lists
  <1>4. Head(s) \in S
    BY <1>1, <1>3
  <1>5. \A i, j \in 1 .. Len(Tail(s)) : Tail(s)[i] = Tail(s)[j] => i = j
    BY <1>1, <1>2
  <1>6. \A i \in 1 .. Len(Tail(s)) : Tail(s)[i] \in S \ {Head(s)}
    BY <1>1, <1>2, <1>3
  <1>7. ASSUME NEW c \in S \ {Head(s)} PROVE \E i \in 1 .. Len(Tail(s)) : Tail(s)[i] = c
    <2>1. PICK i \in 1 .. Len(s) : s[i] = c
      BY <1>3
    <2>2. i # 1 /\ i - 1 \in 1 .. Len(Tail(s)) /\ Tail(s)[i - 1] = c
      BY <1>1, <1>7, <2>1
    <2> QED BY <2>2
  <1> QED BY <1>1, <1>4, <1>5, <1>6, <1>7 DEF Lists

(* out of the middle of it,                                                *)
LEMMA WithoutLists ==
    ASSUME NEW s, NEW S, Lists(s, S), NEW i \in 1 .. Len(s)
    PROVE  /\ Lists(Without(s, i), S \ {s[i]})
           /\ Len(Without(s, i)) = Len(s) - 1
  <1> DEFINE w == Without(s, i)
  <1>1. s \in Seq(Connection) /\ Len(s) \in Nat \ {0}
    BY DEF Lists
  <1>2. /\ w \in Seq(Connection) /\ Len(w) = Len(s) - 1
        /\ \A j \in 1 .. Len(s) - 1 : w[j] = IF j < i THEN s[j] ELSE s[j + 1]
    BY <1>1 DEF Without
  <1>3. \A j, k \in 1 .. Len(s) : s[j] = s[k] => j = k
    BY DEF Lists
  <1>4. {s[j] : j \in 1 .. Len(s)} = S
    BY DEF Lists
  <1> HIDE DEF w
  <1>5. \A j, k \in 1 .. Len(w) : w[j] = w[k] => j = k
    BY <1>1, <1>2, <1>3
  <1>6. \A j \in 1 .. Len(w) : w[j] \in S \ {s[i]}
    BY <1>1, <1>2, <1>3, <1>4
  <1>7. ASSUME NEW c \in S \ {s[i]} PROVE \E j \in 1 .. Len(w) : w[j] = c
    <2>1. PICK j \in 1 .. Len(s) : s[j] = c
      BY <1>4
    <2>2. CASE j < i
      BY <1>1, <1>2, <2>1, <2>2
    <2>3. CASE j > i
      <3>1. j - 1 \in 1 .. Len(w) /\ w[j - 1] = c
        BY <1>1, <1>2, <2>1, <2>3
      <3> QED BY <3>1
    <2> QED BY <1>1, <1>7, <2>1, <2>2, <2>3
  <1>8. {w[j] : j \in 1 .. Len(w)} = S \ {s[i]}
    BY <1>6, <1>7
  <1>9. Lists(w, S \ {s[i]})
    BY <1>2, <1>5, <1>8 DEF Lists
  <1> QED BY <1>2, <1>9 DEF w

(* and putting one at the end.                                             *)
LEMMA AppendLists ==
    ASSUME NEW s, NEW S, Lists(s, S), NEW c \in Connection, c \notin S
    PROVE  /\ Lists(Append(s, c), S \cup {c})
           /\ Len(Append(s, c)) = Len(s) + 1
  <1> DEFINE w == Append(s, c)
  <1>1. s \in Seq(Connection) /\ Len(s) \in Nat
    BY DEF Lists
  <1>2. /\ w \in Seq(Connection) /\ Len(w) = Len(s) + 1
        /\ \A j \in 1 .. Len(s) : w[j] = s[j]
        /\ w[Len(s) + 1] = c
    BY <1>1
  <1>3. \A j, k \in 1 .. Len(s) : s[j] = s[k] => j = k
    BY DEF Lists
  <1>4. {s[j] : j \in 1 .. Len(s)} = S
    BY DEF Lists
  <1> HIDE DEF w
  <1>5. \A j, k \in 1 .. Len(w) : w[j] = w[k] => j = k
    BY <1>1, <1>2, <1>3, <1>4
  <1>6. \A j \in 1 .. Len(w) : w[j] \in S \cup {c}
    BY <1>1, <1>2, <1>4
  <1>7. ASSUME NEW d \in S \cup {c} PROVE \E j \in 1 .. Len(w) : w[j] = d
    BY <1>1, <1>2, <1>4
  <1>8. {w[j] : j \in 1 .. Len(w)} = S \cup {c}
    BY <1>6, <1>7
  <1>9. Lists(w, S \cup {c})
    BY <1>2, <1>5, <1>8 DEF Lists
  <1> QED BY <1>2, <1>9 DEF w

-----------------------------------------------------------------------------
(* The idle connections of an address, which its list has to hold.         *)
IdleOf(a) == {c \in Connection : address[c] = a /\ owner[c] = None}

PoolTypes ==
    /\ idle \in [Address -> Seq(Connection)]
    /\ idleNum \in [Address -> Nat]
    /\ address \in [Connection -> Address \cup {None}]
    /\ owner \in [Connection -> Request \cup {None}]
    /\ upc \in [Request -> Connection \cup {None, Failed}]
    /\ errored \in SUBSET Connection

Owners ==
    /\ \A r \in Request, c \in Connection : upc[r] = c <=> owner[c] = r
    /\ \A c \in Connection : owner[c] # None => address[c] # None

IdleLists ==
    \A a \in Address : /\ Lists(idle[a], IdleOf(a))
                       /\ idleNum[a] = Len(idle[a])
                       /\ Len(idle[a]) <= IdleMax + 1

PoolInv == PoolTypes /\ Owners /\ IdleLists /\ CleanPool

LEMMA PoolInvImplies == PoolInv => Ownership /\ PoolBound /\ CleanPool
  <1> SUFFICES ASSUME PoolInv PROVE Ownership /\ PoolBound /\ CleanPool
    OBVIOUS
  <1>1. Owners /\ IdleLists /\ CleanPool
    BY DEF PoolInv
  <1> QED BY <1>1 DEF Owners, IdleLists, Lists, IdleOf, Ownership, PoolBound

(* Nothing happens to the lists; an error is noted on a connection in use. *)
LEMMA KeepLists ==
    ASSUME PoolInv, UNCHANGED <<idle, idleNum, address, owner, upc>>,
           errored' \subseteq errored \cup {c \in Connection : owner[c] # None}
    PROVE  PoolInv'
  <1>1. PoolTypes' /\ Owners' /\ CleanPool'
    BY DEF PoolInv, PoolTypes, Owners, CleanPool
  <1>2. IdleLists'
    BY DEF PoolInv, IdleLists, IdleOf, Lists
  <1> QED BY <1>1, <1>2 DEF PoolInv

(* A request without a connection takes an idle one,                       *)
LEMMA TakeIdle ==
    ASSUME PoolInv, NEW r \in Request, NEW a \in Address, upc[r] = None, idle[a] # <<>>,
           owner' = [owner EXCEPT ![Head(idle[a])] = r],
           upc' = [upc EXCEPT ![r] = Head(idle[a])],
           idle' = [idle EXCEPT ![a] = Tail(@)],
           idleNum' = [idleNum EXCEPT ![a] = @ - 1],
           UNCHANGED <<address, errored>>
    PROVE  PoolInv' /\ address[Head(idle[a])] = a /\ Head(idle[a]) \in Connection
  <1> DEFINE c == Head(idle[a])
  <1>1. /\ c \in IdleOf(a)
        /\ Lists(Tail(idle[a]), IdleOf(a) \ {c})
        /\ Len(Tail(idle[a])) = Len(idle[a]) - 1
    BY TailLists DEF PoolInv, IdleLists
  <1>2. c \in Connection /\ address[c] = a /\ owner[c] = None
    BY <1>1 DEF IdleOf
  <1> HIDE DEF c
  <1>3. /\ owner' = [owner EXCEPT ![c] = r]
        /\ upc' = [upc EXCEPT ![r] = c]
    BY DEF c
  <1>4. Len(idle[a]) \in Nat \ {0} /\ idleNum[a] = Len(idle[a])
    BY DEF PoolInv, PoolTypes, IdleLists
  <1>5. PoolTypes'
    BY <1>1, <1>2, <1>3, <1>4 DEF PoolInv, PoolTypes, Lists
  <1>6. Owners'
    BY <1>2, <1>3 DEF PoolInv, PoolTypes, Owners
  <1>7. IdleOf(a)' = IdleOf(a) \ {c}
    BY <1>2, <1>3 DEF PoolInv, PoolTypes, IdleOf
  <1>8. \A b \in Address : b # a => IdleOf(b)' = IdleOf(b)
    BY <1>2, <1>3 DEF PoolInv, PoolTypes, IdleOf
  <1>9. IdleLists'
    <2> SUFFICES ASSUME NEW b \in Address
                 PROVE  /\ Lists(idle'[b], IdleOf(b)')
                        /\ idleNum'[b] = Len(idle'[b])
                        /\ Len(idle'[b]) <= IdleMax + 1
      BY DEF IdleLists, Lists
    <2>1. CASE b = a
      <3>1. idle'[a] = Tail(idle[a]) /\ idleNum'[a] = idleNum[a] - 1
        BY DEF PoolInv, PoolTypes
      <3>2. Len(idle[a]) <= IdleMax + 1
        BY DEF PoolInv, IdleLists
      <3>3. Lists(idle'[a], IdleOf(a)')
        BY <1>1, <1>7, <3>1
      <3>4. idleNum'[a] = Len(idle'[a]) /\ Len(idle'[a]) <= IdleMax + 1
        <4>1. Len(idle'[a]) = Len(idle[a]) - 1
          BY <1>1, <3>1
        <4>2. idleNum'[a] = Len(idle[a]) - 1
          BY <1>4, <3>1
        <4> QED BY <1>4, <3>2, <4>1, <4>2
      <3> QED BY <2>1, <3>3, <3>4
    <2>2. CASE b # a
      BY <1>8, <2>2 DEF PoolInv, PoolTypes, IdleLists
    <2> QED BY <2>1, <2>2
  <1>10. CleanPool'
    BY <1>2, <1>3 DEF PoolInv, PoolTypes, CleanPool
  <1> QED BY <1>2, <1>5, <1>6, <1>9, <1>10 DEF PoolInv, c

(* or a new one,                                                           *)
LEMMA TakeNew ==
    ASSUME PoolInv, NEW r \in Request, NEW a \in Address, NEW c \in Connection,
           upc[r] = None, address[c] = None,
           address' = [address EXCEPT ![c] = a],
           owner' = [owner EXCEPT ![c] = r],
           upc' = [upc EXCEPT ![r] = c],
           UNCHANGED <<idle, idleNum, errored>>
    PROVE  PoolInv'
  <1>1. owner[c] = None
    BY DEF PoolInv, Owners
  <1>2. PoolTypes'
    BY DEF PoolInv, PoolTypes
  <1>3. Owners'
    BY <1>1 DEF PoolInv, PoolTypes, Owners
  <1>4. \A b \in Address : IdleOf(b)' = IdleOf(b)
    BY <1>1 DEF PoolInv, PoolTypes, IdleOf
  <1>5. IdleLists'
    BY <1>4 DEF PoolInv, IdleLists, Lists
  <1>6. CleanPool'
    BY <1>1 DEF PoolInv, PoolTypes, CleanPool
  <1> QED BY <1>2, <1>3, <1>5, <1>6 DEF PoolInv

(* or none.                                                                *)
LEMMA TakeNone ==
    ASSUME PoolInv, NEW r \in Request, upc[r] \in {None, Failed},
           \E e \in {None, Failed} : upc' = [upc EXCEPT ![r] = e],
           UNCHANGED <<idle, idleNum, address, owner, errored>>
    PROVE  PoolInv'
  <1>1. PoolTypes' /\ Owners' /\ CleanPool'
    BY DEF PoolInv, PoolTypes, Owners, CleanPool
  <1>2. IdleLists'
    BY DEF PoolInv, IdleLists, IdleOf, Lists
  <1> QED BY <1>1, <1>2 DEF PoolInv

(* A request closes its connection,                                        *)
LEMMA GiveClosing ==
    ASSUME PoolInv, NEW r \in Request, NEW c \in Connection, upc[r] = c,
           ReleaseClosing(c), upc' = [upc EXCEPT ![r] = None]
    PROVE  PoolInv'
  <1>1. /\ address' = [d \in Connection |-> IF d = c THEN None ELSE address[d]]
        /\ owner' = [d \in Connection |-> IF d = c THEN None ELSE owner[d]]
        /\ errored' = errored \ {c}
        /\ UNCHANGED <<idle, idleNum>>
    BY DEF ReleaseClosing, Forget
  <1>2. owner[c] = r /\ address[c] # None
    BY DEF PoolInv, Owners
  <1>3. PoolTypes'
    BY <1>1 DEF PoolInv, PoolTypes
  <1>4. Owners'
    BY <1>1, <1>2 DEF PoolInv, PoolTypes, Owners
  <1>5. \A b \in Address : IdleOf(b)' = IdleOf(b)
    BY <1>1, <1>2 DEF PoolInv, PoolTypes, IdleOf
  <1>6. IdleLists'
    BY <1>1, <1>5 DEF PoolInv, IdleLists, Lists
  <1>7. CleanPool'
    BY <1>1 DEF PoolInv, PoolTypes, CleanPool
  <1> QED BY <1>3, <1>4, <1>6, <1>7 DEF PoolInv

(* or puts it into the pool, which may be full.                            *)
LEMMA GivePooling ==
    ASSUME PoolInv, NEW r \in Request, NEW c \in Connection, upc[r] = c, c \notin errored,
           NEW a \in Address, address[c] = a,
           ReleasePooling(c), upc' = [upc EXCEPT ![r] = None]
    PROVE  PoolInv'
  <1> DEFINE s == idle[a]
             h == Head(s)
  <1>1. owner[c] = r
    BY DEF PoolInv, Owners
  <1>2. Lists(s, IdleOf(a)) /\ idleNum[a] = Len(s) /\ Len(s) \in Nat /\ Len(s) <= IdleMax + 1
    BY <1>1 DEF PoolInv, PoolTypes, IdleLists
  <1>3. c \notin IdleOf(a)
    BY <1>1 DEF IdleOf
  <1>4. CASE idleNum[a] > IdleMax
    <2>1. s # <<>>
      BY <1>2, <1>4
    <2>2. h \in IdleOf(a) /\ Lists(Tail(s), IdleOf(a) \ {h}) /\ Len(Tail(s)) = Len(s) - 1
      BY <1>2, <2>1, TailLists
    <2>3. h \in Connection /\ address[h] = a /\ owner[h] = None /\ h # c /\ h \notin errored
      BY <1>1, <2>2 DEF IdleOf, PoolInv, CleanPool
    <2>4. /\ Lists(Append(Tail(s), c), (IdleOf(a) \ {h}) \cup {c})
          /\ Len(Append(Tail(s), c)) = Len(s)
      BY <1>2, <1>3, <2>2, AppendLists
    <2>5. /\ idle' = [idle EXCEPT ![a] = Append(Tail(s), c)]
          /\ UNCHANGED <<idleNum, errored>>
          /\ address' = [address EXCEPT ![h] = None]
          /\ owner' = [owner EXCEPT ![c] = None]
      BY <1>1, <1>4 DEF ReleasePooling, PoolInv, PoolTypes
    <2> HIDE DEF h, s
    <2>6. PoolTypes'
      BY <1>1, <2>3, <2>4, <2>5 DEF PoolInv, PoolTypes, Lists
    <2>7. Owners'
      BY <1>1, <2>3, <2>5 DEF PoolInv, PoolTypes, Owners
    <2>8. IdleOf(a)' = (IdleOf(a) \ {h}) \cup {c}
      <3>2. \A d \in Connection : d \in {e \in Connection : address'[e] = a /\ owner'[e] = None}
                                    <=> d \in (IdleOf(a) \ {h}) \cup {c}
        BY <1>1, <2>3, <2>5 DEF PoolInv, PoolTypes, IdleOf
      <3>3. {e \in Connection : address'[e] = a /\ owner'[e] = None} = (IdleOf(a) \ {h}) \cup {c}
        BY <3>2 DEF IdleOf
      <3> QED BY <3>3 DEF IdleOf
    <2>9. \A b \in Address : b # a => IdleOf(b)' = IdleOf(b)
      BY <1>1, <2>3, <2>5 DEF PoolInv, PoolTypes, IdleOf
    <2>10. IdleLists'
      <3> SUFFICES ASSUME NEW b \in Address
                   PROVE  /\ Lists(idle'[b], IdleOf(b)')
                          /\ idleNum'[b] = Len(idle'[b])
                          /\ Len(idle'[b]) <= IdleMax + 1
        BY DEF IdleLists, Lists
      <3>1. CASE b = a
        <4>1. idle'[a] = Append(Tail(s), c) /\ idleNum'[a] = idleNum[a]
          BY <2>5 DEF PoolInv, PoolTypes
        <4>2. Lists(idle'[a], IdleOf(a)')
          BY <2>4, <2>8, <4>1
        <4>3. idleNum'[a] = Len(idle'[a]) /\ Len(idle'[a]) <= IdleMax + 1
          BY <1>2, <2>4, <4>1
        <4> QED BY <3>1, <4>2, <4>3
      <3>2. CASE b # a
        BY <2>5, <2>9, <3>2 DEF PoolInv, PoolTypes, IdleLists
      <3> QED BY <3>1, <3>2
    <2>11. CleanPool'
      BY <2>5 DEF PoolInv, PoolTypes, CleanPool
    <2> QED BY <2>6, <2>7, <2>10, <2>11 DEF PoolInv
  <1>5. CASE ~(idleNum[a] > IdleMax)
    <2>1. /\ Lists(Append(s, c), IdleOf(a) \cup {c})
          /\ Len(Append(s, c)) = Len(s) + 1
      BY <1>2, <1>3, AppendLists
    <2>2. /\ idle' = [idle EXCEPT ![a] = Append(s, c)]
          /\ idleNum' = [idleNum EXCEPT ![a] = @ + 1]
          /\ UNCHANGED <<address, errored>>
          /\ owner' = [owner EXCEPT ![c] = None]
      BY <1>1, <1>5 DEF ReleasePooling, PoolInv, PoolTypes
    <2>3. Len(s) + 1 <= IdleMax + 1
      BY <1>2, <1>5
    <2> HIDE DEF s
    <2>4. PoolTypes'
      BY <1>1, <1>2, <2>1, <2>2 DEF PoolInv, PoolTypes, Lists
    <2>5. Owners'
      BY <1>1, <2>2 DEF PoolInv, PoolTypes, Owners
    <2>6. IdleOf(a)' = IdleOf(a) \cup {c}
      BY <1>1, <2>2 DEF PoolInv, PoolTypes, IdleOf
    <2>7. \A b \in Address : b # a => IdleOf(b)' = IdleOf(b)
      BY <1>1, <2>2 DEF PoolInv, PoolTypes, IdleOf
    <2>8. IdleLists'
      <3> SUFFICES ASSUME NEW b \in Address
                   PROVE  /\ Lists(idle'[b], IdleOf(b)')
                          /\ idleNum'[b] = Len(idle'[b])
                          /\ Len(idle'[b]) <= IdleMax + 1
        BY DEF IdleLists, Lists
      <3>1. CASE b = a
        <4>1. idle'[a] = Append(s, c) /\ idleNum'[a] = idleNum[a] + 1
          BY <2>2 DEF PoolInv, PoolTypes
        <4>2. Lists(idle'[a], IdleOf(a)')
          BY <2>1, <2>6, <4>1
        <4>3. idleNum'[a] = Len(idle'[a]) /\ Len(idle'[a]) <= IdleMax + 1
          BY <1>2, <2>1, <2>3, <4>1
        <4> QED BY <3>1, <4>2, <4>3
      <3>2. CASE b # a
        BY <2>2, <2>7, <3>2 DEF PoolInv, PoolTypes, IdleLists
      <3> QED BY <3>1, <3>2
    <2>9. CleanPool'
      BY <2>2 DEF PoolInv, PoolTypes, CleanPool
    <2> QED BY <2>4, <2>5, <2>8, <2>9 DEF PoolInv
  <1> QED BY <1>4, <1>5

(* An idle connection is closed.                                           *)
LEMMA CloseIdle ==
    ASSUME PoolInv, NEW c \in Connection, IdleClose(c)
    PROVE  PoolInv'
  <1>1. PICK a \in Address : a = address[c]
    BY DEF IdleClose, PoolInv, PoolTypes
  <1>2. PICK i \in 1 .. Len(idle[a]) :
          /\ idle[a][i] = c
          /\ idle' = [idle EXCEPT ![a] = Without(idle[a], i)]
    BY <1>1 DEF IdleClose
  <1>3. /\ idleNum' = [idleNum EXCEPT ![a] = idleNum[a] - 1]
        /\ address' = [d \in Connection |-> IF d = c THEN None ELSE address[d]]
        /\ owner' = [d \in Connection |-> IF d = c THEN None ELSE owner[d]]
        /\ errored' = errored \ {c}
        /\ upc' = upc
        /\ owner[c] = None
    BY <1>1 DEF IdleClose, Forget, req
  <1>4. /\ Lists(idle[a], IdleOf(a)) /\ idleNum[a] = Len(idle[a]) /\ Len(idle[a]) <= IdleMax + 1
        /\ Len(idle[a]) \in Nat
    BY DEF PoolInv, PoolTypes, IdleLists
  <1>5. /\ Lists(Without(idle[a], i), IdleOf(a) \ {c})
        /\ Len(Without(idle[a], i)) = Len(idle[a]) - 1
    BY <1>2, <1>4, WithoutLists
  <1>6. PoolTypes'
    BY <1>2, <1>3, <1>4, <1>5 DEF PoolInv, PoolTypes, Lists
  <1>7. Owners'
    BY <1>3 DEF PoolInv, PoolTypes, Owners
  <1>8. IdleOf(a)' = IdleOf(a) \ {c}
    BY <1>1, <1>3 DEF PoolInv, PoolTypes, IdleOf
  <1>9. \A b \in Address : b # a => IdleOf(b)' = IdleOf(b)
    BY <1>1, <1>3 DEF PoolInv, PoolTypes, IdleOf
  <1>10. IdleLists'
    <2> SUFFICES ASSUME NEW b \in Address
                 PROVE  /\ Lists(idle'[b], IdleOf(b)')
                        /\ idleNum'[b] = Len(idle'[b])
                        /\ Len(idle'[b]) <= IdleMax + 1
      BY DEF IdleLists, Lists
    <2>1. CASE b = a
      <3>1. idle'[a] = Without(idle[a], i) /\ idleNum'[a] = idleNum[a] - 1
        BY <1>2, <1>3 DEF PoolInv, PoolTypes
      <3>2. Lists(idle'[a], IdleOf(a)')
        BY <1>5, <1>8, <3>1
      <3>3. idleNum'[a] = Len(idle'[a]) /\ Len(idle'[a]) <= IdleMax + 1
        BY <1>4, <1>5, <3>1
      <3> QED BY <2>1, <3>2, <3>3
    <2>2. CASE b # a
      BY <1>2, <1>3, <1>9, <2>2 DEF PoolInv, PoolTypes, IdleLists
    <2> QED BY <2>1, <2>2
  <1>11. CleanPool'
    BY <1>3 DEF PoolInv, PoolTypes, CleanPool
  <1> QED BY <1>6, <1>7, <1>10, <1>11 DEF PoolInv

(* A worker starts without connections.                                    *)
LEMMA NoConnections ==
    ASSUME idle = [a \in Address |-> <<>>], idleNum = [a \in Address |-> 0],
           address = [c \in Connection |-> None], owner = [c \in Connection |-> None],
           upc = [r \in Request |-> None], errored = {}
    PROVE  PoolInv
  <1>1. PoolTypes /\ CleanPool
    BY DEF PoolTypes, CleanPool
  <1>2. Owners
    BY DEF Owners
  <1>3. IdleLists
    <2>1. \A a \in Address : IdleOf(a) = {}
      BY DEF IdleOf
    <2>2. Lists(<<>>, {})
      BY DEF Lists
    <2>3. \A a \in Address : idle[a] = <<>> /\ idleNum[a] = 0
      OBVIOUS
    <2>4. Len(<<>>) = 0 /\ 0 <= IdleMax + 1
      OBVIOUS
    <2>5. \A a \in Address : Lists(idle[a], IdleOf(a))
      BY <2>1, <2>2, <2>3
    <2>6. \A a \in Address : idleNum[a] = Len(idle[a]) /\ Len(idle[a]) <= IdleMax + 1
      BY <2>3, <2>4
    <2> QED BY <2>5, <2>6 DEF IdleLists
  <1> QED BY <1>1, <1>2, <1>3 DEF PoolInv

(* The end of a request, whatever becomes of its connection.               *)
LEMMA FinishPool ==
    ASSUME PoolInv, NEW r \in Request, NEW clean \in BOOLEAN, Finish(r, clean)
    PROVE  PoolInv'
  <1>1. upc[r] \in Connection \cup {None} /\ upc' = [upc EXCEPT ![r] = None]
    BY DEF PoolInv, PoolTypes, Finish
  <1>2. CASE upc[r] = None
    BY <1>1, <1>2, TakeNone DEF Finish, pool
  <1>3. CASE upc[r] \in Connection
    <2>1. Release(upc[r], clean)
      BY <1>3 DEF Finish
    <2>2. CASE ReleaseClosing(upc[r])
      BY <1>1, <1>3, <2>2, GiveClosing
    <2>3. CASE upc[r] \notin errored /\ ReleasePooling(upc[r])
      <3>1. address[upc[r]] \in Address
        BY <1>3 DEF PoolInv, PoolTypes, Owners
      <3> QED BY <1>1, <1>3, <2>3, <3>1, GivePooling
    <2> QED BY <2>1, <2>2, <2>3 DEF Release
  <1> QED BY <1>1, <1>2, <1>3

-----------------------------------------------------------------------------
(* Marks and requests.                                                     *)
RequestTypes ==
    /\ failure \in [Address -> Mark]
    /\ checkDown \in SUBSET Checked
    /\ offered \in SUBSET Address
    /\ socket \in [Connection -> Socket]
    /\ state \in [Request -> State]
    /\ sent \in SUBSET Request
    /\ retries \in [Request -> -1 .. MaxRetries + 1]
    /\ status \in [Request -> Status]
    /\ running \in Request \cup {None}
    /\ avoided \in Address \cup {None}

(* Waiting for headers, a request has not counted beyond the limit yet.    *)
RetriesCounted == \A r \in Request : state[r] = "headers" => retries[r] <= MaxRetries

(* The error pointer is only left to a request that is broken.             *)
FailedBroken == \A r \in Request : upc[r] = Failed => state[r] = "broken"

RequestInv == RequestTypes /\ Marks /\ AnswerOrExhausted /\ RetriesCounted /\ FailedBroken

LEMMA TypesTogether == PoolInv /\ RequestInv => TypeOK
  BY DEF PoolInv, PoolTypes, RequestInv, RequestTypes, TypeOK

LEMMA MarkStep ==
    ASSUME NEW m \in Mark, MarkOK(m)
    PROVE  /\ AfterPass(m) \in Mark /\ MarkOK(AfterPass(m))
           /\ AfterFail(m) \in Mark /\ MarkOK(AfterFail(m))
           /\ [m EXCEPT !.down = "due"] \in Mark
           /\ m.down # "no" => MarkOK([m EXCEPT !.down = "due"])
  <1>1. /\ m.down \in {"no", "yes", "due"}
        /\ m.fails \in 0 .. FailLimit + 1
        /\ m.passes \in 0 .. PassLimit + 1
        /\ m = [down |-> m.down, fails |-> m.fails, passes |-> m.passes]
    BY DEF Mark
  <1>2. /\ Counted(m.passes, PassLimit) \in 1 .. PassLimit + 1
        /\ m.passes < PassLimit => Counted(m.passes, PassLimit) = m.passes + 1
    BY <1>1 DEF Counted
  <1>3. /\ Counted(m.fails, FailLimit) \in 1 .. FailLimit + 1
        /\ m.fails < FailLimit => Counted(m.fails, FailLimit) = m.fails + 1
    BY <1>1 DEF Counted
  <1>4. AfterPass(m) \in Mark /\ MarkOK(AfterPass(m))
    BY <1>1, <1>2 DEF AfterPass, Mark, MarkOK
  <1>5. AfterFail(m) \in Mark /\ MarkOK(AfterFail(m))
    BY <1>1, <1>3 DEF AfterFail, Mark, MarkOK
  <1>6. /\ [m EXCEPT !.down = "due"] \in Mark
        /\ m.down # "no" => MarkOK([m EXCEPT !.down = "due"])
    BY <1>1 DEF Mark, MarkOK
  <1> QED BY <1>4, <1>5, <1>6

(* The outcome of a request is counted, or a timeout is over.              *)
LEMMA MarksStep ==
    ASSUME failure \in [Address -> Mark], Marks, NEW a \in Address,
           \/ failure' = [failure EXCEPT ![a] = AfterPass(@)]
           \/ failure' = [failure EXCEPT ![a] = AfterFail(@)]
           \/ failure[a].down # "no" /\ failure' = [failure EXCEPT ![a].down = "due"]
    PROVE  failure' \in [Address -> Mark] /\ Marks'
  <1>1. \A b \in Address : failure[b] \in Mark /\ MarkOK(failure[b])
    BY DEF Marks
  <1>2. /\ AfterPass(failure[a]) \in Mark /\ MarkOK(AfterPass(failure[a]))
        /\ AfterFail(failure[a]) \in Mark /\ MarkOK(AfterFail(failure[a]))
        /\ [failure[a] EXCEPT !.down = "due"] \in Mark
        /\ failure[a].down # "no" => MarkOK([failure[a] EXCEPT !.down = "due"])
    BY <1>1, MarkStep
  <1>3. /\ failure' \in [Address -> Mark]
        /\ \A b \in Address : MarkOK(failure'[b])
    <2>1. CASE failure' = [failure EXCEPT ![a] = AfterPass(failure[a])]
      BY <1>1, <1>2, <2>1
    <2>2. CASE failure' = [failure EXCEPT ![a] = AfterFail(failure[a])]
      BY <1>1, <1>2, <2>2
    <2>3. CASE failure[a].down # "no" /\ failure' = [failure EXCEPT ![a] = [failure[a] EXCEPT !.down = "due"]]
      BY <1>1, <1>2, <2>3
    <2> QED BY <2>1, <2>2, <2>3
  <1> QED BY <1>3 DEF Marks

Inv == PoolInv /\ RequestInv

LEMMA InitInv == Init => Inv
  <1> SUFFICES ASSUME Init PROVE Inv
    OBVIOUS
  <1>1. PoolInv
    BY NoConnections DEF Init
  <1>2. FreshMark \in Mark /\ MarkOK(FreshMark)
    BY DEF FreshMark, Mark, MarkOK
  <1>3. RequestTypes /\ Marks
    BY <1>2 DEF Init, RequestTypes, Marks, Socket, State, Status
  <1>4. AnswerOrExhausted /\ RetriesCounted /\ FailedBroken
    BY DEF Init, AnswerOrExhausted, RetriesCounted, FailedBroken
  <1> QED BY <1>1, <1>3, <1>4 DEF Inv, RequestInv

(* A request waiting for headers with a connection.                        *)
LEMMA InHeadersFacts ==
    ASSUME Inv, NEW r \in Request, InHeaders(r)
    PROVE  upc[r] \in Connection /\ owner[upc[r]] = r /\ address[upc[r]] \in Address
  <1>1. upc[r] \in Connection
    BY DEF Inv, PoolInv, PoolTypes, RequestInv, FailedBroken, InHeaders
  <1>2. owner[upc[r]] = r
    BY <1>1 DEF Inv, PoolInv, Owners
  <1>3. address[upc[r]] \in Address
    BY <1>1, <1>2 DEF Inv, PoolInv, PoolTypes, Owners
  <1> QED BY <1>1, <1>2, <1>3

(* Each action does to the connections one of the things above.            *)
LEMMA PoolStep == Inv /\ [Next]_vars => PoolInv'
  <1> SUFFICES ASSUME Inv, [Next]_vars PROVE PoolInv'
    OBVIOUS
  <1> USE DEF Inv
  <1>1. ASSUME NEW r \in Request, NEW a \in Address, GetIdle(r, a) PROVE PoolInv'
    BY <1>1, TakeIdle DEF GetIdle, Gets
  <1>2. ASSUME NEW r \in Request, NEW a \in Address, NEW c \in Connection, Connect(r, a, c)
        PROVE  PoolInv'
    BY <1>2, TakeNew DEF Connect, Gets
  <1>3. ASSUME NEW r \in Request, NEW a \in Address, ConnectFails(r, a) PROVE PoolInv'
    BY <1>3, TakeNone DEF ConnectFails, Gets, pool
  <1>4. ASSUME NEW r \in Request, NEW seen, InHeaders(r), Fail(r, seen) PROVE PoolInv'
    <2>1. upc[r] \in Connection /\ owner[upc[r]] = r
      BY <1>4, InHeadersFacts
    <2>2. CASE GiveUp(r, seen)
      <3>1. upc[r] \in {c \in Connection : owner[c] # None}
        BY <2>1
      <3> QED BY <2>2, <3>1, KeepLists DEF GiveUp
    <2>3. CASE Retry(r)
      BY <2>1, <2>3, GiveClosing DEF Retry
    <2> QED BY <1>4, <2>2, <2>3 DEF Fail
  <1>5. ASSUME NEW r \in Request,
               WriteBlocks(r) \/ Write(r) \/ ReadBlocks(r) \/ ReadPart(r) \/ ReadHeaders(r)
                 \/ BodyBlocks(r) \/ BodyFails(r) \/ Arrive(r) \/ Wake(r)
        PROVE  PoolInv'
    <2>1. UNCHANGED <<idle, idleNum, address, owner, upc, errored>>
      BY <1>5 DEF WriteBlocks, Write, ReadBlocks, ReadPart, ReadHeaders, BodyBlocks, BodyFails,
                  Arrive, Wake, Blocks, pool, req
    <2> QED BY <2>1, KeepLists
  <1>6. ASSUME NEW r \in Request, TransferFails(r) \/ ParseFails(r) \/ ReadRetryStatus(r)
        PROVE  PoolInv'
    BY <1>4, <1>6 DEF TransferFails, ParseFails, ReadRetryStatus
  <1>7. ASSUME NEW r \in Request, BodyDone(r) \/ Abort(r) PROVE PoolInv'
    BY <1>7, FinishPool DEF BodyDone, Abort
  <1>8. ASSUME NEW r \in Request, Crash(r) PROVE PoolInv'
    <2>1. /\ idle' = [a \in Address |-> <<>>] /\ idleNum' = [a \in Address |-> 0]
          /\ address' = [c \in Connection |-> None] /\ owner' = [c \in Connection |-> None]
          /\ upc' = [q \in Request |-> None] /\ errored' = {}
      BY <1>8 DEF Crash, Forget, PoolInv, PoolTypes
    <2> QED BY <2>1, NoConnections DEF PoolInv, PoolTypes, Owners, IdleLists, IdleOf, Lists, CleanPool
  <1>9. ASSUME NEW c \in Connection, Timeout(c) \/ ConnectDone(c) \/ PeerCloses(c) PROVE PoolInv'
    BY <1>9, KeepLists DEF Timeout, ConnectDone, PeerCloses, req
  <1>10. ASSUME NEW c \in Connection, IdleClose(c) PROVE PoolInv'
    BY <1>10, CloseIdle
  <1>11. ASSUME NEW a \in Address, FailureTimeout(a) \/ CheckTurns(a) PROVE PoolInv'
    BY <1>11, KeepLists DEF FailureTimeout, CheckTurns, pool, req
  <1>12. CASE UNCHANGED vars
    BY <1>12, KeepLists DEF vars, pool, req
  <1> QED
    BY <1>1, <1>2, <1>3, <1>5, <1>6, <1>7, <1>8, <1>9, <1>10, <1>11, <1>12
    DEF Next, Thread, Event

(* What releasing a connection means for marks and sockets.                *)
LEMMA ReleaseMarks ==
    ASSUME Inv, NEW c \in Connection, NEW clean \in BOOLEAN, address[c] \in Address, Release(c, clean)
    PROVE  /\ failure' \in [Address -> Mark] /\ Marks'
           /\ socket' \in [Connection -> Socket]
  <1>1. failure' \in [Address -> Mark] /\ Marks'
    <2>1. \/ failure' = [failure EXCEPT ![address[c]] = AfterPass(failure[address[c]])]
          \/ failure' = [failure EXCEPT ![address[c]] = AfterFail(failure[address[c]])]
      BY DEF Release, CountOutcome
    <2> QED BY <2>1, MarksStep DEF Inv, RequestInv, RequestTypes
  <1>2. socket \in [Connection -> Socket] /\ "none" \in Socket
    BY DEF Inv, RequestInv, RequestTypes, Socket
  <1>3. socket' \in [Connection -> Socket]
    <2>1. CASE ReleaseClosing(c)
      BY <1>2, <2>1 DEF ReleaseClosing, Forget
    <2>2. CASE ReleasePooling(c)
      <3>1. socket' = socket \/ socket' = [socket EXCEPT ![Head(idle[address[c]])] = "none"]
        BY <2>2 DEF ReleasePooling
      <3> QED BY <1>2, <3>1
    <2> QED BY <2>1, <2>2 DEF Release
  <1> QED BY <1>1, <1>3

LEMMA RequestStep == Inv /\ [Next]_vars => RequestInv'
  <1> SUFFICES ASSUME Inv, [Next]_vars PROVE RequestInv'
    OBVIOUS
  <1> USE DEF Inv, RequestInv
  <1>1. ASSUME UNCHANGED <<failure, state, upc, retries, status>>, RequestTypes'
        PROVE  RequestInv'
    BY <1>1 DEF Marks, AnswerOrExhausted, RetriesCounted, FailedBroken, MayRetry
  <1>2. ASSUME NEW r \in Request, NEW a \in Address,
               GetIdle(r, a) \/ (\E c \in Connection : Connect(r, a, c))
        PROVE  RequestInv'
    <2>1. RequestTypes'
      BY <1>2 DEF GetIdle, Connect, Gets, RequestTypes, Socket
    <2>2. UNCHANGED <<failure, state, retries, status>> /\ \A q \in Request : q # r => upc'[q] = upc[q]
      BY <1>2 DEF GetIdle, Connect, Gets, PoolInv, PoolTypes
    <2>3. upc'[r] # Failed
      BY <1>2, TakeIdle DEF GetIdle, Connect, Gets, PoolInv, PoolTypes
    <2> QED BY <2>1, <2>2, <2>3 DEF Marks, AnswerOrExhausted, RetriesCounted, FailedBroken, MayRetry
  <1>3. ASSUME NEW r \in Request, NEW a \in Address, ConnectFails(r, a) PROVE RequestInv'
    <2>1. RequestTypes'
      BY <1>3 DEF ConnectFails, Gets, pool, RequestTypes, State
    <2>2. /\ UNCHANGED <<failure, retries, status>>
          /\ state' = [state EXCEPT ![r] = "broken"]
          /\ \A q \in Request : q # r => upc'[q] = upc[q]
      BY <1>3 DEF ConnectFails, Gets, PoolInv, PoolTypes
    <2> QED BY <2>1, <2>2
            DEF RequestTypes, Marks, AnswerOrExhausted, RetriesCounted, FailedBroken, MayRetry
  <1>4. ASSUME NEW r \in Request, NEW seen \in Status, InHeaders(r), Fail(r, seen)
        PROVE  RequestInv'
    <2>1. upc[r] \in Connection /\ address[upc[r]] \in Address /\ state[r] = "headers"
      BY <1>4, InHeadersFacts DEF InHeaders
    <2>2. retries[r] \in -1 .. MaxRetries
      BY <2>1 DEF RequestTypes, RetriesCounted
    <2>3. CASE GiveUp(r, seen)
      <3>1. /\ retries' = [retries EXCEPT ![r] = IF retries[r] < 0 THEN retries[r] ELSE retries[r] + 1]
            /\ ~MayRetry(r)
            /\ state' = [state EXCEPT ![r] = IF seen = "none" THEN "broken" ELSE "body"]
            /\ status' = [status EXCEPT ![r] = seen]
            /\ UNCHANGED <<failure, checkDown, offered, socket, sent, running, avoided, upc>>
        BY <2>3 DEF GiveUp, marks
      <3>2. RequestTypes'
        BY <2>2, <3>1 DEF RequestTypes, State, Status
      <3>3. ~MayRetry(r)'
        BY <2>2, <3>1 DEF MayRetry, RequestTypes
      <3>4. AnswerOrExhausted'
        BY <3>1, <3>3 DEF AnswerOrExhausted, RequestTypes, MayRetry
      <3>5. RetriesCounted' /\ FailedBroken' /\ Marks'
        BY <2>1, <3>1 DEF RetriesCounted, FailedBroken, Marks, RequestTypes
      <3> QED BY <3>2, <3>4, <3>5
    <2>4. CASE Retry(r)
      <3>1. /\ failure' = [failure EXCEPT ![address[upc[r]]] = AfterFail(failure[address[upc[r]]])]
            /\ retries' = [retries EXCEPT ![r] = retries[r] + 1]
            /\ retries[r] \in 0 .. MaxRetries - 1
            /\ status' = [status EXCEPT ![r] = "none"]
            /\ sent' = sent \ {r}
            /\ upc' = [upc EXCEPT ![r] = None]
            /\ avoided' = address[upc[r]]
            /\ socket' = [d \in Connection |-> IF d = upc[r] THEN "none" ELSE socket[d]]
            /\ UNCHANGED <<checkDown, offered, state, running>>
        BY <2>4 DEF Retry, MayRetry, ReleaseClosing, Forget
      <3>2. failure' \in [Address -> Mark] /\ Marks'
        BY <2>1, <3>1, MarksStep DEF RequestTypes
      <3>3. RequestTypes'
        BY <2>1, <3>1, <3>2 DEF RequestTypes, Status, Socket
      <3>4. AnswerOrExhausted' /\ RetriesCounted' /\ FailedBroken'
        BY <2>1, <3>1 DEF AnswerOrExhausted, RetriesCounted, FailedBroken, RequestTypes, MayRetry,
                          PoolInv, PoolTypes
      <3> QED BY <3>2, <3>3, <3>4
    <2> QED BY <1>4, <2>3, <2>4 DEF Fail
  <1>5. ASSUME NEW r \in Request,
               WriteBlocks(r) \/ Write(r) \/ ReadBlocks(r) \/ BodyBlocks(r) \/ Wake(r)
        PROVE  RequestInv'
    <2>1. RequestTypes' /\ UNCHANGED <<failure, state, upc, retries, status>>
      BY <1>5 DEF WriteBlocks, Write, ReadBlocks, BodyBlocks, Wake, Blocks, marks, pool, req, RequestTypes
    <2> QED BY <1>1, <2>1
  <1>6. ASSUME NEW r \in Request, ReadPart(r) \/ ReadHeaders(r) \/ BodyFails(r) \/ Arrive(r)
        PROVE  RequestInv'
    <2>1. RequestTypes'
      BY <1>6 DEF ReadPart, ReadHeaders, BodyFails, Arrive, marks, pool, RequestTypes, State, Status
    <2>2. AnswerOrExhausted' /\ RetriesCounted'
      BY <1>6 DEF ReadPart, ReadHeaders, BodyFails, Arrive, InHeaders, RequestTypes,
                  AnswerOrExhausted, RetriesCounted, MayRetry
    <2>3. FailedBroken' /\ Marks'
      BY <1>6 DEF ReadPart, ReadHeaders, BodyFails, Arrive, InHeaders, RequestTypes, marks,
                  FailedBroken, Marks
    <2> QED BY <2>1, <2>2, <2>3
  <1>7. ASSUME NEW r \in Request, TransferFails(r) \/ ParseFails(r) \/ ReadRetryStatus(r)
        PROVE  RequestInv'
    <2>1. status[r] \in Status /\ "partial" \in Status /\ "retry" \in Status
      BY DEF RequestTypes, Status
    <2> QED BY <1>4, <1>7, <2>1 DEF TransferFails, ParseFails, ReadRetryStatus
  <1>8. ASSUME NEW r \in Request, NEW clean \in BOOLEAN, Finish(r, clean) PROVE RequestInv'
    <2>1. /\ failure' \in [Address -> Mark] /\ Marks'
          /\ socket' \in [Connection -> Socket]
      <3>1. CASE upc[r] = None
        BY <1>8, <3>1 DEF Finish, pool, RequestTypes, Marks
      <3>2. CASE upc[r] # None
        <4>1. upc[r] \in Connection /\ Release(upc[r], clean)
          BY <1>8, <3>2 DEF Finish, PoolInv, PoolTypes
        <4>2. address[upc[r]] \in Address
          BY <4>1 DEF PoolInv, PoolTypes, Owners
        <4> QED BY <4>1, <4>2, ReleaseMarks
      <3> QED BY <3>1, <3>2
    <2>2. RequestTypes'
      BY <1>8, <2>1 DEF Finish, RequestTypes, State, Status
    <2>3. AnswerOrExhausted' /\ RetriesCounted' /\ FailedBroken'
      BY <1>8 DEF Finish, RequestTypes, PoolInv, PoolTypes, AnswerOrExhausted, RetriesCounted,
                  FailedBroken, MayRetry
    <2> QED BY <2>1, <2>2, <2>3
  <1>9. ASSUME NEW r \in Request, Crash(r) PROVE RequestInv'
    <2>1. FreshMark \in Mark /\ MarkOK(FreshMark)
      BY DEF FreshMark, Mark, MarkOK
    <2>2. RequestTypes' /\ Marks'
      BY <1>9, <2>1 DEF Crash, Forget, RequestTypes, Marks, Socket, State, Status
    <2>3. AnswerOrExhausted' /\ RetriesCounted' /\ FailedBroken'
      BY <1>9 DEF Crash, AnswerOrExhausted, RetriesCounted, FailedBroken
    <2> QED BY <2>2, <2>3
  <1>10. ASSUME NEW c \in Connection,
                Timeout(c) \/ IdleClose(c) \/ ConnectDone(c) \/ PeerCloses(c)
         PROVE  RequestInv'
    <2>1. RequestTypes'
      BY <1>10 DEF Timeout, IdleClose, Forget, ConnectDone, PeerCloses, RequestTypes, Socket, req, marks,
                   PoolInv, PoolTypes
    <2>2. UNCHANGED <<failure, state, upc, retries, status>>
      BY <1>10 DEF Timeout, IdleClose, ConnectDone, PeerCloses, req, marks
    <2> QED BY <1>1, <2>1, <2>2
  <1>11. ASSUME NEW a \in Address, FailureTimeout(a) PROVE RequestInv'
    <2>1. failure' \in [Address -> Mark] /\ Marks'
      BY <1>11, MarksStep DEF FailureTimeout, RequestTypes
    <2>2. RequestTypes' /\ UNCHANGED <<state, upc, retries, status>>
      BY <1>11, <2>1 DEF FailureTimeout, RequestTypes, pool, req
    <2> QED BY <2>1, <2>2 DEF AnswerOrExhausted, RetriesCounted, FailedBroken, MayRetry
  <1>12. ASSUME NEW a \in Checked, CheckTurns(a) PROVE RequestInv'
    BY <1>1, <1>12 DEF CheckTurns, RequestTypes, pool, req
  <1>13. CASE UNCHANGED vars
    BY <1>1, <1>13 DEF vars, marks, pool, req, RequestTypes
  <1> QED
    BY <1>2, <1>3, <1>5, <1>6, <1>7, <1>8, <1>9, <1>10, <1>11, <1>12, <1>13
    DEF Next, Thread, Event, BodyDone, Abort

LEMMA NextInv == Inv /\ [Next]_vars => Inv'
  BY PoolStep, RequestStep DEF Inv

LEMMA Invariance == Spec => []Inv
  BY InitInv, NextInv, PTL DEF Spec

(* Only an open connection is released into the pool, and only one in use  *)
(* is closed by a timeout.                                                 *)
LEMMA OpenStep == Inv /\ OpenPool /\ [Next]_vars => OpenPool'
  <1> SUFFICES ASSUME Inv, OpenPool, [Next]_vars PROVE OpenPool'
    OBVIOUS
  <1>1. /\ owner \in [Connection -> Request \cup {None}] /\ socket \in [Connection -> Socket]
        /\ idle \in [Address -> Seq(Connection)]
    BY DEF Inv, PoolInv, PoolTypes, RequestInv, RequestTypes
  <1>2. ASSUME UNCHANGED <<owner, socket>> PROVE OpenPool'
    BY <1>2 DEF OpenPool
  <1>3. ASSUME NEW r \in Request, NEW a \in Address, GetIdle(r, a) PROVE OpenPool'
    BY <1>1, <1>3 DEF GetIdle, OpenPool
  <1>4. ASSUME NEW r \in Request, NEW a \in Address, NEW c \in Connection, Connect(r, a, c)
        PROVE  OpenPool'
    BY <1>1, <1>4 DEF Connect, OpenPool
  <1>5. ASSUME NEW C \in SUBSET Connection, Forget(C) PROVE OpenPool'
    BY <1>1, <1>5 DEF Forget, OpenPool
  <1>6. ASSUME NEW c \in Connection, NEW clean \in BOOLEAN, Release(c, clean) PROVE OpenPool'
    <2>1. CASE ReleaseClosing(c)
      BY <1>5, <2>1 DEF ReleaseClosing
    <2>2. CASE socket[c] # "closed" /\ ReleasePooling(c)
      BY <1>1, <2>2 DEF ReleasePooling, OpenPool
    <2> QED BY <1>6, <2>1, <2>2 DEF Release
  <1>7. ASSUME NEW r \in Request, NEW seen, InHeaders(r), Fail(r, seen) PROVE OpenPool'
    BY <1>2, <1>5, <1>7, InHeadersFacts DEF Fail, GiveUp, Retry, ReleaseClosing
  <1>8. ASSUME NEW r \in Request, NEW clean \in BOOLEAN, Finish(r, clean) PROVE OpenPool'
    <2>1. upc[r] \in Connection \cup {None}
      BY <1>8 DEF Finish, Inv, PoolInv, PoolTypes
    <2> QED BY <1>2, <1>6, <1>8, <2>1 DEF Finish, pool
  <1>9. ASSUME NEW r \in Request, Crash(r) PROVE OpenPool'
    BY <1>5, <1>9 DEF Crash
  <1>10. ASSUME NEW c \in Connection,
                Timeout(c) \/ IdleClose(c) \/ ConnectDone(c) \/ PeerCloses(c)
         PROVE  OpenPool'
    BY <1>1, <1>5, <1>10 DEF Timeout, IdleClose, ConnectDone, PeerCloses, OpenPool
  <1>11. ASSUME NEW r \in Request,
                WriteBlocks(r) \/ Write(r) \/ ReadBlocks(r) \/ ReadPart(r) \/ ReadHeaders(r)
                  \/ BodyBlocks(r) \/ BodyFails(r) \/ Arrive(r) \/ Wake(r)
                  \/ (\E a \in Address : ConnectFails(r, a))
         PROVE  OpenPool'
    BY <1>2, <1>11 DEF WriteBlocks, Write, ReadBlocks, ReadPart, ReadHeaders, BodyBlocks,
                       BodyFails, Arrive, Wake, ConnectFails, Blocks, pool
  <1>12. ASSUME NEW a \in Address, FailureTimeout(a) \/ CheckTurns(a) PROVE OpenPool'
    BY <1>2, <1>12 DEF FailureTimeout, CheckTurns, pool
  <1>13. CASE UNCHANGED vars
    BY <1>2, <1>13 DEF vars, pool
  <1> QED
    BY <1>3, <1>4, <1>7, <1>8, <1>9, <1>10, <1>11, <1>12, <1>13, CheckedAssumption
    DEF Next, Thread, Event, TransferFails, ParseFails, ReadRetryStatus, BodyDone, Abort

(* The pool of idle connections is bounded, and                            *)
(* phl_upstream_release_connection() puts none into it that is marked with *)
(* upc->error or closed.  Connections whose body failed are not marked.    *)
THEOREM PoolHolds == Spec => []Pool
  <1>1. Inv => TypeOK /\ PoolBound /\ CleanPool
    BY PoolInvImplies, TypesTogether DEF Inv, RequestInv
  <1>2. Init => OpenPool
    BY DEF Init, OpenPool
  <1> QED BY Invariance, OpenStep, <1>1, <1>2, PTL DEF Spec, Pool

(* A connection has one owner, or is idle in one list, once: two requests  *)
(* never read from it at a time.                                           *)
THEOREM OwnershipHolds == Spec => []Ownership
  <1>1. Inv => Ownership
    BY PoolInvImplies DEF Inv
  <1> QED BY Invariance, <1>1, PTL

(* The failure mark of phl_upstream.c is not late: an address in use has   *)
(* not failed as often in a row as its limit says, one out of use has not  *)
(* passed as often.                                                        *)
THEOREM MarksHold == Spec => []Marks
  <1>1. Inv => Marks
    BY DEF Inv, RequestInv
  <1> QED BY Invariance, <1>1, PTL

(* A request gets a proper answer, or all its retries were used.           *)
THEOREM AnswersHold == Spec => []AnswerOrExhausted
  <1>1. Inv => AnswerOrExhausted
    BY DEF Inv, RequestInv
  <1> QED BY Invariance, <1>1, PTL

-----------------------------------------------------------------------------
(* Only phl_upstream_get_connection() gives a request a connection.        *)
LEMMA HandedByGet ==
    ASSUME Inv, [Next]_vars, NEW r \in Request, NEW c \in Connection, Handed(r, c)
    PROVE  \E a \in Address : Gets(r, a) /\ address'[c] = a
  <1> USE DEF Inv
  <1>1. upc[r] = None /\ upc'[r] = c /\ c # None /\ c # Failed
    BY DEF Handed
  <1>2. upc \in [Request -> Connection \cup {None, Failed}]
        /\ address \in [Connection -> Address \cup {None}]
    BY DEF PoolInv, PoolTypes
  <1>3. ASSUME NEW q \in Request, NEW a \in Address, GetIdle(q, a)
        PROVE  \E b \in Address : Gets(r, b) /\ address'[c] = b
    <2>1. q = r /\ c = Head(idle[a])
      BY <1>1, <1>2, <1>3 DEF GetIdle
    <2>2. address[c] = a /\ address' = address
      BY <1>3, <2>1, TakeIdle DEF GetIdle, Gets
    <2> QED BY <1>3, <2>1, <2>2 DEF GetIdle
  <1>4. ASSUME NEW q \in Request, NEW a \in Address, NEW d \in Connection, Connect(q, a, d)
        PROVE  \E b \in Address : Gets(r, b) /\ address'[c] = b
    <2>1. q = r /\ c = d
      BY <1>1, <1>2, <1>4 DEF Connect
    <2> QED BY <1>2, <1>4, <2>1 DEF Connect
  <1>5. ASSUME NEW q \in Request, NEW e \in {None, Failed}, upc' = [upc EXCEPT ![q] = e]
        PROVE  FALSE
    BY <1>1, <1>2, <1>5
  <1>6. upc' # upc
    BY <1>1
  <1>7. ASSUME NEW q \in Request, NEW a \in Address, ConnectFails(q, a) PROVE FALSE
    BY <1>5, <1>7 DEF ConnectFails
  <1>8. ASSUME NEW q \in Request, NEW seen, Fail(q, seen) PROVE FALSE
    BY <1>5, <1>6, <1>8 DEF Fail, GiveUp, Retry
  <1>9. ASSUME NEW q \in Request, BodyDone(q) \/ Abort(q) PROVE FALSE
    BY <1>5, <1>9 DEF BodyDone, Abort, Finish
  <1>10. ASSUME NEW q \in Request, Crash(q) PROVE FALSE
    BY <1>1, <1>10 DEF Crash
  <1>11. ASSUME NEW q \in Request,
                WriteBlocks(q) \/ Write(q) \/ ReadBlocks(q) \/ ReadPart(q) \/ ReadHeaders(q)
                  \/ BodyBlocks(q) \/ BodyFails(q) \/ Arrive(q) \/ Wake(q)
         PROVE  FALSE
    BY <1>6, <1>11 DEF WriteBlocks, Write, ReadBlocks, ReadPart, ReadHeaders, BodyBlocks,
                       BodyFails, Arrive, Wake, Blocks, req
  <1>12. ASSUME NEW d \in Connection,
                Timeout(d) \/ IdleClose(d) \/ ConnectDone(d) \/ PeerCloses(d)
         PROVE  FALSE
    BY <1>6, <1>12 DEF Timeout, IdleClose, ConnectDone, PeerCloses, req
  <1>13. ASSUME NEW a \in Address, FailureTimeout(a) \/ CheckTurns(a) PROVE FALSE
    BY <1>6, <1>13 DEF FailureTimeout, CheckTurns, req
  <1> QED
    BY <1>3, <1>4, <1>6, <1>7, <1>8, <1>9, <1>10, <1>11, <1>12, <1>13
    DEF Next, Thread, Event, TransferFails, ParseFails, ReadRetryStatus, vars, req

RetryElsewhereStep ==
    \A r \in Request, c \in Connection :
        Handed(r, c) /\ avoided # None /\ address'[c] = avoided => offered' = {}

OneTrialStep ==
    \A r \in Request, c \in Connection :
        Handed(r, c) /\ failure[address'[c]].down # "no" /\ Busy(address'[c]) => offered' = {}

(* An address that may not be picked is only picked when none is left.     *)
LEMMA PickLastResort ==
    ASSUME NEW r \in Request, NEW a \in Address, Gets(r, a),
           a \in Down \/ (failure[a].down # "no" /\ Busy(a))
    PROVE  offered' = {}
  <1>1. PICK left \in SUBSET Address : Pick(a, left) /\ offered' = left
    BY DEF Gets
  <1>2. ~IsUp(a) /\ \A refused : ~IsPickable(a, refused)
    BY DEF IsUp, IsPickable
  <1> QED BY <1>1, <1>2 DEF Pick

LEMMA GetStep == Inv /\ [Next]_vars => RetryElsewhereStep /\ OneTrialStep
  <1> SUFFICES ASSUME Inv, [Next]_vars, NEW r \in Request, NEW c \in Connection, Handed(r, c)
               PROVE  /\ avoided # None /\ address'[c] = avoided => offered' = {}
                      /\ failure[address'[c]].down # "no" /\ Busy(address'[c]) => offered' = {}
    BY DEF RetryElsewhereStep, OneTrialStep
  <1>1. PICK a \in Address : Gets(r, a) /\ address'[c] = a
    BY HandedByGet
  <1>2. avoided # None /\ avoided = a => a \in Down
    BY DEF Down
  <1> QED BY <1>1, <1>2, PickLastResort

SendsStep ==
    \A r \in Request : r \in sent /\ r \notin sent' /\ state'[r] # "none"
        => retries[r] \in 0 .. MaxRetries - 1 /\ retries'[r] > retries[r]

LEMMA SendStep == Inv /\ [Next]_vars => SendsStep
  <1> SUFFICES ASSUME Inv, [Next]_vars, NEW r \in Request,
                      r \in sent, r \notin sent', state'[r] # "none"
               PROVE  retries[r] \in 0 .. MaxRetries - 1 /\ retries'[r] > retries[r]
    BY DEF SendsStep
  <1>1. retries \in [Request -> -1 .. MaxRetries + 1] /\ state \in [Request -> State]
    BY DEF Inv, RequestInv, RequestTypes
  <1>2. ASSUME NEW q \in Request, Retry(q)
        PROVE  retries[r] \in 0 .. MaxRetries - 1 /\ retries'[r] > retries[r]
    BY <1>1, <1>2 DEF Retry, MayRetry
  <1>3. ASSUME NEW q \in Request, NEW clean \in BOOLEAN, Finish(q, clean) PROVE FALSE
    BY <1>1, <1>3 DEF Finish
  <1>4. ASSUME NEW q \in Request, Crash(q) PROVE FALSE
    BY <1>4 DEF Crash
  <1>5. ASSUME NEW q \in Request, NEW seen, GiveUp(q, seen) PROVE FALSE
    BY <1>5 DEF GiveUp
  <1>6. ASSUME NEW q \in Request,
               WriteBlocks(q) \/ Write(q) \/ ReadBlocks(q) \/ ReadPart(q) \/ ReadHeaders(q)
                 \/ BodyBlocks(q) \/ BodyFails(q) \/ Arrive(q) \/ Wake(q)
        PROVE  FALSE
    BY <1>6 DEF WriteBlocks, Write, ReadBlocks, ReadPart, ReadHeaders, BodyBlocks, BodyFails,
                Arrive, Wake, Blocks, req
  <1>7. ASSUME NEW q \in Request, NEW a \in Address,
               GetIdle(q, a) \/ ConnectFails(q, a) \/ \E c \in Connection : Connect(q, a, c)
        PROVE  FALSE
    BY <1>7 DEF GetIdle, ConnectFails, Connect, Gets
  <1>8. ASSUME NEW d \in Connection,
               Timeout(d) \/ IdleClose(d) \/ ConnectDone(d) \/ PeerCloses(d)
        PROVE  FALSE
    BY <1>8 DEF Timeout, IdleClose, ConnectDone, PeerCloses, req
  <1>9. ASSUME NEW a \in Address, FailureTimeout(a) \/ CheckTurns(a) PROVE FALSE
    BY <1>9 DEF FailureTimeout, CheckTurns, req
  <1> QED
    BY <1>2, <1>3, <1>4, <1>5, <1>6, <1>7, <1>8, <1>9
    DEF Next, Thread, Event, TransferFails, ParseFails, ReadRetryStatus, Fail, BodyDone, Abort,
        vars, req

(* phl_upstream_retry_connection() avoids the address that failed, if      *)
(* another one is left.                                                    *)
THEOREM RetriesElsewhere == Spec => RetryElsewhere
  <1>1. RetryElsewhere <=> [][RetryElsewhereStep]_vars
    BY DEF RetryElsewhere, RetryElsewhereStep
  <1> QED BY Invariance, GetStep, <1>1, PTL DEF Spec

(* A down address gets no second connection while another one is left.     *)
THEOREM TrialsAlone == Spec => OneTrial
  <1>1. OneTrial <=> [][OneTrialStep]_vars
    BY DEF OneTrial, OneTrialStep
  <1> QED BY Invariance, GetStep, <1>1, PTL DEF Spec

(* Sending a request again costs one of its retries.                       *)
THEOREM RetriesCost == Spec => SendsBounded
  <1>1. SendsBounded <=> [][SendsStep]_vars
    BY DEF SendsBounded, SendsStep
  <1> QED BY Invariance, SendStep, <1>1, PTL DEF Spec
=============================================================================
