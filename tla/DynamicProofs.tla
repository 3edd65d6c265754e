---------------------------- MODULE DynamicProofs ----------------------------
(***************************************************************************)
(* Theorems about Dynamic, for any number of names, requests and           *)
(* sub-configurations: however calls of get_conf(), deletions, timeouts    *)
(* and the ends of requests interleave, the dictionary and the lists of    *)
(* waiting requests belong together, until a list is torn.                 *)
(***************************************************************************)
EXTENDS Dynamic, FiniteSetTheorems, TLAPS

(***************************************************************************)
(* The inductive invariant                                                 *)
(***************************************************************************)
(* What the dictionary has for a name: each once, none for two names, and  *)
(* all that is allocated.  A holder is alone.  What has subs of its own is *)
(* a configuration, so that phl_dynamic_delete() never keeps a holder.     *)
Entries(n) == Range(dict[n])

Stored ==
    /\ \A n \in Name : IsInjective(dict[n])
    /\ \A n, m \in Name : \A s \in Entries(n) : s \in Entries(m) => n = m
    /\ \A s \in Sub : kind[s] # "none" <=> \E n \in Name : s \in Entries(n)
    /\ \A n \in Name : \A s \in Entries(n) : kind[s] = "holder" => dict[n] = <<s>>
    /\ \A s \in nested : kind[s] = "conf"

(* Who is in a list waits, once, and for the holder of its name; who       *)
(* waits is in a list, if none is torn.                                    *)
Waiters ==
    /\ \A s \in Sub : IsInjective(waiting[s])
    /\ \A s \in Sub : \A r \in Woken(s) :
          state[r] = "waiting" /\ kind[s] = "holder" /\ dict[name[r]] = <<s>>
    /\ ~torn => \A r \in Request : state[r] = "waiting" => \E s \in Sub : r \in Woken(s)

DynamicInv == TypeOK /\ Stored /\ Waiters /\ NamesLimited

(***************************************************************************)
(* Lists                                                                   *)
(***************************************************************************)
LEMMA WithoutIs ==
  ASSUME NEW S, NEW list \in Seq(S), IsInjective(list), NEW i \in DOMAIN list,
         NEW w, w = Without(list, i)
  PROVE  /\ w \in Seq(S) /\ IsInjective(w) /\ Len(w) = Len(list) - 1
         /\ Range(w) = Range(list) \ {list[i]}
<1>1. Len(list) \in Nat /\ DOMAIN list = 1 .. Len(list) /\ i \in 1 .. Len(list)
  OBVIOUS
<1>2. \A j, k \in 1 .. Len(list) : list[j] = list[k] => j = k
  BY <1>1 DEF IsInjective
<1>3. \A j \in 1 .. Len(list) : list[j] \in S
  BY <1>1
<1>4. /\ w \in Seq(S) /\ Len(w) = Len(list) - 1 /\ DOMAIN w = 1 .. Len(list) - 1
      /\ \A j \in 1 .. Len(list) - 1 : w[j] = IF j < i THEN list[j] ELSE list[j + 1]
  BY <1>1, <1>3 DEF Without
<1>5. IsInjective(w)
  BY <1>1, <1>2, <1>4 DEF IsInjective
<1>6. ASSUME NEW j \in 1 .. Len(list) - 1 PROVE w[j] \in Range(list) \ {list[i]}
  BY <1>1, <1>2, <1>4 DEF Range
<1>7. ASSUME NEW k \in 1 .. Len(list), k # i PROVE list[k] \in Range(w)
  <2>1. CASE k < i
    BY <1>1, <1>4, <2>1 DEF Range
  <2>2. CASE k > i
    <3>1. k - 1 \in DOMAIN w /\ w[k - 1] = list[k]
      BY <1>1, <1>4, <2>2
    <3> QED
      BY <3>1 DEF Range
  <2> QED
    BY <1>1, <1>7, <2>1, <2>2
<1>8. Range(w) = Range(list) \ {list[i]}
  BY <1>1, <1>4, <1>6, <1>7 DEF Range
<1> QED
  BY <1>4, <1>5, <1>8

LEMMA InFront ==
  ASSUME NEW S, NEW list \in Seq(S), NEW e \in S, IsInjective(list), e \notin Range(list),
         NEW l, l = <<e>> \o list
  PROVE  /\ l \in Seq(S) /\ IsInjective(l) /\ Range(l) = Range(list) \cup {e}
         /\ l # <<>> /\ Head(l) = e
<1>1. /\ Len(list) \in Nat /\ DOMAIN list = 1 .. Len(list)
      /\ l \in Seq(S) /\ DOMAIN l = 1 .. Len(list) + 1 /\ l[1] = e
      /\ \A j \in 1 .. Len(list) : l[j + 1] = list[j]
      /\ \A j \in 2 .. Len(list) + 1 : l[j] = list[j - 1]
  OBVIOUS
<1>2. \A j \in 2 .. Len(list) + 1 : l[j] \in Range(list)
  BY <1>1 DEF Range
<1>3. Range(l) = Range(list) \cup {e}
  <2>1. ASSUME NEW j \in 1 .. Len(list) PROVE list[j] \in Range(l)
    <3>1. j + 1 \in DOMAIN l /\ l[j + 1] = list[j]
      BY <1>1
    <3> QED
      BY <3>1 DEF Range
  <2>2. Range(list) \subseteq Range(l)
    BY <1>1, <2>1 DEF Range
  <2>3. e \in Range(l)
    BY <1>1 DEF Range
  <2>4. ASSUME NEW j \in DOMAIN l PROVE l[j] \in Range(list) \cup {e}
    BY <1>1, <1>2
  <2>5. Range(l) \subseteq Range(list) \cup {e}
    BY <2>4 DEF Range
  <2> QED
    BY <2>2, <2>3, <2>5
<1>4. IsInjective(l)
  <2> SUFFICES ASSUME NEW j \in DOMAIN l, NEW k \in DOMAIN l, l[j] = l[k]
               PROVE  j = k
    BY DEF IsInjective
  <2>1. CASE j = 1 \/ k = 1
    BY <1>1, <1>2, <2>1
  <2>2. CASE j # 1 /\ k # 1
    <3>1. list[j - 1] = list[k - 1] /\ j - 1 \in DOMAIN list /\ k - 1 \in DOMAIN list
      BY <1>1, <2>2
    <3> QED
      BY <1>1, <3>1 DEF IsInjective
  <2> QED
    BY <2>1, <2>2
<1> QED
  BY <1>1, <1>3, <1>4

LEMMA AtEnd ==
  ASSUME NEW S, NEW list \in Seq(S), NEW e \in S, IsInjective(list), e \notin Range(list)
  PROVE  /\ Append(list, e) \in Seq(S) /\ IsInjective(Append(list, e))
         /\ Range(Append(list, e)) = Range(list) \cup {e}
<1> DEFINE l == Append(list, e)
<1>1. /\ Len(list) \in Nat /\ DOMAIN list = 1 .. Len(list)
      /\ l \in Seq(S) /\ DOMAIN l = 1 .. Len(list) + 1 /\ l[Len(list) + 1] = e
      /\ \A j \in 1 .. Len(list) : l[j] = list[j]
  OBVIOUS
<1> HIDE DEF l
<1>2. \A j \in 1 .. Len(list) : l[j] \in Range(list)
  BY <1>1 DEF Range
<1>3. Range(l) = Range(list) \cup {e}
  BY <1>1, <1>2 DEF Range
<1>4. IsInjective(l)
  BY <1>1, <1>2 DEF IsInjective
<1> QED
  BY <1>1, <1>3, <1>4 DEF l

(***************************************************************************)
(* The parts of the state                                                  *)
(***************************************************************************)
LEMMA Types ==
  ASSUME TypeOK
  PROVE  /\ dict \in [Name -> Seq(Sub)] /\ kind \in [Sub -> Kind] /\ error \in [Sub -> Error]
         /\ nested \in SUBSET Sub /\ waiting \in [Sub -> Seq(Request)]
         /\ state \in [Request -> State] /\ name \in [Request -> Name]
         /\ using \in [Request -> Sub \cup {None}] /\ torn \in BOOLEAN
         /\ \A n \in Name : Entries(n) \subseteq Sub
         /\ \A s \in Sub : Woken(s) = Range(waiting[s]) /\ Woken(s) \subseteq Request
  BY DEF TypeOK, Entries, Woken, Range

(* One name has another list, of what it had and of what was not           *)
(* allocated.                                                              *)
LEMMA StoredStep ==
  ASSUME TypeOK, Stored, NEW n \in Name, NEW list \in Seq(Sub), IsInjective(list),
         dict' = [dict EXCEPT ![n] = list], kind' \in [Sub -> Kind], nested' = nested,
         \A s \in Range(list) : kind'[s] # "none" /\ (s \in Entries(n) \/ kind[s] = "none"),
         \A s \in Entries(n) \ Range(list) : kind'[s] = "none",
         \A s \in Sub \ (Entries(n) \cup Range(list)) : kind'[s] = kind[s],
         \A s \in Range(list) : kind'[s] = "holder" => list = <<s>>,
         \A s \in nested : kind'[s] = "conf"
  PROVE  Stored'
<1>1. /\ dict \in [Name -> Seq(Sub)] /\ \A m \in Name : Entries(m) \subseteq Sub
      /\ Range(list) \subseteq Sub
  BY Types DEF Range
<1>2. dict'[n] = list /\ \A m \in Name \ {n} : dict'[m] = dict[m]
  BY <1>1
<1>3. Entries(n)' = Range(list) /\ \A m \in Name \ {n} : Entries(m)' = Entries(m)
  BY <1>2 DEF Entries
<1>4. \A m \in Name \ {n} : \A s \in Entries(m) : s \notin Entries(n) /\ kind[s] # "none"
  BY <1>1 DEF Stored
<1>5. \A m \in Name \ {n} : \A s \in Entries(m) : s \notin Range(list) /\ kind'[s] = kind[s]
  BY <1>1, <1>4
<1>6. \A m \in Name : IsInjective(dict'[m])
  BY <1>2 DEF Stored
<1>7. \A m, k \in Name : \A s \in Entries(m)' : s \in Entries(k)' => m = k
  BY <1>3, <1>5 DEF Stored
<1>8. ASSUME NEW s \in Sub PROVE kind'[s] # "none" <=> \E m \in Name : s \in Entries(m)'
  <2>1. CASE s \in Range(list)
    BY <1>3, <2>1
  <2>2. CASE s \in Entries(n) \ Range(list)
    BY <1>3, <1>4, <2>2
  <2>3. CASE s \notin Entries(n) \cup Range(list)
    BY <1>3, <2>3 DEF Stored
  <2> QED
    BY <2>1, <2>2, <2>3
<1>9. \A m \in Name : \A s \in Entries(m)' : kind'[s] = "holder" => dict'[m] = <<s>>
  BY <1>2, <1>3, <1>5 DEF Stored
<1> QED
  BY <1>6, <1>7, <1>8, <1>9 DEF Stored

Named == {n \in Name : dict[n] # <<>>}

(* As many names as have something have something of their own.            *)
LEMMA NamedFinite ==
  ASSUME TypeOK, Stored
  PROVE  /\ IsFiniteSet(Named) /\ IsFiniteSet(InDict)
         /\ Cardinality(Named) \in Nat /\ Cardinality(InDict) \in Nat
         /\ Cardinality(Named) <= Cardinality(InDict)
<1>1. IsFiniteSet(InDict)
  BY ConfAssumption, FS_Subset DEF InDict
<1> DEFINE first == [n \in Named |-> dict[n][1]]
<1>2. ASSUME NEW n \in Named PROVE dict[n][1] \in Entries(n) /\ dict[n][1] \in InDict
  <2>1. n \in Name /\ dict[n] \in Seq(Sub) /\ dict[n] # <<>>
    BY Types DEF Named
  <2>2. 1 \in DOMAIN dict[n]
    BY <2>1
  <2>3. dict[n][1] \in Entries(n)
    BY <2>2 DEF Entries, Range
  <2> QED
    BY <2>1, <2>3, Types DEF Stored, InDict
<1>3. \A n, m \in Named : first[n] = first[m] => n = m
  BY <1>2 DEF Stored, Named
<1>4. first \in Injection(Named, InDict)
  BY <1>2, <1>3 DEF Injection, IsInjective
<1> HIDE DEF first
<1> QED
  BY <1>1, <1>4, FS_Injection, FS_CardinalityType

LEMMA NamesSame ==
  ASSUME TypeOK, Stored, NamesLimited, Named' \subseteq Named
  PROVE  NamesLimited'
<1>1. IsFiniteSet(Named') /\ Cardinality(Named') <= Cardinality(Named) /\ Cardinality(Named) <= SubMax
  BY NamedFinite, FS_Subset DEF NamesLimited, Named
<1>2. Cardinality(Named') \in Nat /\ Cardinality(Named) \in Nat
  BY <1>1, NamedFinite, FS_CardinalityType
<1>3. Cardinality(Named') <= SubMax
  BY <1>1, <1>2, ConfAssumption
<1> QED
  BY <1>3 DEF NamesLimited, Named

(* A new holder, for a name that has nothing                               *)
LEMMA HolderStep ==
  ASSUME TypeOK, Stored, NamesLimited, NEW n \in Name, dict[n] = <<>>, ~Full,
         NEW s \in Sub, NewHolder(n, s)
  PROVE  /\ Stored' /\ NamesLimited'
         /\ dict' = [dict EXCEPT ![n] = <<s>>] /\ kind' = [kind EXCEPT ![s] = "holder"]
         /\ UNCHANGED <<error, nested, waiting, torn>> /\ kind[s] = "none"
<1>1. /\ dict' = [dict EXCEPT ![n] = <<s>>] /\ kind' = [kind EXCEPT ![s] = "holder"]
      /\ UNCHANGED <<error, nested, waiting, torn>> /\ kind[s] = "none"
  BY DEF NewHolder, Unused
<1>2. /\ <<s>> \in Seq(Sub) /\ IsInjective(<<s>>) /\ Range(<<s>>) = {s} /\ Entries(n) = {}
  BY DEF IsInjective, Range, Entries
<1>3. kind' \in [Sub -> Kind] /\ kind'[s] = "holder" /\ \A t \in Sub \ {s} : kind'[t] = kind[t]
  BY <1>1, Types DEF Kind
<1>4. \A t \in nested : kind'[t] = "conf"
  BY <1>1, <1>3, Types DEF Stored
<1>5. Stored'
  BY <1>1, <1>2, <1>3, <1>4, StoredStep
<1>6. Named' = Named \cup {n} /\ n \notin Named
  BY <1>1, Types DEF Named
<1>7. Cardinality(Named') = Cardinality(Named) + 1
  BY <1>6, NamedFinite, FS_AddElement
<1>8. NamesLimited'
  BY <1>7, NamedFinite, ConfAssumption DEF NamesLimited, Named, Full
<1> QED
  BY <1>1, <1>5, <1>8

(* Lists of waiting requests, and the names they wait for, stay the same.  *)
LEMMA WaitersSame ==
  ASSUME TypeOK, Waiters, waiting' = waiting, torn' = torn,
         \A r \in Request : state'[r] = "waiting" => state[r] = "waiting",
         \A s \in Sub : \A r \in Woken(s) : state'[r] = "waiting" /\ name'[r] = name[r],
         \A s \in Sub : kind[s] = "holder" => kind'[s] = "holder",
         \A n \in Name : dict[n] # <<>> => dict'[n] = dict[n]
  PROVE  Waiters'
<1>1. \A s \in Sub : Woken(s)' = Woken(s) /\ Woken(s) \subseteq Request
  BY Types DEF Woken
<1>2. ASSUME NEW s \in Sub, NEW r \in Woken(s)
      PROVE  state'[r] = "waiting" /\ kind'[s] = "holder" /\ dict'[name'[r]] = <<s>>
  <2>1. r \in Request /\ state[r] = "waiting" /\ kind[s] = "holder" /\ dict[name[r]] = <<s>>
    BY <1>1 DEF Waiters
  <2>2. name[r] \in Name
    BY <2>1, Types
  <2> QED
    BY <2>1, <2>2
<1>3. \A s \in Sub : IsInjective(waiting'[s])
  BY DEF Waiters
<1>4. ASSUME ~torn', NEW r \in Request, state'[r] = "waiting" PROVE \E s \in Sub : r \in Woken(s)'
  BY <1>1, <1>4 DEF Waiters
<1> QED
  BY <1>1, <1>2, <1>3, <1>4 DEF Waiters

LEMMA OneHolder ==
  ASSUME TypeOK, Waiters, NEW s \in Sub, NEW t \in Sub, NEW r \in Woken(s), r \in Woken(t)
  PROVE  s = t
<1>1. dict[name[r]] = <<s>> /\ dict[name[r]] = <<t>>
  BY DEF Waiters
<1> QED
  BY <1>1

(* A request puts itself into the list of the holder of its name.          *)
LEMMA WaitStep ==
  ASSUME DynamicInv, NEW r \in Request, NEW n \in Name, Wait(r, n)
  PROVE  DynamicInv'
<1>2. TypeOK /\ Stored /\ Waiters /\ NamesLimited
  BY DEF DynamicInv
<1>3. PICK s \in Sub : s = Head(dict[n]) /\ s \in Entries(n)
  <2>1. dict[n] \in Seq(Sub) /\ dict[n] # <<>>
    BY <1>2, Types DEF Wait
  <2>2. 1 \in DOMAIN dict[n] /\ Head(dict[n]) = dict[n][1] /\ dict[n][1] \in Sub
    BY <2>1
  <2> QED
    BY <2>2 DEF Entries, Range
<1>1. /\ state[r] = "none" \/ (state[r] = "waiting" /\ n = name[r])
      /\ name' = [name EXCEPT ![r] = n] /\ kind[s] = "holder"
      /\ waiting' = IF r \in Woken(s) THEN waiting ELSE [waiting EXCEPT ![s] = Append(@, r)]
      /\ torn' \in {torn \/ state[r] = "waiting", TRUE}
      /\ state' = [state EXCEPT ![r] = "waiting"] /\ using' = [using EXCEPT ![r] = None]
      /\ UNCHANGED <<dict, kind, error, nested>>
  BY <1>3 DEF Wait, Comes, Become
<1>4. dict[n] = <<s>>
  BY <1>1, <1>2, <1>3 DEF Stored
<1>5. \A t \in Sub \ {s} : r \notin Woken(t)
  <2>1. ASSUME NEW t \in Sub, r \in Woken(t) PROVE t = s
    <3>1. dict[n] = <<t>>
      BY <1>1, <1>2, <2>1 DEF Waiters
    <3> QED
      BY <1>4, <3>1
  <2> QED
    BY <2>1
<1>6. waiting[s] \in Seq(Request) /\ IsInjective(waiting[s]) /\ Woken(s) = Range(waiting[s])
  BY <1>2, <1>3, Types DEF Waiters
<1>7. /\ waiting' \in [Sub -> Seq(Request)] /\ IsInjective(waiting'[s])
      /\ Range(waiting'[s]) = Range(waiting[s]) \cup {r}
      /\ \A t \in Sub \ {s} : waiting'[t] = waiting[t]
  <2>1. CASE r \in Woken(s)
    BY <1>1, <1>2, <1>6, <2>1, Types
  <2>2. CASE r \notin Woken(s)
    BY <1>1, <1>2, <1>3, <1>6, <2>2, AtEnd, Types
  <2> QED
    BY <2>1, <2>2
<1>8. /\ Woken(s)' = Woken(s) \cup {r}
      /\ \A t \in Sub \ {s} : Woken(t)' = Woken(t)
  BY <1>7 DEF Woken, Range
<1>9. TypeOK'
  <2>1. state' \in [Request -> State] /\ name' \in [Request -> Name]
        /\ using' \in [Request -> Sub \cup {None}] /\ torn' \in BOOLEAN
    BY <1>1, <1>2, Types DEF State
  <2> QED
    BY <1>1, <1>2, <1>7, <2>1 DEF TypeOK
<1>10. /\ state'[r] = "waiting" /\ name'[r] = n
       /\ \A q \in Request \ {r} : state'[q] = state[q] /\ name'[q] = name[q]
  BY <1>1, <1>2, Types
<1>11. Waiters'
  <2>1. \A t \in Sub : IsInjective(waiting'[t])
    BY <1>2, <1>7 DEF Waiters
  <2>2. ASSUME NEW t \in Sub, NEW q \in Woken(t)'
        PROVE  state'[q] = "waiting" /\ kind'[t] = "holder" /\ dict'[name'[q]] = <<t>>
    <3>1. CASE q = r
      <4>1. t = s
        BY <1>5, <1>8, <2>2, <3>1
      <4> QED
        BY <1>1, <1>4, <1>10, <3>1, <4>1
    <3>2. CASE q # r
      <4>1. q \in Woken(t) /\ q \in Request
        BY <1>2, <1>8, <2>2, <3>2, Types
      <4>2. state[q] = "waiting" /\ kind[t] = "holder" /\ dict[name[q]] = <<t>>
        BY <1>2, <4>1 DEF Waiters
      <4>3. state'[q] = state[q] /\ name'[q] = name[q]
        BY <1>10, <3>2, <4>1
      <4>4. dict' = dict /\ kind' = kind
        BY <1>1
      <4> QED
        BY <4>2, <4>3, <4>4
    <3> QED
      BY <3>1, <3>2
  <2>3. ASSUME ~torn', NEW q \in Request, state'[q] = "waiting"
        PROVE  \E t \in Sub : q \in Woken(t)'
    <3>1. CASE q = r
      BY <1>3, <1>8, <3>1
    <3>2. CASE q # r
      <4>1. ~torn
        BY <1>1, <2>3
      <4>2. PICK t \in Sub : q \in Woken(t)
        BY <1>2, <1>10, <2>3, <3>2, <4>1 DEF Waiters
      <4> QED
        BY <1>8, <4>2
    <3> QED
      BY <3>1, <3>2
  <2> QED
    BY <2>1, <2>2, <2>3 DEF Waiters
<1>12. Stored' /\ NamesLimited'
  BY <1>1, <1>2 DEF Stored, Entries, NamesLimited
<1> QED
  BY <1>9, <1>11, <1>12 DEF DynamicInv

(* A request leaves the list it is in.                                     *)
LEMMA EndsStep ==
  ASSUME DynamicInv, NEW r \in Request, Ends(r)
  PROVE  DynamicInv'
<1>1. /\ state' = [state EXCEPT ![r] = "none"] /\ using' = [using EXCEPT ![r] = None]
      /\ UNCHANGED <<dict, kind, error, nested, name, torn>>
  BY DEF Ends, Become
<1>2. TypeOK /\ Stored /\ Waiters /\ NamesLimited
  BY DEF DynamicInv
<1>3. /\ waiting' \in [Sub -> Seq(Request)]
      /\ \A s \in Sub : IsInjective(waiting'[s]) /\ Woken(s)' = Woken(s) \ {r}
  <2>1. CASE (\A s \in Sub : r \notin Woken(s)) /\ waiting' = waiting
    BY <1>2, <2>1, Types DEF Waiters, Woken
  <2>2. ASSUME NEW s \in Sub, NEW i \in DOMAIN waiting[s], waiting[s][i] = r,
               waiting' = [waiting EXCEPT ![s] = Without(@, i)]
        PROVE  /\ waiting' \in [Sub -> Seq(Request)]
               /\ \A t \in Sub : IsInjective(waiting'[t]) /\ Woken(t)' = Woken(t) \ {r}
    <3>1. waiting[s] \in Seq(Request) /\ IsInjective(waiting[s]) /\ waiting \in [Sub -> Seq(Request)]
      BY <1>2, Types DEF Waiters
    <3>2. /\ Without(waiting[s], i) \in Seq(Request) /\ IsInjective(Without(waiting[s], i))
          /\ Range(Without(waiting[s], i)) = Range(waiting[s]) \ {r}
      BY <2>2, <3>1, WithoutIs
    <3>3. waiting' \in [Sub -> Seq(Request)]
      BY <2>2, <3>1, <3>2
    <3>4. waiting'[s] = Without(waiting[s], i) /\ \A t \in Sub \ {s} : waiting'[t] = waiting[t]
      BY <2>2, <3>1
    <3>5. r \in Woken(s) /\ \A t \in Sub \ {s} : r \notin Woken(t)
      BY <1>2, <2>2, OneHolder DEF Woken
    <3>6. Woken(s)' = Woken(s) \ {r} /\ \A t \in Sub \ {s} : Woken(t)' = Woken(t)
      BY <3>2, <3>4 DEF Woken, Range
    <3>7. \A t \in Sub : IsInjective(waiting'[t])
      BY <1>2, <3>2, <3>4 DEF Waiters
    <3> QED
      BY <3>3, <3>5, <3>6, <3>7
  <2> QED
    BY <2>1, <2>2 DEF Ends
<1>4. TypeOK'
  <2>1. state' \in [Request -> State] /\ using' \in [Request -> Sub \cup {None}]
    BY <1>1, <1>2, Types DEF State
  <2> QED
    BY <1>1, <1>2, <1>3, <2>1 DEF TypeOK
<1>5. state'[r] = "none" /\ \A q \in Request \ {r} : state'[q] = state[q]
  BY <1>1, <1>2, Types
<1>6. Waiters'
  <2>1. ASSUME NEW s \in Sub, NEW q \in Woken(s)'
        PROVE  state'[q] = "waiting" /\ kind'[s] = "holder" /\ dict'[name'[q]] = <<s>>
    <3>1. q \in Woken(s) /\ q # r /\ q \in Request
      BY <1>2, <1>3, <2>1, Types
    <3> QED
      BY <1>1, <1>2, <1>5, <3>1 DEF Waiters
  <2>2. ~torn' => \A q \in Request : state'[q] = "waiting" => \E s \in Sub : q \in Woken(s)'
    BY <1>1, <1>2, <1>3, <1>5 DEF Waiters
  <2> QED
    BY <1>3, <2>1, <2>2 DEF Waiters
<1>7. Stored' /\ NamesLimited'
  BY <1>1, <1>2 DEF Stored, Entries, NamesLimited
<1> QED
  BY <1>4, <1>6, <1>7 DEF DynamicInv

(***************************************************************************)
(* phl_dynamic_delete()                                                    *)
(***************************************************************************)
(* What is left of a name's list, with `new` in front of it.               *)
After(n, i, new) ==
    LET rest == IF dict[n][i] \in nested THEN dict[n] ELSE Without(dict[n], i)
    IN  IF new = None THEN rest ELSE <<new>> \o rest

LEMMA DeleteList ==
  ASSUME TypeOK, Stored, NEW n \in Name, NEW i \in DOMAIN dict[n], NEW s, s = dict[n][i],
         NEW new \in Unused \cup {None},
         NEW list, list = After(n, i, new)
  PROVE  /\ s \in Entries(n) /\ s \in Sub
         /\ list \in Seq(Sub) /\ IsInjective(list)
         /\ Range(list) = ((IF s \in nested THEN Entries(n) ELSE Entries(n) \ {s})
                            \cup IF new = None THEN {} ELSE {new})
         /\ new # None => list # <<>> /\ Head(list) = new
         /\ s \in nested /\ new = None => list = dict[n]
<1> DEFINE rest == IF s \in nested THEN dict[n] ELSE Without(dict[n], i)
<1>1. dict[n] \in Seq(Sub) /\ IsInjective(dict[n])
  BY Types DEF Stored
<1>2. s \in Entries(n) /\ s \in Sub
  BY <1>1 DEF Entries, Range
<1>3. /\ rest \in Seq(Sub) /\ IsInjective(rest)
      /\ Range(rest) = (IF s \in nested THEN Entries(n) ELSE Entries(n) \ {s})
  BY <1>1, WithoutIs DEF Entries
<1>4. s \in nested => rest = dict[n]
  OBVIOUS
<1>5. list = IF new = None THEN rest ELSE <<new>> \o rest
  BY DEF After
<1> HIDE DEF rest
<1>6. CASE new = None
  BY <1>2, <1>3, <1>4, <1>5, <1>6
<1>7. CASE new # None
  <2>1. new \in Sub /\ kind[new] = "none"
    BY <1>7 DEF Unused
  <2>2. new \notin Range(rest)
    BY <1>3, <2>1 DEF Stored
  <2>3. list = <<new>> \o rest
    BY <1>5, <1>7
  <2>4. rest \in Seq(Sub) /\ IsInjective(rest) /\ new \in Sub
    BY <1>3, <2>1
  <2>5. \A l : l = <<new>> \o rest =>
           /\ l \in Seq(Sub) /\ IsInjective(l) /\ Range(l) = Range(rest) \cup {new}
           /\ l # <<>> /\ Head(l) = new
    BY <2>2, <2>4, InFront, Zenon
  <2>6. /\ list \in Seq(Sub) /\ IsInjective(list) /\ Range(list) = Range(rest) \cup {new}
        /\ list # <<>> /\ Head(list) = new
    BY <2>3, <2>5, Zenon
  <2> QED
    BY <1>2, <1>3, <1>7, <2>6
<1> QED
  BY <1>6, <1>7

LEMMA DeleteStep ==
  ASSUME DynamicInv, NEW n \in Name, NEW i \in DOMAIN dict[n],
         NEW new \in Unused \cup {None}, NEW R \in SUBSET Request,
         \A r \in R : state[r] # "waiting", Delete(n, i, new, R)
  PROVE  DynamicInv'
<1>1. TypeOK /\ Stored /\ Waiters /\ NamesLimited
  BY DEF DynamicInv
<1>2. PICK s : s = dict[n][i]
  OBVIOUS
<1>3. PICK list : list = After(n, i, new)
  OBVIOUS
<1>4. /\ dict' = [dict EXCEPT ![n] = list]
      /\ kind' = [t \in Sub |-> IF t = new THEN "conf"
                                ELSE IF t = s /\ s \notin nested THEN "none" ELSE kind[t]]
      /\ error' = IF s \in nested THEN error ELSE [error EXCEPT ![s] = "no"]
      /\ waiting' = [waiting EXCEPT ![s] = <<>>]
      /\ UNCHANGED <<nested, name, torn>>
  BY <1>2, <1>3 DEF Delete, After
<1>woken. PICK W \in SUBSET Woken(s) :
      /\ torn \/ W = Woken(s)
      /\ state' = [r \in Request |-> IF r \notin W \cup R THEN state[r]
                                     ELSE IF new = None THEN "none" ELSE "using"]
      /\ using' = [r \in Request |-> IF r \in W \cup R THEN new ELSE using[r]]
  BY <1>2 DEF Delete, Serve
<1>5. /\ s \in Entries(n) /\ s \in Sub
      /\ list \in Seq(Sub) /\ IsInjective(list)
      /\ Range(list) = ((IF s \in nested THEN Entries(n) ELSE Entries(n) \ {s})
                         \cup IF new = None THEN {} ELSE {new})
  BY <1>1, <1>2, <1>3, DeleteList
<1>6. new # None => new \in Sub /\ kind[new] = "none" /\ \A m \in Name : new \notin Entries(m)
  BY <1>1 DEF Unused, Stored
<1>fresh. s # new /\ kind[s] # "none" /\ new \notin Entries(n)
  <2>1. kind[s] # "none" /\ s # None
    BY <1>1, <1>5, NullAssumption DEF Stored
  <2>2. new = None => new \notin Entries(n)
    BY <1>1, Types, NullAssumption
  <2> QED
    BY <1>6, <2>1, <2>2
<1>7. TypeOK'
  <2>1. dict' \in [Name -> Seq(Sub)]
    BY <1>1, <1>4, <1>5, Types
  <2>2. kind' \in [Sub -> Kind]
    BY <1>1, <1>4, Types DEF Kind
  <2>3. error' \in [Sub -> Error] /\ waiting' \in [Sub -> Seq(Request)]
    BY <1>1, <1>4, <1>5, Types DEF Error
  <2>4. state' \in [Request -> State]
    BY <1>1, <1>woken, Types DEF State
  <2>5. using' \in [Request -> Sub \cup {None}]
    BY <1>1, <1>6, <1>woken, Types
  <2> QED
    BY <1>1, <1>4, <2>1, <2>2, <2>3, <2>4, <2>5 DEF TypeOK
<1>8. /\ \A t \in Sub : t # s /\ t # new => kind'[t] = kind[t]
      /\ new # None => kind'[new] = "conf"
      /\ s \in nested => kind'[s] = kind[s]
      /\ s \notin nested => kind'[s] = "none"
  BY <1>4, <1>5, <1>6, <1>fresh
<1>9. Stored'
  <2>1. ASSUME NEW t \in Range(list)
        PROVE  kind'[t] # "none" /\ (t \in Entries(n) \/ kind[t] = "none")
    <3>1. CASE t = new
      <4>1. new # None
        BY <1>5, <1>fresh, <2>1, <3>1 DEF Range
      <4> QED
        BY <1>6, <1>8, <3>1, <4>1
    <3>2. CASE t # new
      <4>1. t \in Entries(n) /\ (t = s => s \in nested)
        BY <1>5, <2>1, <3>2
      <4>2. t \in Sub /\ kind[t] # "none"
        BY <1>1, <4>1, Types DEF Stored
      <4> QED
        BY <1>8, <3>2, <4>1, <4>2
    <3> QED
      BY <3>1, <3>2
  <2>2. \A t \in Entries(n) \ Range(list) : kind'[t] = "none"
    BY <1>5, <1>8
  <2>3. ASSUME NEW t \in Sub \ (Entries(n) \cup Range(list)) PROVE kind'[t] = kind[t]
    <3>1. t # s /\ t # new
      BY <1>5, <2>3, NullAssumption
    <3> QED
      BY <1>8, <3>1
  <2>4. ASSUME NEW t \in Range(list), kind'[t] = "holder" PROVE FALSE
    <3>4. t \in Sub
      BY <1>5 DEF Range
    <3>5. t # new
      BY <1>8, <2>4, <3>4, NullAssumption
    <3>1. t # new /\ t \in Entries(n) /\ t \in Sub
      BY <1>5, <3>4, <3>5
    <3>2. kind[t] = "holder" /\ (s \in nested \/ t # s)
      BY <1>5, <1>8, <2>4, <3>1
    <3>3. Entries(n) = {t}
      BY <1>1, <3>1, <3>2 DEF Stored, Entries, Range
    <3> QED
      BY <1>1, <1>5, <3>2, <3>3 DEF Stored
  <2>5. ASSUME NEW t \in nested PROVE kind'[t] = "conf"
    <3>1. t \in Sub /\ kind[t] = "conf"
      BY <1>1, Types DEF Stored
    <3>2. t # new
      BY <1>6, <3>1, NullAssumption
    <3> QED
      BY <1>8, <3>1, <3>2
  <2>6. kind' \in [Sub -> Kind] /\ nested' = nested
    BY <1>4, <1>7, Types DEF TypeOK
  <2> QED
    BY <1>1, <1>4, <1>5, <2>1, <2>2, <2>3, <2>4, <2>5, <2>6, StoredStep
<1>10. NamesLimited'
  <2>1. n \in Named
    BY <1>1, Types DEF Named
  <2>2. Named' \subseteq Named
    BY <1>1, <1>4, <2>1, Types DEF Named
  <2> QED
    BY <1>1, <2>2, NamesSame
<1>11. waiting'[s] = <<>> /\ \A t \in Sub \ {s} : waiting'[t] = waiting[t]
  BY <1>1, <1>4, <1>5, Types
<1>12. Woken(s)' = {} /\ \A t \in Sub \ {s} : Woken(t)' = Woken(t)
  BY <1>11 DEF Woken
<1>13. Waiters'
  <2>1. \A t \in Sub : IsInjective(waiting'[t])
    BY <1>1, <1>11 DEF Waiters, IsInjective
  <2>2. ASSUME NEW t \in Sub, NEW q \in Woken(t)'
        PROVE  state'[q] = "waiting" /\ kind'[t] = "holder" /\ dict'[name'[q]] = <<t>>
    <3>1. t # s /\ q \in Woken(t) /\ q \in Request
      BY <1>1, <1>12, <2>2, Types
    <3>2. state[q] = "waiting" /\ kind[t] = "holder" /\ dict[name[q]] = <<t>> /\ name[q] \in Name
      BY <1>1, <3>1, Types DEF Waiters
    <3>3. q \notin W /\ q \notin R
      BY <1>1, <1>5, <3>1, <3>2, OneHolder
    <3>4. name[q] # n
      BY <1>5, <3>1, <3>2 DEF Entries, Range
    <3>5. t # new
      BY <1>6, <3>2, NullAssumption
    <3> QED
      BY <1>1, <1>4, <1>8, <1>woken, <3>1, <3>2, <3>3, <3>4, <3>5, Types
  <2>3. ASSUME ~torn', NEW q \in Request, state'[q] = "waiting"
        PROVE  \E t \in Sub : q \in Woken(t)'
    <3>1. ~torn /\ q \notin Woken(s) /\ state[q] = "waiting"
      BY <1>4, <1>woken, <2>3
    <3>2. PICK t \in Sub : q \in Woken(t)
      BY <1>1, <3>1 DEF Waiters
    <3> QED
      BY <1>12, <3>1, <3>2
  <2> QED
    BY <2>1, <2>2, <2>3 DEF Waiters
<1> QED
  BY <1>7, <1>9, <1>10, <1>13 DEF DynamicInv

(***************************************************************************)
(* The other steps                                                         *)
(***************************************************************************)
(* A holder is put in for a name that has nothing.                         *)
LEMMA NewHolderStep ==
  ASSUME DynamicInv, NEW n \in Name, dict[n] = <<>>, ~Full, NEW s \in Sub, NewHolder(n, s),
         state' \in [Request -> State], name' \in [Request -> Name],
         using' \in [Request -> Sub \cup {None}],
         \A q \in Request : state'[q] = "waiting" => state[q] = "waiting",
         \A t \in Sub : \A q \in Woken(t) : state'[q] = "waiting" /\ name'[q] = name[q]
  PROVE  DynamicInv'
<1>1. TypeOK /\ Stored /\ Waiters /\ NamesLimited
  BY DEF DynamicInv
<1>2. /\ Stored' /\ NamesLimited'
      /\ dict' = [dict EXCEPT ![n] = <<s>>] /\ kind' = [kind EXCEPT ![s] = "holder"]
      /\ UNCHANGED <<error, nested, waiting, torn>> /\ kind[s] = "none"
  BY <1>1, HolderStep
<1>3. dict' \in [Name -> Seq(Sub)] /\ kind' \in [Sub -> Kind]
  BY <1>1, <1>2, Types DEF Kind
<1>4. TypeOK'
  BY <1>1, <1>2, <1>3 DEF TypeOK
<1>5. /\ \A t \in Sub : kind[t] = "holder" => kind'[t] = "holder"
      /\ \A m \in Name : dict[m] # <<>> => dict'[m] = dict[m]
  BY <1>1, <1>2, Types
<1>6. Waiters'
  BY <1>1, <1>2, <1>5, WaitersSame
<1> QED
  BY <1>2, <1>4, <1>6 DEF DynamicInv

(* Neither the dictionary nor a list of waiting requests changes.          *)
LEMMA SameStep ==
  ASSUME DynamicInv, UNCHANGED <<dict, kind, waiting, torn>>, error' \in [Sub -> Error],
         nested' \in SUBSET Sub, \A s \in nested' : kind[s] = "conf",
         state' \in [Request -> State], name' \in [Request -> Name],
         using' \in [Request -> Sub \cup {None}],
         \A q \in Request : state'[q] = "waiting" => state[q] = "waiting",
         \A t \in Sub : \A q \in Woken(t) : state'[q] = "waiting" /\ name'[q] = name[q]
  PROVE  DynamicInv'
<1>1. TypeOK /\ Stored /\ Waiters /\ NamesLimited
  BY DEF DynamicInv
<1>2. TypeOK'
  BY <1>1 DEF TypeOK
<1>3. Stored' /\ NamesLimited'
  BY <1>1 DEF Stored, Entries, NamesLimited
<1>4. Waiters'
  BY <1>1, WaitersSame
<1> QED
  BY <1>2, <1>3, <1>4 DEF DynamicInv

(* What a name leads to is one of the sub-configurations.                  *)
LEMMA HeadOf ==
  ASSUME TypeOK, NEW n \in Name, dict[n] # <<>>
  PROVE  /\ 1 \in DOMAIN dict[n] /\ Head(dict[n]) = dict[n][1]
         /\ dict[n][1] \in Sub /\ dict[n][1] \in Entries(n)
<1>1. dict[n] \in Seq(Sub)
  BY Types
<1>2. 1 \in DOMAIN dict[n] /\ Head(dict[n]) = dict[n][1] /\ dict[n][1] \in Sub
  BY <1>1
<1> QED
  BY <1>2 DEF Entries, Range

(* A request that is in no list goes on, without a change to the rest.     *)
LEMMA BecomeStep ==
  ASSUME DynamicInv, NEW r \in Request, \A s \in Sub : r \notin Woken(s),
         NEW what \in State \ {"waiting"}, NEW sub \in Sub \cup {None}, Become(r, what, sub),
         UNCHANGED <<dict, kind, waiting, nested, torn>>, error' \in [Sub -> Error],
         NEW n \in Name, name' = name \/ name' = [name EXCEPT ![r] = n]
  PROVE  DynamicInv'
<1>1. TypeOK /\ Stored
  BY DEF DynamicInv
<1>2. /\ state' = [state EXCEPT ![r] = what] /\ using' = [using EXCEPT ![r] = sub]
  BY DEF Become
<1>3. /\ state' \in [Request -> State] /\ name' \in [Request -> Name]
      /\ using' \in [Request -> Sub \cup {None}]
  BY <1>1, <1>2, Types
<1>4. /\ \A q \in Request : state'[q] = "waiting" => state[q] = "waiting"
      /\ \A t \in Sub : \A q \in Woken(t) : state'[q] = "waiting" /\ name'[q] = name[q]
  BY <1>1, <1>2, Types DEF DynamicInv, Waiters
<1>5. nested' \in SUBSET Sub /\ \A s \in nested' : kind[s] = "conf"
  BY <1>1, Types DEF Stored
<1> QED
  BY <1>3, <1>4, <1>5, SameStep

(***************************************************************************)
(* Every step                                                              *)
(***************************************************************************)
LEMMA InitDynamic == Init => DynamicInv
<1> SUFFICES ASSUME Init PROVE DynamicInv
  OBVIOUS
<1>1. TypeOK
  <2>1. dict \in [Name -> Seq(Sub)] /\ waiting \in [Sub -> Seq(Request)]
    BY DEF Init
  <2>2. kind \in [Sub -> Kind] /\ error \in [Sub -> Error] /\ nested \in SUBSET Sub
    BY DEF Init, Kind, Error
  <2>3. state \in [Request -> State] /\ using \in [Request -> Sub \cup {None}]
    BY DEF Init, State
  <2>4. name \in [Request -> Name] /\ torn \in BOOLEAN
    BY DEF Init
  <2> QED
    BY <2>1, <2>2, <2>3, <2>4 DEF TypeOK
<1>2. \A n \in Name : dict[n] = <<>> /\ Entries(n) = {} /\ IsInjective(dict[n])
  BY DEF Init, Entries, Range, IsInjective
<1>3. Stored
  BY <1>2 DEF Init, Stored
<1>4. \A s \in Sub : Woken(s) = {} /\ IsInjective(waiting[s])
  BY DEF Init, Woken, IsInjective
<1>5. Waiters
  BY <1>4 DEF Init, Waiters
<1>6. Cardinality({n \in Name : dict[n] # <<>>}) = 0
  <2>1. {n \in Name : dict[n] # <<>>} = {}
    BY <1>2
  <2> QED
    BY <2>1, FS_EmptySet
<1>7. NamesLimited
  BY <1>6, ConfAssumption DEF NamesLimited
<1> QED
  BY <1>1, <1>3, <1>5, <1>7 DEF DynamicInv

LEMMA ComesStep ==
  ASSUME DynamicInv, NEW r \in Request, NEW n \in Name,
         Miss(r, n) \/ Wait(r, n) \/ Hit(r, n) \/ Check(r, n)
  PROVE  DynamicInv'
<1>1. /\ TypeOK /\ Waiters /\ name' = [name EXCEPT ![r] = n]
      /\ state[r] = "none" \/ (state[r] = "waiting" /\ n = name[r])
  BY DEF DynamicInv, Miss, Wait, Hit, Check, Finds, Comes
<1>2. CASE Miss(r, n)
  <2>1. PICK s \in Sub : NewHolder(n, s)
    BY <1>2 DEF Miss
  <2>2. /\ state' = [state EXCEPT ![r] = "calling"] /\ using' = [using EXCEPT ![r] = None]
        /\ dict[n] = <<>> /\ ~Full
    BY <1>2 DEF Miss, Become
  <2>3. /\ state' \in [Request -> State] /\ name' \in [Request -> Name]
        /\ using' \in [Request -> Sub \cup {None}]
    BY <1>1, <2>2, Types DEF State
  <2>4. \A t \in Sub : r \notin Woken(t)
    BY <1>1, <2>2 DEF Waiters
  <2>5. /\ \A q \in Request : state'[q] = "waiting" => state[q] = "waiting"
        /\ \A t \in Sub : \A q \in Woken(t) : state'[q] = "waiting" /\ name'[q] = name[q]
    BY <1>1, <2>2, <2>4, Types DEF Waiters
  <2> QED
    BY <2>1, <2>2, <2>3, <2>5, NewHolderStep
<1>3. CASE Wait(r, n)
  BY <1>3, WaitStep
<1>4. CASE Hit(r, n) \/ Check(r, n)
  <2>1. dict[n] # <<>> /\ UNCHANGED <<dict, kind, waiting, nested, torn>> /\ error' = error
    BY <1>4 DEF Hit, Check, Finds, subs
  <2>2. Head(dict[n]) \in Sub /\ error' \in [Sub -> Error]
    BY <1>1, <2>1, HeadOf, Types
  <2>3. Become(r, "using", Head(dict[n])) \/ Become(r, "calling", None)
    BY <1>4 DEF Hit, Check
  <2>4. kind[Head(dict[n])] = "conf"
    BY <1>4 DEF Hit, Check, Finds
  <2>5. ASSUME NEW t \in Sub, r \in Woken(t) PROVE FALSE
    <3>1. dict[n] = <<t>> /\ kind[t] = "holder"
      BY <1>1, <2>5 DEF Waiters
    <3> QED
      BY <2>4, <3>1
  <2> QED
    BY <1>1, <2>1, <2>2, <2>3, <2>5, BecomeStep DEF State
<1> QED
  BY <1>2, <1>3, <1>4

LEMMA ResumesStep ==
  ASSUME DynamicInv, NEW r \in Request,
         \/ ResumeRefused(r) \/ ResumeHolds(r)
         \/ ReturnsError(r) \/ ReturnsNothingNew(r) \/ Returns404(r) \/ ReturnsConf(r)
  PROVE  DynamicInv'
<1>1. TypeOK /\ name[r] \in Name /\ error \in [Sub -> Error]
  BY Types DEF DynamicInv
<1>2. state[r] = "calling" /\ Waiters /\ \A s \in Sub : r \notin Woken(s)
  <2>1. state[r] = "calling"
    BY DEF ResumeRefused, ResumeHolds, ReturnsError, ReturnsNothingNew, Returns404, ReturnsConf, Resumes
  <2> QED
    BY <2>1 DEF DynamicInv, Waiters
<1>3. CASE ResumeRefused(r)
  <2>1. /\ Become(r, "none", None) /\ UNCHANGED <<dict, kind, waiting, nested, torn>>
        /\ error' = error /\ name' = name
    BY <1>3 DEF ResumeRefused, subs
  <2> QED
    BY <1>1, <1>2, <2>1, BecomeStep DEF State
<1>4. CASE ResumeHolds(r)
  <2>1. PICK s \in Sub : NewHolder(name[r], s)
    BY <1>4 DEF ResumeHolds
  <2>2. UNCHANGED <<state, name, using>> /\ dict[name[r]] = <<>> /\ ~Full
    BY <1>4 DEF ResumeHolds
  <2>3. /\ state' \in [Request -> State] /\ name' \in [Request -> Name]
        /\ using' \in [Request -> Sub \cup {None}]
    BY <1>1, <2>2, Types
  <2>4. /\ \A q \in Request : state'[q] = "waiting" => state[q] = "waiting"
        /\ \A t \in Sub : \A q \in Woken(t) : state'[q] = "waiting" /\ name'[q] = name[q]
    BY <1>2, <2>2 DEF Waiters
  <2> QED
    BY <1>1, <2>1, <2>2, <2>3, <2>4, NewHolderStep
<1>5. CASE ReturnsError(r)
  <2>1. /\ Become(r, "none", None) /\ UNCHANGED <<dict, kind, waiting, nested, torn>>
        /\ error' = error /\ name' = name
    BY <1>5 DEF ReturnsError, Resumes, subs
  <2> QED
    BY <1>1, <1>2, <2>1, BecomeStep DEF State
<1>6. CASE ReturnsNothingNew(r)
  <2>1. PICK s \in Sub :
          /\ Resumes(r, s)
          /\ IF kind[s] = "conf" THEN Become(r, "using", s) ELSE Become(r, "none", None)
    BY <1>6 DEF ReturnsNothingNew
  <2>2. UNCHANGED <<dict, kind, waiting, nested, torn>> /\ error' = error /\ name' = name
    BY <1>6, <2>1 DEF ReturnsNothingNew, Resumes, subs
  <2>3. Become(r, "using", s) \/ Become(r, "none", None)
    BY <2>1
  <2> QED
    BY <1>1, <1>2, <2>2, <2>3, BecomeStep DEF State
<1>7. CASE Returns404(r)
  <2>1. /\ Become(r, "none", None) /\ UNCHANGED <<dict, kind, waiting, nested, torn>> /\ name' = name
        /\ \E s \in Sub : error' = [error EXCEPT ![s] = "404"]
    BY <1>7 DEF Returns404, Resumes
  <2>2. error' \in [Sub -> Error]
    BY <1>1, <2>1 DEF Error
  <2> QED
    BY <1>1, <1>2, <2>1, <2>2, BecomeStep DEF State
<1>8. CASE ReturnsConf(r)
  <2>1. PICK new \in Unused : dict[name[r]] # <<>> /\ Delete(name[r], 1, new, {r})
    BY <1>8 DEF ReturnsConf, Resumes
  <2>2. 1 \in DOMAIN dict[name[r]]
    BY <1>1, <2>1, HeadOf
  <2> QED
    BY <1>1, <1>2, <2>1, <2>2, DeleteStep
<1> QED
  BY <1>3, <1>4, <1>5, <1>6, <1>7, <1>8

LEMMA NextDynamic == DynamicInv /\ [Next]_vars => DynamicInv'
<1> SUFFICES ASSUME DynamicInv, [Next]_vars PROVE DynamicInv'
  OBVIOUS
<1>1. TypeOK /\ Stored /\ \A t \in Sub : \A q \in Woken(t) : state[q] = "waiting"
  BY DEF DynamicInv, Waiters
<1>2. ASSUME NEW r \in Request, Get(r) PROVE DynamicInv'
  BY <1>2, ComesStep, ResumesStep DEF Get
<1>3. ASSUME NEW r \in Request, Ends(r) PROVE DynamicInv'
  BY <1>3, EndsStep
<1>4. ASSUME NEW s \in Sub, Timeout(s) PROVE DynamicInv'
  <2>1. PICK n \in Name : \E i \in DOMAIN dict[n] : Delete(n, i, None, {})
    BY <1>4 DEF Timeout
  <2> QED
    BY <2>1, DeleteStep
<1>5. ASSUME NEW s \in Sub, Nests(s) PROVE DynamicInv'
  <2>1. /\ UNCHANGED <<dict, kind, waiting, torn, error, state, name, using>> /\ kind[s] = "conf"
        /\ nested' = IF s \in nested THEN nested \ {s} ELSE nested \cup {s}
    BY <1>5 DEF Nests
  <2>2. nested' \in SUBSET Sub /\ \A t \in nested' : kind[t] = "conf"
    BY <1>1, <1>5, <2>1, Types DEF Stored
  <2> QED
    BY <1>1, <2>1, <2>2, SameStep, Types
<1>6. CASE UNCHANGED vars
  <2>1. UNCHANGED <<dict, kind, waiting, torn, error, nested, state, name, using>>
    BY <1>6 DEF vars, subs
  <2>2. \A s \in nested' : kind[s] = "conf"
    BY <1>1, <2>1 DEF Stored
  <2> QED
    BY <1>1, <2>1, <2>2, SameStep, Types
<1> QED
  BY <1>2, <1>3, <1>4, <1>5, <1>6 DEF Next

LEMMA DynamicInvariant == Spec => []DynamicInv
  BY InitDynamic, NextDynamic, PTL DEF Spec

(***************************************************************************)
(* What the invariant gives                                                *)
(***************************************************************************)
LEMMA InvHolders == DynamicInv => Holders
<1> SUFFICES ASSUME DynamicInv PROVE Holders
  OBVIOUS
<1>1. TypeOK /\ Stored /\ Waiters /\ NamesLimited
  BY DEF DynamicInv
<1>2. Dictionary
  <2>1. \A n \in Name : \A s : s \in Entries(n) <=> \E i \in DOMAIN dict[n] : dict[n][i] = s
    BY DEF Entries, Range
  <2>2. \A s \in Sub : kind[s] # "none" <=>
            \E n \in Name : \E i \in DOMAIN dict[n] : dict[n][i] = s
    BY <1>1, <2>1 DEF Stored
  <2>3. ASSUME NEW n \in Name, NEW m \in Name, NEW i \in DOMAIN dict[n], NEW j \in DOMAIN dict[m],
               dict[n][i] = dict[m][j]
        PROVE  n = m /\ i = j
    <3>1. n = m
      BY <1>1, <2>1, <2>3 DEF Stored
    <3> QED
      BY <1>1, <2>3, <3>1 DEF Stored, IsInjective
  <2>4. ASSUME NEW n \in Name, NEW i \in DOMAIN dict[n], kind[dict[n][i]] = "holder"
        PROVE  Len(dict[n]) = 1
    <3>1. dict[n] = <<dict[n][i]>>
      BY <1>1, <2>1, <2>4 DEF Stored
    <3> QED
      BY <3>1
  <2> QED
    BY <2>2, <2>3, <2>4 DEF Dictionary
<1>3. ~torn => WaitersHeld
  <2> SUFFICES ASSUME ~torn, NEW r \in Request
               PROVE  LET lists == {s \in Sub : r \in Woken(s)}
                      IN  IF state[r] = "waiting"
                          THEN /\ \E s \in Sub : lists = {s} /\ kind[s] = "holder"
                                                /\ dict[name[r]] = <<s>>
                               /\ \A s \in lists : \A i, j \in DOMAIN waiting[s] :
                                     waiting[s][i] = r /\ waiting[s][j] = r => i = j
                          ELSE lists = {}
    BY DEF WaitersHeld
  <2> DEFINE lists == {s \in Sub : r \in Woken(s)}
  <2>1. ASSUME state[r] = "waiting"
        PROVE  \E s \in Sub : lists = {s} /\ kind[s] = "holder" /\ dict[name[r]] = <<s>>
    <3>1. PICK s \in Sub : r \in Woken(s)
      BY <1>1, <2>1 DEF Waiters
    <3>2. lists = {s}
      BY <1>1, <3>1, OneHolder
    <3> QED
      BY <1>1, <3>1, <3>2 DEF Waiters
  <2>2. \A s \in lists : \A i, j \in DOMAIN waiting[s] :
           waiting[s][i] = r /\ waiting[s][j] = r => i = j
    BY <1>1 DEF Waiters, IsInjective
  <2>3. state[r] # "waiting" => lists = {}
    BY <1>1 DEF Waiters
  <2> QED
    BY <2>1, <2>2, <2>3
<1> QED
  BY <1>1, <1>2, <1>3 DEF Holders

(* Only phl_dynamic_delete() changes the list of a name that has one.      *)
LEMMA DeleteServes ==
  ASSUME DynamicInv, NEW n \in Name, NEW i \in DOMAIN dict[n], NEW new \in Unused \cup {None},
         new # None => i = 1, NEW R \in SUBSET Request, Delete(n, i, new, R),
         ~torn,
         NEW m \in Name, dict[m] # <<>>, dict'[m] # <<>>, Head(dict'[m]) # Head(dict[m]),
         NEW r \in Woken(Head(dict[m]))
  PROVE  using'[r] = Head(dict'[m])
<1>1. TypeOK /\ Stored /\ Waiters
  BY DEF DynamicInv
<1>2. PICK s : s = dict[n][i]
  OBVIOUS
<1>3. PICK list : list = After(n, i, new)
  OBVIOUS
<1>4. /\ dict' = [dict EXCEPT ![n] = list]
      /\ using' = [q \in Request |-> IF q \in Woken(s) \cup R THEN new ELSE using[q]]
  BY <1>2, <1>3 DEF Delete, Serve, After
<1>5. /\ s \in Entries(n) /\ s \in Sub
      /\ list \in Seq(Sub)
      /\ Range(list) = ((IF s \in nested THEN Entries(n) ELSE Entries(n) \ {s})
                         \cup IF new = None THEN {} ELSE {new})
      /\ new # None => list # <<>> /\ Head(list) = new
  BY <1>1, <1>2, <1>3, DeleteList
<1>6. m = n /\ dict'[m] = list
  BY <1>1, <1>4, Types
<1>7. Head(dict[n]) = dict[n][1] /\ dict[n][1] \in Sub /\ dict[n][1] \in Entries(n)
  BY <1>1, <1>6, HeadOf
<1>8. r \in Woken(dict[n][1]) /\ r \in Request
  BY <1>1, <1>6, <1>7, Types
<1>9. CASE new # None
  BY <1>2, <1>4, <1>5, <1>6, <1>8, <1>9
<1>10. CASE new = None
  <2>1. PICK h \in Sub : h = dict[n][1] /\ kind[h] = "holder" /\ dict[n] = <<h>>
    BY <1>1, <1>7, <1>8 DEF Waiters, Stored
  <2>2. s = h /\ Entries(n) = {h} /\ s \notin nested
    BY <1>1, <1>5, <2>1 DEF Stored, Entries, Range
  <2>3. Range(list) = {}
    BY <1>5, <1>10, <2>2
  <2>4. list[1] \in Range(list)
    BY <1>5, <1>6 DEF Range
  <2> QED
    BY <2>3, <2>4
<1> QED
  BY <1>9, <1>10

LEMMA NextServes ==
  ASSUME DynamicInv, Next, ~torn, NEW n \in Name, dict[n] # <<>>, dict'[n] # <<>>,
         Head(dict'[n]) # Head(dict[n]), NEW r \in Woken(Head(dict[n]))
  PROVE  using'[r] = Head(dict'[n])
<1>1. TypeOK
  BY DEF DynamicInv
<1>2. dict'[n] # dict[n]
  OBVIOUS
<1>3. ASSUME NEW q \in Request, NEW m \in Name, Miss(q, m) PROVE FALSE
  <2>1. PICK s \in Sub : dict' = [dict EXCEPT ![m] = <<s>>]
    BY <1>3 DEF Miss, NewHolder
  <2> QED
    BY <1>1, <1>2, <1>3, <2>1, Types DEF Miss
<1>4. ASSUME NEW q \in Request, ResumeHolds(q) PROVE FALSE
  <2>1. PICK s \in Sub : dict' = [dict EXCEPT ![name[q]] = <<s>>]
    BY <1>4 DEF ResumeHolds, NewHolder
  <2> QED
    BY <1>1, <1>2, <1>4, <2>1, Types DEF ResumeHolds
<1>5. ASSUME NEW q \in Request, ReturnsConf(q) PROVE using'[r] = Head(dict'[n])
  <2>1. PICK new \in Unused : dict[name[q]] # <<>> /\ Delete(name[q], 1, new, {q})
    BY <1>5 DEF ReturnsConf, Resumes
  <2>2. name[q] \in Name /\ 1 \in DOMAIN dict[name[q]]
    BY <1>1, <2>1, HeadOf, Types
  <2> QED
    BY <1>2, <2>1, <2>2, DeleteServes
<1>6. ASSUME NEW s \in Sub, Timeout(s) PROVE using'[r] = Head(dict'[n])
  <2>1. PICK m \in Name : \E i \in DOMAIN dict[m] : Delete(m, i, None, {})
    BY <1>6 DEF Timeout
  <2>2. PICK i \in DOMAIN dict[m] : Delete(m, i, None, {})
    BY <2>1
  <2>3. None \in Unused \cup {None} /\ {} \in SUBSET Request
    OBVIOUS
  <2> QED
    BY <2>2, <2>3, DeleteServes
<1>7. ASSUME NEW q \in Request, NEW m \in Name, Wait(q, m) \/ Hit(q, m) \/ Check(q, m) PROVE FALSE
  BY <1>2, <1>7 DEF Wait, Hit, Check, Finds, subs
<1>8. ASSUME NEW q \in Request,
             ResumeRefused(q) \/ ReturnsError(q) \/ ReturnsNothingNew(q) \/ Returns404(q) \/ Ends(q)
      PROVE  FALSE
  BY <1>2, <1>8 DEF ResumeRefused, ReturnsError, ReturnsNothingNew, Returns404, Ends, subs
<1>9. ASSUME NEW s \in Sub, Nests(s) PROVE FALSE
  BY <1>2, <1>9 DEF Nests
<1> QED
  BY <1>3, <1>4, <1>5, <1>6, <1>7, <1>8, <1>9 DEF Next, Get

(***************************************************************************)
(* The theorems                                                            *)
(***************************************************************************)
(* As long as no request that waits is run by its client, and no           *)
(* subrequest waits: a request that waits is in the list of one holder,    *)
(* once, which is what its name leads to; the dictionary holds what is     *)
(* allocated, each once, and a holder never beside a configuration; no     *)
(* more than `sub_max` names have something.  (phl_dynamic_get(),          *)
(* phl_dynamic_delete(), phl_dynamic_timeout_handler())                    *)
THEOREM HoldersHold == Spec => []Holders
  BY DynamicInvariant, InvHolders, PTL

(* When phl_dynamic_delete() is called with a configuration in the place   *)
(* of a holder, all that waited for the holder use the configuration, if   *)
(* their list is not torn.                                                 *)
THEOREM WaitersAreServed == Spec => WaitersServed
<1>1. DynamicInv /\ [Next]_vars =>
        [\A n \in Name :
            ~torn /\ dict[n] # <<>> /\ dict'[n] # <<>> /\ Head(dict'[n]) # Head(dict[n])
              => \A r \in Woken(Head(dict[n])) : using'[r] = Head(dict'[n])]_vars
  BY NextServes
<1> QED
  BY <1>1, DynamicInvariant, PTL DEF Spec, WaitersServed
===============================================================================
