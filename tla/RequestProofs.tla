---------------------------- MODULE RequestProofs ----------------------------
(***************************************************************************)
(* Proofs about Request, for any number of subrequests.                    *)
(*                                                                         *)
(* AuthGate: a request is run by its father, its subrequests, the client   *)
(* and timers.  That none of them gets it past auth_request follows from   *)
(* what each request knows itself; lists and calls do not matter.          *)
(*                                                                         *)
(* Tree: from the lists of subrequests (each in one list, no list below    *)
(* itself), what auth_request and threads keep of them, and what the calls *)
(* that wait for others still refer to.                                    *)
(*                                                                         *)
(* NotForgotten: from Tree's invariant, and where the innermost call is    *)
(* when what somebody waits for has not been started or has finished.      *)
(***************************************************************************)
EXTENDS Request, TLAPS

GateTypes ==
    /\ state \in [Request -> Nat]
    /\ broken \in [Request -> BOOLEAN]
    /\ guarded \in [Request -> BOOLEAN]
    /\ passed \in [Request -> BOOLEAN]
    /\ answer \in [Request -> Status]

(* The position in the filter chain is what keeps a request, and it moves  *)
(* only for a 200.                                                         *)
GateOf(r) ==
    /\ passed[r] => answer[r] = "200"
    /\ guarded[r] /\ ~broken[r] /\ state[r] > ProcessHeaders => passed[r]

GateInv == GateTypes /\ \A r \in Request : GateOf(r)

gate == <<state, broken, guarded, passed, answer>>

LEMMA GateInvImpliesAuthGate == GateInv => AuthGate
  BY DEF GateInv, GateTypes, GateOf, AuthGate, Living

LEMMA GateInit == Init => GateInv
  BY DEF Init, GateInv, GateTypes, GateOf, Status, ReceiveHeaders, ProcessHeaders

LEMMA GateUnchanged == GateInv /\ UNCHANGED gate => GateInv'
  BY DEF gate, GateInv, GateTypes, GateOf

LEMMA DieKeeps == Die => UNCHANGED gate
  BY DEF Die, auth, gate

-----------------------------------------------------------------------------
(* The steps of a request that is not waiting for auth_request.            *)

LEMMA AdvanceStep ==
    ASSUME GateInv, NEW r \in Request, Advance(r),
           UNCHANGED <<broken, guarded, passed, answer>>,
           state[r] = ProcessHeaders => ~guarded[r] \/ passed[r]
    PROVE  GateInv'
  <1>1. state' = [state EXCEPT ![r] = @ + 1]
    BY DEF Advance
  <1>2. GateTypes'
    BY <1>1 DEF GateInv, GateTypes
  <1>3. ASSUME NEW q \in Request PROVE GateOf(q)'
    BY <1>1, <1>3 DEF GateInv, GateTypes, GateOf, ProcessHeaders
  <1> QED BY <1>2, <1>3 DEF GateInv

LEMMA BreakStep ==
    ASSUME GateInv, NEW r \in Request, Break(r), UNCHANGED <<guarded, passed, answer>>
    PROVE  GateInv'
  <1>1. /\ broken' = [broken EXCEPT ![r] = TRUE]
        /\ state' = [state EXCEPT ![r] = 6]
    BY DEF Break, ResponseHeaders1
  <1>2. GateTypes'
    BY <1>1 DEF GateInv, GateTypes
  <1>3. ASSUME NEW q \in Request PROVE GateOf(q)'
    BY <1>1, <1>3 DEF GateInv, GateTypes, GateOf
  <1> QED BY <1>2, <1>3 DEF GateInv

LEMMA FreshStep ==
    ASSUME GateInv, NEW s, NEW r, NEW f, Fresh(s, r, f)
    PROVE  GateInv'
  <1>1. /\ s \in Request
        /\ state' = [state EXCEPT ![s] = 1]
        /\ broken' = [broken EXCEPT ![s] = FALSE]
        /\ guarded' = [guarded EXCEPT ![s] = FALSE]
        /\ passed' = [passed EXCEPT ![s] = FALSE]
        /\ answer' = [answer EXCEPT ![s] = "none"]
    BY DEF Fresh, LocateConfHost, Request
  <1>2. GateTypes'
    BY <1>1 DEF GateInv, GateTypes, Status
  <1>3. ASSUME NEW q \in Request PROVE GateOf(q)'
    BY <1>1, <1>3 DEF GateInv, GateTypes, GateOf
  <1> QED BY <1>2, <1>3 DEF GateInv

LEMMA LocatesPathStep ==
    ASSUME GateInv, NEW r \in Request, LocatesPath(r)
    PROVE  GateInv'
  <1>1. PICK g \in BOOLEAN : guarded' = [guarded EXCEPT ![r] = g]
    BY DEF LocatesPath
  <1>2. /\ state[r] = 2
        /\ state' = [state EXCEPT ![r] = @ + 1]
        /\ UNCHANGED <<broken, passed, answer>>
    BY DEF LocatesPath, At, Advance, LocateConfPath
  <1>3. GateTypes'
    BY <1>1, <1>2 DEF GateInv, GateTypes
  <1>4. ASSUME NEW q \in Request PROVE GateOf(q)'
    BY <1>1, <1>2, <1>4 DEF GateInv, GateTypes, GateOf, ProcessHeaders
  <1> QED BY <1>3, <1>4 DEF GateInv

(* The only step that moves the filter chain beyond auth_request.          *)
LEMMA GrantsStep ==
    ASSUME GateInv, NEW r \in Request, Grants(r)
    PROVE  GateInv'
  <1>1. CASE KillsWaiting(ctx[r])
    BY <1>1, DieKeeps, GateUnchanged DEF Grants, GrantsWith, Close
  <1>2. CASE ~KillsWaiting(ctx[r])
    <2>1. /\ passed' = [passed EXCEPT ![r] = TRUE]
          /\ answer' = [answer EXCEPT ![r] = "200"]
          /\ UNCHANGED <<state, broken, guarded>>
      BY <1>2 DEF Grants, GrantsWith, Close
    <2>2. GateTypes'
      BY <2>1 DEF GateInv, GateTypes, Status
    <2>3. ASSUME NEW q \in Request PROVE GateOf(q)'
      BY <2>1, <2>3 DEF GateInv, GateTypes, GateOf
    <2> QED BY <2>2, <2>3 DEF GateInv
  <1> QED BY <1>1, <1>2

LEMMA ReceivesStep ==
    ASSUME GateInv, Receives
    PROVE  GateInv'
  <1>1. /\ Top \in Request
        /\ state' = [state EXCEPT ![Top] = 0]
        /\ broken' = [broken EXCEPT ![Top] = FALSE]
        /\ guarded' = [guarded EXCEPT ![Top] = FALSE]
        /\ passed' = [passed EXCEPT ![Top] = FALSE]
        /\ answer' = [answer EXCEPT ![Top] = "none"]
    BY DEF Receives, ReceiveHeaders, Request
  <1>2. GateTypes'
    BY <1>1 DEF GateInv, GateTypes, Status
  <1>3. ASSUME NEW q \in Request PROVE GateOf(q)'
    BY <1>1, <1>3 DEF GateInv, GateTypes, GateOf
  <1> QED BY <1>2, <1>3 DEF GateInv

LEMMA FreesStep ==
    ASSUME GateInv, Frees
    PROVE  GateInv'
  <1> DEFINE Gone(q) == life[q] = "released"
  <1>1. /\ state' = [q \in Request |-> IF Gone(q) THEN 0 ELSE state[q]]
        /\ broken' = [q \in Request |-> IF Gone(q) THEN FALSE ELSE broken[q]]
        /\ guarded' = [q \in Request |-> IF Gone(q) THEN FALSE ELSE guarded[q]]
        /\ passed' = [q \in Request |-> IF Gone(q) THEN FALSE ELSE passed[q]]
        /\ answer' = [q \in Request |-> IF Gone(q) THEN "none" ELSE answer[q]]
    BY DEF Frees, ReceiveHeaders
  <1> HIDE DEF Gone
  <1>2. GateTypes'
    BY <1>1 DEF GateInv, GateTypes, Status
  <1>3. ASSUME NEW q \in Request PROVE GateOf(q)'
    BY <1>1, <1>3 DEF GateInv, GateTypes, GateOf, ProcessHeaders
  <1> QED BY <1>2, <1>3 DEF GateInv

-----------------------------------------------------------------------------
(* The steps of other components of a request, or of its connection, leave *)
(* all this alone.                                                         *)
LEMMA OtherStep ==
    ASSUME NEW r \in Request,
           \/ Waits(r) \/ WaitsLinked(r) \/ Redirects(r) \/ AsksWithoutMemory(r)
           \/ NotYet(r) \/ Resumes(r)
           \/ WaitsForBody(r) \/ FlushesBody(r) \/ Flushed(r) \/ Finishes(r) \/ Returns(r)
           \/ (\E s \in Sub \cup {None} : PostStarts(r, s) \/ PostEnds(r, s))
           \/ Event(r) \/ SendBlocks \/ SendFails \/ FinishesTop \/ ClientGoes
           \/ (\E s \in Sub : Flushes(s)) \/ UNCHANGED vars
    PROVE  UNCHANGED gate
  <1>1. CASE Waits(r) \/ NotYet(r) \/ WaitsForBody(r) \/ FlushesBody(r) \/ Returns(r)
    BY <1>1 DEF Waits, NotYet, WaitsForBody, FlushesBody, Returns, Block, Call, auth, gate
  <1>2. CASE WaitsLinked(r) \/ Redirects(r) \/ AsksWithoutMemory(r)
    BY <1>2, DieKeeps DEF WaitsLinked, Redirects, AsksWithoutMemory
  <1>3. CASE Resumes(r)
    BY <1>3, DieKeeps DEF Resumes, Close, auth, gate
  <1>4. CASE Flushed(r)
    BY <1>4, DieKeeps DEF Flushed, auth, gate
  <1>5. CASE Finishes(r)
    BY <1>5, DieKeeps DEF Finishes, Close, auth, gate
  <1>6. CASE \E s \in Sub \cup {None} : PostStarts(r, s) \/ PostEnds(r, s)
    BY <1>6, DieKeeps DEF PostStarts, PostEnds, auth, gate
  <1>7. CASE Event(r) \/ SendBlocks \/ \E s \in Sub : Flushes(s)
    BY <1>7 DEF Event, SendBlocks, Flushes, auth, gate
  <1>8. CASE SendFails \/ FinishesTop \/ ClientGoes
    BY <1>8, DieKeeps DEF SendFails, FinishesTop, ClientGoes, Close, auth, gate
  <1>9. CASE UNCHANGED vars
    BY <1>9 DEF vars, gate
  <1> QED BY <1>1, <1>2, <1>3, <1>4, <1>5, <1>6, <1>7, <1>8, <1>9

LEMMA GateStep == GateInv /\ [Next]_vars => GateInv'
  <1> SUFFICES ASSUME GateInv, [Next]_vars PROVE GateInv'
    OBVIOUS
  <1>1. ASSUME NEW r \in Request, Step(r) PROVE GateInv'
    <2>1. CASE Proceeds(r)
      <3>1. state[r] = ProcessHeaders => ~guarded[r] \/ passed[r]
        BY <2>1 DEF Proceeds, HasOtherHandlers, At
      <3> QED BY <2>1, <3>1, AdvanceStep DEF Proceeds, auth
    <2>2. CASE Generates(r) \/ AnswersError(r) \/ SendsHeaders(r) \/ EndsBody(r)
      <3>1. state[r] # ProcessHeaders
        BY <2>2 DEF Generates, AnswersError, SendsHeaders, EndsBody, HasOtherHandlers, At,
                    ProcessHeaders, ResponseHeaders1, ResponseHeaders3, ResponseBody
      <3>2. Advance(r) /\ UNCHANGED <<broken, guarded, passed, answer>>
        BY <2>2 DEF Generates, AnswersError, SendsHeaders, EndsBody, auth
      <3> QED BY <3>1, <3>2, AdvanceStep
    <2>3. CASE Fails(r) \/ FailsLate(r) \/ Refuses(r)
      <3>1. Break(r) /\ UNCHANGED <<guarded, passed, answer>>
        BY <2>3 DEF Fails, FailsLate, Refuses, BreakWith, auth
      <3> QED BY <3>1, BreakStep
    <2>4. CASE Asks(r) \/ Subrequests(r) \/ Detaches(r)
      BY <2>4, FreshStep DEF Asks, Subrequests, Detaches
    <2>5. CASE LocatesPath(r)
      BY <2>5, LocatesPathStep
    <2>6. CASE Grants(r)
      BY <2>6, GrantsStep
    <2>7. CASE \/ Waits(r) \/ WaitsLinked(r) \/ Redirects(r) \/ AsksWithoutMemory(r)
               \/ NotYet(r) \/ Resumes(r)
               \/ WaitsForBody(r) \/ FlushesBody(r) \/ Flushed(r) \/ Finishes(r) \/ Returns(r)
               \/ (\E s \in Sub \cup {None} : PostStarts(r, s) \/ PostEnds(r, s))
      BY <2>7, OtherStep, GateUnchanged
    <2> QED BY <1>1, <2>1, <2>2, <2>3, <2>4, <2>5, <2>6, <2>7 DEF Step
  <1>2. CASE Receives
    BY <1>2, ReceivesStep
  <1>3. CASE Frees
    BY <1>3, FreesStep
  <1>4. CASE \/ (\E r \in Request : Event(r)) \/ SendBlocks \/ SendFails \/ FinishesTop
             \/ ClientGoes \/ (\E s \in Sub : Flushes(s)) \/ UNCHANGED vars
    <2>1. Top \in Request
      BY DEF Request
    <2> QED BY <1>4, <2>1, OtherStep, GateUnchanged
  <1> QED BY <1>1, <1>2, <1>3, <1>4 DEF Next

(* However a request is run, and whatever its subrequests do meanwhile, it *)
(* gets beyond auth_request only by a 200 (phl_auth_request.c:28), as long *)
(* as the worker's memory is sound.                                        *)
THEOREM AuthGateHolds == Spec => []AuthGate
  <1>1. Spec => []GateInv
    BY GateInit, GateStep, PTL DEF Spec
  <1> QED BY <1>1, GateInvImpliesAuthGate, PTL

-----------------------------------------------------------------------------
(***************************************************************************)
(* The inductive invariant of Tree.                                        *)
(***************************************************************************)
Has(list, s) == \E i \in DOMAIN list : list[i] = s
In(l, s, r) == Has(l[r], s)

(* Each living subrequest is in one list, once, and nothing else is.       *)
Lists ==
    /\ \A r \in Request : \A i, j \in DOMAIN subrs[r] : subrs[r][i] = subrs[r][j] => i = j
    /\ \A r \in Request : \A s \in Sub : In(subrs, s, r) => r \in Living /\ s \in Living
    /\ \A r, q \in Request : \A s \in Sub : In(subrs, s, r) /\ In(subrs, s, q) => r = q
    /\ \A s \in Living \ {Top} :
           \E r \in Request : In(subrs, s, r) /\ father[s] \in {r, Detached}
    /\ father[Top] = None

(* What a request has in its list, it is not itself below: to release one  *)
(* of its subrequests does not release the request that does it.           *)
Below == \A r \in Request : \A s \in Sub : In(subrs, s, r) => r \notin Family(s)

(* What auth_request and a thread wait for is in their request's list, so  *)
(* that nobody else closes it while the request lives.                     *)
Awaited ==
    /\ \A r \in Request : life[r] = "none" => ctx[r] = None
    /\ \A r \in Request : r \notin Living => thread[r] = None
    /\ \A r \in Living : \A s \in Sub :
           s = ctx[r] \/ s = thread[r] => In(subrs, s, r) /\ father[s] = r
    /\ \A r \in Living : ctx[r] # None => ctx[r] # thread[r]

(* A call that waits for another is not about to do a step, and the next   *)
(* one of a list is in that list as long as it lives.                      *)
InFrame(f) ==
    f.at = "post" /\ f.subr # None =>
        /\ f.subr \in Sub
        /\ life[f.subr] # "none"
        /\ f.subr \in Living => In(subrs, f.subr, f.who)

Calls ==
    /\ \A i \in 2 .. Len(stack) : stack[i].at # "run"
    /\ \A i \in 1 .. Len(stack) : InFrame(stack[i])

(* Connections to be flushed are those of subrequests that are not         *)
(* detached.                                                               *)
Deferred == \A s \in unsent : s \in Living /\ father[s] \in Request

Held == Lists /\ Below /\ Awaited

CallsOf ==
    /\ stack \in Seq(Frame)
    /\ Calls
    /\ stack # <<>> /\ Head(stack).at = "run" => Head(stack).who \in Living \cup {Top}

TreeInv == TypeOK /\ Held /\ CallsOf /\ Deferred

-----------------------------------------------------------------------------
(***************************************************************************)
(* Lists of subrequests, and the families below.                           *)
(***************************************************************************)
LEMMA Types ==
  ASSUME TypeOK
  PROVE  /\ life \in [Request -> {"none", "open", "finished", "released"}]
         /\ father \in [Request -> Request \cup {None, Detached}]
         /\ subrs \in [Request -> Seq(Sub)]
         /\ ctx \in [Request -> Sub \cup {None}] /\ thread \in [Request -> Sub \cup {None}]
         /\ unsent \in SUBSET Sub /\ stack \in Seq(Frame)
  BY DEF TypeOK

(* Family, of the lists l.                                                 *)
Under(l, r) ==
    {x \in Request : \A S \in SUBSET Request :
        r \in S /\ (\A y \in S : \A i \in DOMAIN l[y] : l[y][i] \in S) => x \in S}

LEMMA FamilyIs == \A r : Family(r) = Under(subrs, r)
  BY DEF Family, Under

LEMMA UnderLeast ==
  ASSUME NEW l \in [Request -> Seq(Sub)], NEW S \in SUBSET Request, NEW r \in S,
         \A y \in S : \A s \in Sub : In(l, s, y) => s \in S
  PROVE  Under(l, r) \subseteq S
  <1>1. \A y \in S : \A i \in DOMAIN l[y] : l[y][i] \in Sub /\ In(l, l[y][i], y)
    BY DEF In, Has
  <1>2. \A y \in S : \A i \in DOMAIN l[y] : l[y][i] \in S
    BY <1>1
  <1> QED
    BY <1>2 DEF Under

LEMMA UnderIs ==
  ASSUME NEW l \in [Request -> Seq(Sub)], NEW r \in Request
  PROVE  /\ Under(l, r) \subseteq Request /\ r \in Under(l, r)
         /\ \A y \in Under(l, r) : \A s \in Sub : In(l, s, y) => s \in Under(l, r)
  <1>1. Under(l, r) \subseteq Request /\ r \in Under(l, r)
    BY DEF Under
  <1>2. ASSUME NEW y \in Under(l, r), NEW s \in Sub, In(l, s, y)
        PROVE  s \in Under(l, r)
    <2>1. PICK i \in DOMAIN l[y] : l[y][i] = s
      BY <1>2 DEF In, Has
    <2>2. s \in Request /\ y \in Request
      BY DEF Request, Under
    <2>3. ASSUME NEW S \in SUBSET Request, r \in S,
                 \A z \in S : \A k \in DOMAIN l[z] : l[z][k] \in S
          PROVE  s \in S
      <3>1. y \in S
        BY <2>3 DEF Under
      <3> QED
        BY <2>1, <2>3, <3>1
    <2> QED
      BY <2>2, <2>3 DEF Under
  <1> QED
    BY <1>1, <1>2

(* Who is in it but its head, is in the list of another one in it.         *)
LEMMA UnderFrom ==
  ASSUME NEW l \in [Request -> Seq(Sub)], NEW r \in Request, NEW s \in Under(l, r), s # r
  PROVE  \E y \in Under(l, r) : In(l, s, y)
  <1> SUFFICES ASSUME \A y \in Under(l, r) : ~In(l, s, y) PROVE FALSE
    OBVIOUS
  <1> DEFINE S == Under(l, r) \ {s}
  <1>1. S \in SUBSET Request /\ r \in S
    BY UnderIs
  <1>2. \A y \in S : \A t \in Sub : In(l, t, y) => t \in S
    BY UnderIs
  <1>3. Under(l, r) \subseteq S
    BY <1>1, <1>2, UnderLeast
  <1> QED
    BY <1>3

(* Lists that lost something.                                              *)
LEMMA UnderLess ==
  ASSUME NEW l \in [Request -> Seq(Sub)], NEW m \in [Request -> Seq(Sub)], NEW r \in Request,
         \A y \in Request : \A s \in Sub : In(m, s, y) => In(l, s, y)
  PROVE  Under(m, r) \subseteq Under(l, r)
  <1>1. \A y \in Under(l, r) : \A s \in Sub : In(m, s, y) => s \in Under(l, r)
    BY UnderIs
  <1>2. Under(l, r) \in SUBSET Request /\ r \in Under(l, r)
    BY UnderIs
  <1> QED
    BY <1>1, <1>2, UnderLeast

Distinct(list) == \A i, j \in DOMAIN list : list[i] = list[j] => i = j

LEMMA WithoutIs ==
  ASSUME NEW list \in Seq(Sub), Distinct(list), NEW s,
         NEW w, w = Without(list, s)
  PROVE  /\ w \in Seq(Sub) /\ Distinct(w)
         /\ \A t : Has(w, t) <=> t # s /\ Has(list, t)
  <1>1. CASE \A j \in DOMAIN list : list[j] # s
    BY <1>1 DEF Without, Has
  <1>2. CASE ~\A j \in DOMAIN list : list[j] # s
    <2>1. PICK i \in DOMAIN list : i = Place(list, s) /\ list[i] = s
      BY <1>2 DEF Place
    <2>2. Len(list) \in Nat /\ DOMAIN list = 1 .. Len(list) /\ i \in 1 .. Len(list)
      BY <2>1
    <2>3. w = [j \in 1 .. Len(list) - 1 |-> IF j < i THEN list[j] ELSE list[j + 1]]
      BY <1>2, <2>1 DEF Without
    <2>4. \A j \in 1 .. Len(list) : list[j] \in Sub
      BY <2>2
    <2>5. /\ w \in Seq(Sub) /\ DOMAIN w = 1 .. Len(list) - 1
          /\ \A j \in 1 .. Len(list) - 1 : w[j] = IF j < i THEN list[j] ELSE list[j + 1]
      BY <2>2, <2>3, <2>4
    <2>6. Distinct(w)
      <3> SUFFICES ASSUME NEW j \in DOMAIN w, NEW k \in DOMAIN w, w[j] = w[k]
                   PROVE  j = k
        BY DEF Distinct
      <3>1. PICK g \in DOMAIN list : w[j] = list[g] /\ g = IF j < i THEN j ELSE j + 1
        BY <2>2, <2>5
      <3>2. PICK h \in DOMAIN list : w[k] = list[h] /\ h = IF k < i THEN k ELSE k + 1
        BY <2>2, <2>5
      <3>3. g = h
        BY <3>1, <3>2 DEF Distinct
      <3> QED
        BY <2>2, <2>5, <3>1, <3>2, <3>3
    <2>7. ASSUME NEW j \in DOMAIN w PROVE w[j] # s /\ \E k \in DOMAIN list : list[k] = w[j]
      <3>1. CASE j < i
        BY <2>1, <2>2, <2>5, <3>1 DEF Distinct
      <3>2. CASE ~(j < i)
        <4>1. j + 1 \in DOMAIN list /\ w[j] = list[j + 1] /\ j + 1 # i
          BY <2>2, <2>5, <3>2
        <4> QED
          BY <2>1, <4>1 DEF Distinct
      <3> QED
        BY <3>1, <3>2
    <2>8. ASSUME NEW k \in DOMAIN list, list[k] # s PROVE \E j \in DOMAIN w : w[j] = list[k]
      <3>1. CASE k < i
        BY <2>2, <2>5, <3>1
      <3>2. CASE k > i
        <4>1. k - 1 \in DOMAIN w /\ w[k - 1] = list[k]
          BY <2>2, <2>5, <3>2
        <4> QED
          BY <4>1
      <3>3. k # i
        BY <2>1, <2>8
      <3> QED
        BY <2>2, <3>1, <3>2, <3>3
    <2>9. ASSUME NEW t PROVE Has(w, t) <=> t # s /\ Has(list, t)
      BY <2>7, <2>8 DEF Has
    <2> QED
      BY <2>5, <2>6, <2>9
  <1> QED
    BY <1>1, <1>2

LEMMA FrontIs ==
  ASSUME NEW list \in Seq(Sub), NEW s \in Sub, Distinct(list),
         ~Has(list, s)
  PROVE  /\ (<<s>> \o list) \in Seq(Sub) /\ Distinct(<<s>> \o list)
         /\ \A t : Has(<<s>> \o list, t) <=> t = s \/ Has(list, t)
  <1> DEFINE w == <<s>> \o list
  <1>1. /\ Len(list) \in Nat /\ DOMAIN list = 1 .. Len(list)
        /\ w \in Seq(Sub) /\ DOMAIN w = 1 .. Len(list) + 1 /\ w[1] = s
        /\ \A j \in 1 .. Len(list) : w[j + 1] = list[j]
        /\ \A j \in 2 .. Len(list) + 1 : w[j] = list[j - 1] /\ j - 1 \in DOMAIN list
    OBVIOUS
  <1> HIDE DEF w
  <1>2. Distinct(w)
    <2> SUFFICES ASSUME NEW j \in DOMAIN w, NEW k \in DOMAIN w, w[j] = w[k]
                 PROVE  j = k
      BY DEF Distinct
    <2>1. CASE j = 1 \/ k = 1
      <3>1. \A i \in DOMAIN list : list[i] # s
        BY DEF Has
      <3>2. \A i \in 2 .. Len(list) + 1 : w[i] # s
        BY <1>1, <3>1
      <3>3. w[j] = s /\ w[k] = s /\ j \in 1 .. Len(list) + 1 /\ k \in 1 .. Len(list) + 1
        BY <1>1, <2>1
      <3> QED
        BY <1>1, <3>2, <3>3
    <2>2. CASE j # 1 /\ k # 1
      <3>1. list[j - 1] = list[k - 1] /\ j - 1 \in DOMAIN list /\ k - 1 \in DOMAIN list
        BY <1>1, <2>2
      <3> QED
        BY <1>1, <3>1 DEF Distinct
    <2> QED
      BY <2>1, <2>2
  <1>3. ASSUME NEW j \in DOMAIN w PROVE w[j] = s \/ \E k \in DOMAIN list : list[k] = w[j]
    BY <1>1
  <1>4. ASSUME NEW k \in DOMAIN list PROVE \E j \in DOMAIN w : w[j] = list[k]
    <2>1. k + 1 \in DOMAIN w /\ w[k + 1] = list[k]
      BY <1>1
    <2> QED
      BY <2>1
  <1>5. \E j \in DOMAIN w : w[j] = s
    BY <1>1
  <1>6. ASSUME NEW t, \E j \in DOMAIN w : w[j] = t
        PROVE  t = s \/ \E k \in DOMAIN list : list[k] = t
    BY <1>3, <1>6
  <1>7. ASSUME NEW t, t = s \/ \E k \in DOMAIN list : list[k] = t
        PROVE  \E j \in DOMAIN w : w[j] = t
    BY <1>4, <1>5, <1>7
  <1> QED
    BY <1>1, <1>2, <1>6, <1>7 DEF Has, w

LEMMA EndIs ==
  ASSUME NEW list \in Seq(Sub), NEW s \in Sub, Distinct(list),
         ~Has(list, s)
  PROVE  /\ (Append(list, s)) \in Seq(Sub) /\ Distinct(Append(list, s))
         /\ \A t : Has(Append(list, s), t) <=> t = s \/ Has(list, t)
  <1> DEFINE w == Append(list, s)
  <1>1. /\ Len(list) \in Nat /\ DOMAIN list = 1 .. Len(list)
        /\ w \in Seq(Sub) /\ DOMAIN w = 1 .. Len(list) + 1 /\ w[Len(list) + 1] = s
        /\ \A j \in 1 .. Len(list) : w[j] = list[j]
    OBVIOUS
  <1> HIDE DEF w
  <1>2. Distinct(w)
    BY <1>1 DEF Distinct, Has
  <1>3. ASSUME NEW j \in DOMAIN w PROVE w[j] = s \/ \E k \in DOMAIN list : list[k] = w[j]
    BY <1>1
  <1>4. ASSUME NEW k \in DOMAIN list PROVE \E j \in DOMAIN w : w[j] = list[k]
    BY <1>1
  <1>5. \E j \in DOMAIN w : w[j] = s
    BY <1>1
  <1>6. ASSUME NEW t, \E j \in DOMAIN w : w[j] = t
        PROVE  t = s \/ \E k \in DOMAIN list : list[k] = t
    BY <1>3, <1>6
  <1>7. ASSUME NEW t, t = s \/ \E k \in DOMAIN list : list[k] = t
        PROVE  \E j \in DOMAIN w : w[j] = t
    BY <1>4, <1>5, <1>7
  <1> QED
    BY <1>1, <1>2, <1>6, <1>7 DEF Has, w

-----------------------------------------------------------------------------
(***************************************************************************)
(* What a step does to lists and to those in them.                         *)
(***************************************************************************)
Frames == \A f \in Frame : InFrame(f)' \/ ~InFrame(f)

LEMMA SameStep ==
  ASSUME TypeOK, Held, UNCHANGED <<subrs, father, ctx, thread>>,
         Living' = Living, \A q \in Request : life'[q] = "none" <=> life[q] = "none"
  PROVE  Held' /\ Frames
  <1>1. Lists'
    BY DEF Held, Lists
  <1>2. Below'
    BY DEF Held, Below, Family
  <1>3. Awaited'
    BY DEF Held, Awaited
  <1>4. ASSUME NEW f \in Frame, InFrame(f) PROVE InFrame(f)'
    <2>1. f.subr \in Sub => f.subr \in Request
      BY DEF Request
    <2> QED
      BY <1>4, <2>1 DEF InFrame
  <1> QED
    BY <1>1, <1>2, <1>3, <1>4 DEF Held, Frames

(* A new subrequest s is put in front of the list of r.                    *)
LEMMA FreshLists ==
  ASSUME TypeOK, Lists, NEW r \in Request, NEW s \in Sub, r \in Living, life[s] = "none",
         subrs' = [subrs EXCEPT ![r] = <<s>> \o @]
  PROVE  /\ subrs' \in [Request -> Seq(Sub)]
         /\ \A q \in Request : Distinct(subrs'[q])
         /\ \A t, q : q \in Request =>
               (In(subrs', t, q) <=> In(subrs, t, q) \/ (t = s /\ q = r))
         /\ \A q \in Request : ~In(subrs, s, q)
         /\ \A t \in Sub : ~In(subrs, t, s)
  <1>1. s \in Request /\ s \notin Living /\ s # r
    BY DEF Request, Living
  <1>2. /\ \A q \in Request : ~In(subrs, s, q)
        /\ \A t \in Sub : ~In(subrs, t, s)
    BY <1>1 DEF Lists
  <1>3. /\ subrs[r] \in Seq(Sub) /\ Distinct(subrs[r])
        /\ ~Has(subrs[r], s)
        /\ subrs'[r] = <<s>> \o subrs[r]
        /\ \A q \in Request \ {r} : subrs'[q] = subrs[q]
    BY <1>2, Types DEF Lists, Distinct, In
  <1>4. /\ subrs'[r] \in Seq(Sub) /\ Distinct(subrs'[r])
        /\ \A t : Has(subrs'[r], t) <=> t = s \/ Has(subrs[r], t)
    <2>1. LET w == <<s>> \o subrs[r]
          IN  w \in Seq(Sub) /\ Distinct(w) /\ \A t : Has(w, t) <=> t = s \/ Has(subrs[r], t)
      BY <1>3, FrontIs, Zenon
    <2> QED
      BY <1>3, <2>1, Zenon
  <1>5. subrs' \in [Request -> Seq(Sub)]
    BY <1>4, Types
  <1>6. \A q \in Request : Distinct(subrs'[q])
    BY <1>3, <1>4 DEF Lists, Distinct
  <1>7. ASSUME NEW t, NEW q \in Request
        PROVE  In(subrs', t, q) <=> In(subrs, t, q) \/ (t = s /\ q = r)
    <2>1. CASE q = r
      BY <1>4, <2>1 DEF In
    <2>2. CASE q # r
      BY <1>3, <2>2 DEF In
    <2> QED
      BY <2>1, <2>2
  <1> QED
    BY <1>2, <1>5, <1>6, <1>7

LEMMA FreshHeld ==
  ASSUME TypeOK, Held, NEW r \in Request, NEW s \in Sub, NEW f \in {r, Detached},
         r \in Living, Fresh(s, r, f),
         \/ UNCHANGED <<ctx, thread>>
         \/ ctx[r] = None /\ ctx' = [ctx EXCEPT ![r] = s] /\ f = r /\ UNCHANGED thread
         \/ thread[r] = None /\ thread' = [thread EXCEPT ![r] = s] /\ f = r /\ UNCHANGED ctx
  PROVE  Held' /\ Frames
  <1>1. /\ life[s] = "none" /\ life' = [life EXCEPT ![s] = "open"]
        /\ father' = [father EXCEPT ![s] = f]
        /\ subrs' = [subrs EXCEPT ![r] = <<s>> \o @]
    BY DEF Fresh
  <1>2. /\ subrs' \in [Request -> Seq(Sub)]
        /\ \A q \in Request : Distinct(subrs'[q])
        /\ \A t, q : q \in Request =>
              (In(subrs', t, q) <=> In(subrs, t, q) \/ (t = s /\ q = r))
        /\ \A q \in Request : ~In(subrs, s, q)
        /\ \A t \in Sub : ~In(subrs, t, s)
    BY <1>1, FreshLists DEF Held
  <1>3. /\ s \in Request /\ s \notin Living /\ s # r /\ s # Top
        /\ Living' = Living \cup {s}
        /\ \A q \in Request \ {s} : life'[q] = life[q] /\ father'[q] = father[q]
        /\ life'[s] = "open" /\ father'[s] = f
    BY <1>1, Types, NullAssumption DEF Request, Living
  <1>4. Lists'
    <2>1. \A q \in Request : \A t \in Sub : In(subrs', t, q) => q \in Living' /\ t \in Living'
      BY <1>2, <1>3 DEF Held, Lists
    <2>2. \A p, q \in Request : \A t \in Sub : In(subrs', t, p) /\ In(subrs', t, q) => p = q
      BY <1>2 DEF Held, Lists
    <2>3. ASSUME NEW t \in Living' \ {Top}
          PROVE  \E q \in Request : In(subrs', t, q) /\ father'[t] \in {q, Detached}
      <3>1. CASE t = s
        BY <1>2, <1>3, <3>1
      <3>2. CASE t # s
        <4>1. t \in Living \ {Top} /\ t \in Request
          BY <1>3, <3>2 DEF Living
        <4>2. PICK q \in Request : In(subrs, t, q) /\ father[t] \in {q, Detached}
          BY <4>1 DEF Held, Lists
        <4> QED
          BY <1>2, <1>3, <3>2, <4>1, <4>2
      <3> QED
        BY <3>1, <3>2
    <2>4. father'[Top] = None
      BY <1>3 DEF Held, Lists, Request
    <2> QED
      BY <1>2, <2>1, <2>2, <2>3, <2>4 DEF Lists, Distinct
  <1>5. Below'
    <2> SUFFICES ASSUME NEW q \in Request, NEW t \in Sub, In(subrs', t, q)
                 PROVE  q \notin Under(subrs', t)
      BY DEF Below, Family, Under
    <2>1. t \in Request
      BY DEF Request
    <2>2. CASE t = s
      <3>1. q = r
        BY <1>2, <2>2
      <3>2. /\ {s} \in SUBSET Request /\ s \in {s}
            /\ \A y \in {s} : \A u \in Sub : In(subrs', u, y) => u \in {s}
        BY <1>2, <1>3
      <3>3. Under(subrs', s) \subseteq {s}
        BY <1>2, <3>2, UnderLeast, Zenon
      <3> QED
        BY <1>3, <2>2, <3>1, <3>3
    <2>3. CASE t # s
      <3> DEFINE S == Under(subrs, t) \cup {s}
      <3>1. S \in SUBSET Request /\ t \in S
        BY <1>3, <2>1, UnderIs, Types
      <3>2. ASSUME NEW y \in S, NEW u \in Sub, In(subrs', u, y) PROVE u \in S
        <4>1. y \in Request
          BY <3>1, <3>2
        <4>2. CASE u = s
          BY <4>2
        <4>3. CASE u # s
          <5>1. In(subrs, u, y) /\ y # s
            BY <1>2, <3>2, <4>1, <4>3
          <5> QED
            BY <2>1, <5>1, UnderIs, Types
        <4> QED
          BY <4>2, <4>3
      <3> HIDE DEF S
      <3>3. Under(subrs', t) \subseteq S
        BY <1>2, <3>1, <3>2, UnderLeast, Zenon
      <3>4. In(subrs, t, q)
        BY <1>2, <2>3
      <3>5. q \notin Under(subrs, t)
        BY <3>4, FamilyIs DEF Held, Below
      <3>6. q # s
        BY <1>2, <3>4
      <3> QED
        BY <3>3, <3>5, <3>6 DEF S
    <2> QED
      BY <2>2, <2>3
  <1>6. Awaited'
    <2>1. /\ \A q \in Request \ {r} : ctx'[q] = ctx[q] /\ thread'[q] = thread[q]
          /\ \/ ctx'[r] = ctx[r] /\ thread'[r] = thread[r]
             \/ ctx[r] = None /\ ctx'[r] = s /\ f = r /\ thread'[r] = thread[r]
             \/ thread[r] = None /\ thread'[r] = s /\ f = r /\ ctx'[r] = ctx[r]
      BY Types
    <2>2. ctx[s] = None /\ thread[s] = None
      BY <1>1, <1>3 DEF Held, Awaited
    <2>3. \A q \in Living : \A t \in Sub :
             t = ctx[q] \/ t = thread[q] => In(subrs, t, q) /\ father[t] = q /\ t # s
      BY <1>2 DEF Held, Awaited, Living
    <2>4. \A q \in Living' : \A t \in Sub :
             t = ctx'[q] \/ t = thread'[q] => In(subrs', t, q) /\ father'[t] = q
      <3> SUFFICES ASSUME NEW q \in Living', NEW t \in Sub, t = ctx'[q] \/ t = thread'[q]
                   PROVE  In(subrs', t, q) /\ father'[t] = q
        OBVIOUS
      <3>1. q \in Request /\ (q \in Living \/ q = s) /\ t \in Request
        BY <1>3 DEF Living, Request
      <3>2. t # None
        BY NullAssumption DEF Request
      <3>3. CASE t = s
        <4>1. q = r
          BY <1>3, <2>1, <2>2, <2>3, <3>1, <3>2, <3>3
        <4> QED
          BY <1>2, <1>3, <2>1, <2>3, <3>3, <4>1
      <3>4. CASE t # s
        <4>1. q \in Living /\ (t = ctx[q] \/ t = thread[q])
          BY <1>3, <2>1, <2>2, <3>1, <3>2, <3>4
        <4> QED
          BY <1>2, <1>3, <2>3, <3>1, <3>4, <4>1
      <3> QED
        BY <3>3, <3>4
    <2>5. \A q \in Living' : ctx'[q] # None => ctx'[q] # thread'[q]
      <3> SUFFICES ASSUME NEW q \in Living', ctx'[q] # None PROVE ctx'[q] # thread'[q]
        OBVIOUS
      <3>1. CASE q = s
        BY <1>3, <2>1, <2>2, <3>1
      <3>2. CASE q # s
        <4>1. q \in Living /\ q \in Request
          BY <1>3, <3>2 DEF Living
        <4>2. s # ctx[q] /\ s # thread[q]
          BY <2>3, <4>1
        <4> QED
          BY <2>1, <4>1, <4>2 DEF Held, Awaited
      <3> QED
        BY <3>1, <3>2
    <2>6. \A q \in Request : life'[q] = "none" => ctx'[q] = None
      BY <1>3, <2>1 DEF Held, Awaited, Living
    <2>7. \A q \in Request : q \notin Living' => thread'[q] = None
      BY <1>3, <2>1 DEF Held, Awaited
    <2> QED
      BY <2>4, <2>5, <2>6, <2>7 DEF Awaited
  <1>7. ASSUME NEW g \in Frame, InFrame(g) PROVE InFrame(g)'
    <2> SUFFICES ASSUME g.at = "post", g.subr # None
                 PROVE  /\ g.subr \in Sub
                        /\ life'[g.subr] # "none"
                        /\ g.subr \in Living' => In(subrs', g.subr, g.who)
      BY DEF InFrame
    <2>1. /\ g.subr \in Sub /\ life[g.subr] # "none" /\ g.who \in Request
          /\ g.subr \in Living => In(subrs, g.subr, g.who)
      BY <1>7 DEF InFrame, Frame
    <2>2. g.subr \in Request /\ g.subr # s
      BY <1>1, <2>1 DEF Request
    <2> QED
      BY <1>2, <1>3, <2>1, <2>2
  <1> QED
    BY <1>4, <1>5, <1>6, <1>7 DEF Held, Frames

(* x is released with all below it.                                        *)
LEMMA ReleaseLists ==
  ASSUME TypeOK, Lists, NEW x \in Request, Release(x)
  PROVE  /\ life' \in [Request -> {"none", "open", "finished", "released"}]
         /\ subrs' \in [Request -> Seq(Sub)]
         /\ \A q \in Request : Distinct(subrs'[q])
         /\ \A t, q : q \in Request =>
               (In(subrs', t, q) <=> In(subrs, t, q) /\ q \notin Family(x) /\ t # x)
         /\ \A q \in Request : life'[q] = IF q \in Family(x) THEN "released" ELSE life[q]
         /\ Living' = Living \ Family(x)
         /\ unsent' = unsent \ Family(x)
  <1>1. /\ life' = [q \in Request |-> IF q \in Family(x) THEN "released" ELSE life[q]]
        /\ subrs' = [q \in Request |-> IF q \in Family(x) THEN <<>> ELSE Without(subrs[q], x)]
        /\ unsent' = unsent \ Family(x)
    BY DEF Release, ReleaseBut
  <1>2. ASSUME NEW q \in Request
        PROVE  /\ subrs'[q] \in Seq(Sub) /\ Distinct(subrs'[q])
               /\ \A t : Has(subrs'[q], t) <=> Has(subrs[q], t) /\ q \notin Family(x) /\ t # x
    <2>1. CASE q \in Family(x)
      <3>1. subrs'[q] = <<>>
        BY <1>1, <2>1
      <3> QED
        BY <2>1, <3>1 DEF Distinct, Has
    <2>2. CASE q \notin Family(x)
      <3>1. subrs'[q] = Without(subrs[q], x)
        BY <1>1, <2>2
      <3>2. subrs[q] \in Seq(Sub) /\ Distinct(subrs[q])
        BY Types DEF Lists, Distinct
      <3>3. LET w == Without(subrs[q], x)
            IN  w \in Seq(Sub) /\ Distinct(w) /\ \A t : Has(w, t) <=> t # x /\ Has(subrs[q], t)
        BY <3>2, WithoutIs, Zenon
      <3>4. /\ subrs'[q] \in Seq(Sub) /\ Distinct(subrs'[q])
            /\ \A t : Has(subrs'[q], t) <=> t # x /\ Has(subrs[q], t)
        BY <3>1, <3>3, Zenon
      <3> QED
        BY <2>2, <3>4
    <2> QED
      BY <2>1, <2>2
  <1>3. subrs' \in [Request -> Seq(Sub)]
    BY <1>1, <1>2
  <1>4. life' \in [Request -> {"none", "open", "finished", "released"}]
    BY <1>1, Types
  <1>5. \A t, q : q \in Request =>
           (In(subrs', t, q) <=> In(subrs, t, q) /\ q \notin Family(x) /\ t # x)
    BY <1>2 DEF In
  <1>6. Living' = Living \ Family(x)
    BY <1>1 DEF Living
  <1> QED
    BY <1>1, <1>2, <1>3, <1>4, <1>5, <1>6

LEMMA ReleaseHeld ==
  ASSUME TypeOK, Held, NEW x \in Request, ~KillsWaiting(x), Release(x), UNCHANGED father,
         \A q \in Request : ctx'[q] \in {None, ctx[q]} /\ thread'[q] \in {None, thread[q]},
         \A q \in Living \ Family(x) : ctx'[q] # x /\ thread'[q] # x
  PROVE  Held' /\ Frames
  <1>1. /\ subrs' \in [Request -> Seq(Sub)]
        /\ \A q \in Request : Distinct(subrs'[q])
        /\ \A t, q : q \in Request =>
              (In(subrs', t, q) <=> In(subrs, t, q) /\ q \notin Family(x) /\ t # x)
        /\ \A q \in Request : life'[q] = IF q \in Family(x) THEN "released" ELSE life[q]
        /\ Living' = Living \ Family(x)
    BY ReleaseLists DEF Held
  <1>2. /\ x \in Family(x) /\ Family(x) \subseteq Request
        /\ \A y \in Family(x) : \A s \in Sub : In(subrs, s, y) => s \in Family(x)
    BY UnderIs, FamilyIs, Types
  <1>3. \A s \in Family(x) : s # x => \E y \in Family(x) : In(subrs, s, y)
    BY UnderFrom, FamilyIs, Types
  <1>4. ASSUME NEW q \in Request, NEW s \in Sub, In(subrs, s, q), q \notin Family(x), s # x
        PROVE  s \notin Family(x)
    BY <1>2, <1>3, <1>4 DEF Held, Lists
  <1>5. Lists'
    <2>1. \A q \in Request : \A s \in Sub : In(subrs', s, q) => q \in Living' /\ s \in Living'
      BY <1>1, <1>4 DEF Held, Lists
    <2>2. \A p, q \in Request : \A s \in Sub : In(subrs', s, p) /\ In(subrs', s, q) => p = q
      BY <1>1 DEF Held, Lists
    <2>3. ASSUME NEW s \in Living' \ {Top}
          PROVE  \E q \in Request : In(subrs', s, q) /\ father'[s] \in {q, Detached}
      <3>1. s \in Living \ {Top} /\ s \notin Family(x) /\ s \in Sub
        BY <1>1 DEF Living, Request
      <3>2. PICK q \in Request : In(subrs, s, q) /\ father[s] \in {q, Detached}
        BY <3>1 DEF Held, Lists
      <3>3. q \notin Family(x) /\ s # x
        BY <1>2, <3>1, <3>2
      <3> QED
        BY <1>1, <3>2, <3>3
    <2>4. father'[Top] = None
      BY DEF Held, Lists
    <2> QED
      BY <1>1, <2>1, <2>2, <2>3, <2>4 DEF Lists, Distinct
  <1>6. Below'
    <2> SUFFICES ASSUME NEW q \in Request, NEW s \in Sub, In(subrs', s, q)
                 PROVE  q \notin Under(subrs', s)
      BY DEF Below, Family, Under
    <2>1. s \in Request
      BY DEF Request
    <2>2. \A y \in Request : \A t \in Sub : In(subrs', t, y) => In(subrs, t, y)
      BY <1>1
    <2>3. Under(subrs', s) \subseteq Under(subrs, s)
      BY <1>1, <2>1, <2>2, UnderLess, Types, Zenon
    <2>4. q \notin Under(subrs, s)
      BY <2>2, FamilyIs DEF Held, Below
    <2> QED
      BY <2>3, <2>4
  <1>7. Awaited'
    <2>1. \A q \in Request : life'[q] = "none" => ctx'[q] = None
      BY <1>1 DEF Held, Awaited
    <2>2. \A q \in Family(x) : thread[q] = None
      BY DEF KillsWaiting
    <2>3. \A q \in Request : q \notin Living' => thread'[q] = None
      BY <1>1, <2>2 DEF Held, Awaited
    <2>4. ASSUME NEW q \in Living', NEW s \in Sub, s = ctx'[q] \/ s = thread'[q]
          PROVE  In(subrs', s, q) /\ father'[s] = q
      <3>1. q \in Request /\ q \in Living /\ q \notin Family(x)
        BY <1>1 DEF Living
      <3>2. s # None
        BY NullAssumption DEF Request
      <3>3. s = ctx[q] \/ s = thread[q]
        BY <2>4, <3>1, <3>2
      <3>4. s # x
        BY <2>4, <3>1
      <3> QED
        BY <1>1, <3>1, <3>3, <3>4 DEF Held, Awaited
    <2>5. ASSUME NEW q \in Living', ctx'[q] # None PROVE ctx'[q] # thread'[q]
      <3>1. q \in Request /\ q \in Living
        BY <1>1 DEF Living
      <3> QED
        BY <2>5, <3>1 DEF Held, Awaited
    <2> QED
      BY <2>1, <2>3, <2>4, <2>5 DEF Awaited
  <1>8. ASSUME NEW g \in Frame, InFrame(g) PROVE InFrame(g)'
    <2> SUFFICES ASSUME g.at = "post", g.subr # None
                 PROVE  /\ g.subr \in Sub
                        /\ life'[g.subr] # "none"
                        /\ g.subr \in Living' => In(subrs', g.subr, g.who)
      BY DEF InFrame
    <2>1. /\ g.subr \in Sub /\ life[g.subr] # "none" /\ g.who \in Request
          /\ g.subr \in Living => In(subrs, g.subr, g.who)
      BY <1>8 DEF InFrame, Frame
    <2>2. g.subr \in Request
      BY <2>1 DEF Request
    <2>3. ASSUME g.subr \in Living' PROVE In(subrs', g.subr, g.who)
      <3>1. In(subrs, g.subr, g.who) /\ g.subr \notin Family(x)
        BY <1>1, <2>1, <2>3
      <3>2. g.who \notin Family(x) /\ g.subr # x
        BY <1>2, <2>1, <3>1
      <3> QED
        BY <1>1, <2>1, <3>1, <3>2
    <2> QED
      BY <1>1, <2>1, <2>2, <2>3
  <1> QED
    BY <1>5, <1>6, <1>7, <1>8 DEF Held, Frames

(* A new one is moved to the end of its list.                              *)
LEMMA MoveHeld ==
  ASSUME TypeOK, Held, NEW r \in Request, NEW s \in Sub, In(subrs, s, r),
         subrs' = [subrs EXCEPT ![r] = Append(Without(@, s), s)],
         UNCHANGED <<life, father, ctx, thread>>
  PROVE  Held' /\ Frames /\ subrs' \in [Request -> Seq(Sub)]
  <1>1. subrs[r] \in Seq(Sub) /\ Distinct(subrs[r])
    BY Types DEF Held, Lists, Distinct
  <1> DEFINE w == Without(subrs[r], s)
             v == Append(w, s)
  <1>2. w \in Seq(Sub) /\ Distinct(w) /\ \A t : Has(w, t) <=> t # s /\ Has(subrs[r], t)
    BY <1>1, WithoutIs, Zenon
  <1>3. subrs'[r] = v /\ \A q \in Request \ {r} : subrs'[q] = subrs[q]
    BY Types
  <1> HIDE DEF w
  <1>4. v \in Seq(Sub) /\ Distinct(v) /\ \A t : Has(v, t) <=> t = s \/ Has(w, t)
    BY <1>2, EndIs
  <1> HIDE DEF v
  <1>5. subrs' \in [Request -> Seq(Sub)]
    BY <1>3, <1>4, Types
  <1>6. \A q \in Request : Distinct(subrs'[q])
    BY <1>3, <1>4 DEF Held, Lists, Distinct
  <1>7. ASSUME NEW t, NEW q \in Request PROVE In(subrs', t, q) <=> In(subrs, t, q)
    BY <1>2, <1>3, <1>4 DEF In
  <1>8. Living' = Living
    BY DEF Living
  <1>9. Lists'
    <2>1. \A q \in Request : \A t \in Sub : In(subrs', t, q) => q \in Living' /\ t \in Living'
      BY <1>7, <1>8 DEF Held, Lists
    <2>2. \A p, q \in Request : \A t \in Sub : In(subrs', t, p) /\ In(subrs', t, q) => p = q
      BY <1>7 DEF Held, Lists
    <2>3. \A t \in Living' \ {Top} :
             \E q \in Request : In(subrs', t, q) /\ father'[t] \in {q, Detached}
      BY <1>7, <1>8 DEF Held, Lists
    <2>4. father'[Top] = None
      BY DEF Held, Lists
    <2> QED
      BY <1>6, <2>1, <2>2, <2>3, <2>4 DEF Lists, Distinct
  <1>10. Below'
    <2> SUFFICES ASSUME NEW q \in Request, NEW t \in Sub, In(subrs', t, q)
                 PROVE  q \notin Under(subrs', t)
      BY DEF Below, Family, Under
    <2>1. t \in Request
      BY DEF Request
    <2>2. Under(subrs', t) \subseteq Under(subrs, t)
      BY <1>5, <1>7, <2>1, UnderLess, Types
    <2>3. q \notin Under(subrs, t)
      BY <1>7, FamilyIs DEF Held, Below
    <2> QED
      BY <2>2, <2>3
  <1>11. Awaited'
    BY <1>7, <1>8 DEF Held, Awaited, Living
  <1>12. ASSUME NEW g \in Frame, InFrame(g) PROVE InFrame(g)'
    <2>1. g.who \in Request
      BY DEF Frame
    <2> QED
      BY <1>7, <1>8, <1>12, <2>1 DEF InFrame
  <1> QED
    BY <1>5, <1>9, <1>10, <1>11, <1>12 DEF Held, Frames

(* A new request of the client.                                            *)
LEMMA ReceivesHeld ==
  ASSUME TypeOK, Held, Receives
  PROVE  Held' /\ Frames /\ life' \in [Request -> {"none", "open", "finished", "released"}]
  <1>1. /\ life[Top] = "none" /\ life' = [life EXCEPT ![Top] = "open"]
        /\ UNCHANGED <<subrs, father, ctx, thread>> /\ Top \in Request
    BY DEF Receives, links, Request
  <1>2. /\ Living' = Living \cup {Top} /\ Top \notin Living /\ life'[Top] = "open"
        /\ \A q \in Request \ {Top} : life'[q] = life[q]
    BY <1>1, Types DEF Living
  <1>3. Lists'
    BY <1>1, <1>2 DEF Held, Lists
  <1>4. Below'
    BY <1>1 DEF Held, Below, Family
  <1>5. Awaited'
    <2>1. ctx[Top] = None /\ thread[Top] = None
      BY <1>1, <1>2 DEF Held, Awaited
    <2>2. \A s \in Sub : s # None
      BY NullAssumption DEF Request
    <2> QED
      BY <1>1, <1>2, <2>1, <2>2 DEF Held, Awaited
  <1>6. ASSUME NEW g \in Frame, InFrame(g) PROVE InFrame(g)'
    <2>1. \A s \in Sub : s \in Request \ {Top}
      BY NullAssumption DEF Request
    <2> QED
      BY <1>1, <1>2, <1>6, <2>1 DEF InFrame
  <1> QED
    BY <1>1, <1>3, <1>4, <1>5, <1>6, Types DEF Held, Frames

(* The released are freed when no call is left.                            *)
LEMMA FreesHeld ==
  ASSUME TypeOK, Held, Frees
  PROVE  /\ Held' /\ UNCHANGED <<subrs, thread, unsent, stack>> /\ Living' = Living
         /\ life' \in [Request -> {"none", "open", "finished", "released"}]
         /\ father' \in [Request -> Request \cup {None, Detached}]
         /\ ctx' \in [Request -> Sub \cup {None}]
         /\ \A q \in Living : father'[q] = father[q]
  <1>1. /\ life' = [q \in Request |-> IF life[q] = "released" THEN "none" ELSE life[q]]
        /\ father' = [q \in Request |-> IF life[q] = "released" THEN None ELSE father[q]]
        /\ ctx' = [q \in Request |-> IF life[q] = "released" THEN None ELSE ctx[q]]
        /\ UNCHANGED <<subrs, thread, unsent, stack>>
    BY DEF Frees
  <1>2. /\ life' \in [Request -> {"none", "open", "finished", "released"}]
        /\ father' \in [Request -> Request \cup {None, Detached}]
        /\ ctx' \in [Request -> Sub \cup {None}]
    BY <1>1, Types
  <1>3. Living' = Living /\ \A q \in Living : father'[q] = father[q] /\ ctx'[q] = ctx[q]
    BY <1>1 DEF Living
  <1>4. Lists'
    <2>1. father'[Top] = None
      BY <1>1 DEF Held, Lists, Request
    <2> QED
      BY <1>1, <1>3, <2>1 DEF Held, Lists
  <1>5. Below'
    BY <1>1 DEF Held, Below, Family
  <1>6. Awaited'
    <2>1. \A q \in Request : life'[q] = "none" => ctx'[q] = None
      BY <1>1 DEF Held, Awaited
    <2>2. \A q \in Living : \A s \in Sub : In(subrs, s, q) => s \in Living
      BY DEF Held, Lists, Living
    <2>3. \A q \in Living' : \A s \in Sub :
             s = ctx'[q] \/ s = thread'[q] => In(subrs', s, q) /\ father'[s] = q
      BY <1>1, <1>3, <2>2 DEF Held, Awaited
    <2> QED
      BY <1>1, <1>3, <2>1, <2>3 DEF Held, Awaited
  <1> QED
    BY <1>1, <1>2, <1>3, <1>4, <1>5, <1>6 DEF Held

-----------------------------------------------------------------------------
(***************************************************************************)
(* What a step does to the calls.                                          *)
(***************************************************************************)
LEMMA FrameIs ==
  ASSUME NEW r \in Request, NEW s \in Request \cup {None}
  PROVE  /\ Run(r) \in Frame /\ Post(r, s) \in Frame /\ Flush(r) \in Frame
         /\ Run(r).at = "run" /\ Run(r).who = r
         /\ Post(r, s).at = "post" /\ Post(r, s).who = r /\ Post(r, s).subr = s
         /\ Flush(r).at = "flush" /\ Flush(r).who = r
  BY DEF Run, Post, Flush, Frame

LEMMA CallNone ==
  ASSUME CallsOf, Frames, stack # <<>>, Call(<<>>)
  PROVE  CallsOf'
  <1>1. /\ Len(stack) \in Nat /\ Len(stack) >= 1 /\ \A i \in 1 .. Len(stack) : stack[i] \in Frame
        /\ stack' = Tail(stack)
    BY DEF CallsOf, Call
  <1>2. /\ stack' \in Seq(Frame) /\ Len(stack') = Len(stack) - 1
        /\ \A i \in 1 .. Len(stack') : stack'[i] = stack[i + 1] /\ i + 1 \in 1 .. Len(stack)
    BY <1>1 DEF CallsOf
  <1>3. \A i \in 1 .. Len(stack') : stack'[i].at # "run"
    BY <1>1, <1>2 DEF CallsOf, Calls
  <1>4. ASSUME NEW i \in 1 .. Len(stack') PROVE InFrame(stack[i])'
    <2>1. PICK f \in Frame : f = stack[i + 1] /\ f = stack'[i] /\ InFrame(f)
      BY <1>1, <1>2 DEF CallsOf, Calls
    <2>2. InFrame(f)'
      BY <2>1 DEF Frames
    <2> QED
      BY <2>1, <2>2 DEF InFrame
  <1>5. stack' # <<>> => Head(stack').at # "run"
    BY <1>2, <1>3
  <1> QED
    BY <1>2, <1>3, <1>4, <1>5 DEF CallsOf, Calls

LEMMA CallOne ==
  ASSUME CallsOf, Frames, stack # <<>>, NEW f \in Frame, Call(<<f>>),
         InFrame(f)', f.at = "run" => f.who \in Living' \cup {Top}
  PROVE  CallsOf' /\ stack' # <<>> /\ Head(stack') = f
  <1>1. /\ Len(stack) \in Nat /\ Len(stack) >= 1 /\ \A i \in 1 .. Len(stack) : stack[i] \in Frame
        /\ stack' = <<f>> \o Tail(stack)
    BY DEF CallsOf, Call
  <1>2. /\ stack' \in Seq(Frame) /\ Len(stack') = Len(stack) /\ stack'[1] = f
        /\ \A i \in 2 .. Len(stack) : stack'[i] = stack[i]
    BY <1>1 DEF CallsOf
  <1>3. \A i \in 2 .. Len(stack) : InFrame(stack[i])'
    BY <1>1 DEF CallsOf, Calls, Frames
  <1> QED
    BY <1>1, <1>2, <1>3 DEF CallsOf, Calls, InFrame

LEMMA CallTwo ==
  ASSUME CallsOf, Frames, stack # <<>>, NEW f \in Frame, NEW g \in Frame, Call(<<f, g>>),
         InFrame(f)', f.at = "run" => f.who \in Living' \cup {Top}, InFrame(g)', g.at # "run"
  PROVE  CallsOf' /\ stack' # <<>> /\ Head(stack') = f
  <1>1. /\ Len(stack) \in Nat /\ Len(stack) >= 1 /\ \A i \in 1 .. Len(stack) : stack[i] \in Frame
        /\ stack' = <<f, g>> \o Tail(stack)
    BY DEF CallsOf, Call
  <1>2. /\ stack' \in Seq(Frame) /\ Len(stack') = Len(stack) + 1 /\ stack'[1] = f /\ stack'[2] = g
        /\ \A i \in 3 .. Len(stack) + 1 : stack'[i] = stack[i - 1] /\ i - 1 \in 2 .. Len(stack)
    BY <1>1 DEF CallsOf
  <1>3. ASSUME NEW i \in 3 .. Len(stack') PROVE stack'[i].at # "run" /\ InFrame(stack[i])'
    <2>1. PICK e \in Frame : e = stack[i - 1] /\ e = stack'[i] /\ InFrame(e) /\ e.at # "run"
      BY <1>1, <1>2 DEF CallsOf, Calls
    <2>2. InFrame(e)'
      BY <2>1 DEF Frames
    <2> QED
      BY <2>1, <2>2 DEF InFrame
  <1>4. InFrame(stack[1])' /\ InFrame(stack[2])'
    BY <1>2 DEF InFrame
  <1>5. \A i \in 1 .. Len(stack') : i = 1 \/ i = 2 \/ i \in 3 .. Len(stack')
    BY <1>1, <1>2
  <1>6. Calls'
    BY <1>2, <1>3, <1>4, <1>5 DEF Calls
  <1> QED
    BY <1>1, <1>2, <1>6 DEF CallsOf

(* A handler's run, when no other call is left.                            *)
LEMMA CallFirst ==
  ASSUME NEW r \in Request, stack' = <<Run(r)>>, r \in Living' \cup {Top}
  PROVE  CallsOf'
  <1>1. /\ stack' \in Seq(Frame) /\ Len(stack') = 1 /\ Head(stack') = Run(r)
        /\ stack'[1] = Run(r)
    BY DEF Run, Frame
  <1>2. Run(r).at = "run" /\ Run(r).who = r
    BY DEF Run
  <1> QED
    BY <1>1, <1>2 DEF CallsOf, Calls, InFrame

LEMMA CallKept ==
  ASSUME CallsOf, Frames, UNCHANGED stack,
         stack # <<>> /\ Head(stack).at = "run" => Head(stack).who \in Living' \cup {Top}
  PROVE  CallsOf'
  <1>1. \A i \in 1 .. Len(stack) : stack[i] \in Frame /\ InFrame(stack[i])
    BY DEF CallsOf, Calls
  <1>2. \A i \in 1 .. Len(stack) : InFrame(stack[i])'
    BY <1>1 DEF Frames
  <1> QED
    BY <1>2 DEF CallsOf, Calls, InFrame

(* The next one of a list, that phl_request_run_post() keeps, is in it.    *)
LEMMA FirstIn ==
  ASSUME TypeOK, Lists, NEW r \in Request
  PROVE  /\ FirstOf(subrs[r]) \in Request \cup {None}
         /\ InFrame(Post(r, FirstOf(subrs[r])))
  <1>1. subrs[r] \in Seq(Sub)
    BY Types
  <1>2. CASE subrs[r] = <<>>
    BY <1>2 DEF FirstOf, InFrame, Post
  <1>3. CASE subrs[r] # <<>>
    <2>1. FirstOf(subrs[r]) \in Sub /\ In(subrs, FirstOf(subrs[r]), r)
      BY <1>1, <1>3 DEF FirstOf, In, Has
    <2>2. life[FirstOf(subrs[r])] # "none"
      BY <2>1 DEF Lists, Living
    <2> QED
      BY <2>1, <2>2 DEF InFrame, Post, Request
  <1> QED
    BY <1>2, <1>3

LEMMA AfterIn ==
  ASSUME TypeOK, Lists, NEW r \in Request, NEW s, In(subrs, s, r)
  PROVE  /\ After(subrs[r], s) \in Request \cup {None}
         /\ InFrame(Post(r, After(subrs[r], s)))
  <1>1. subrs[r] \in Seq(Sub)
    BY Types
  <1>2. Place(subrs[r], s) \in DOMAIN subrs[r]
    BY DEF In, Has, Place
  <1>3. CASE Place(subrs[r], s) = Len(subrs[r])
    BY <1>3 DEF After, InFrame, Post
  <1>4. CASE Place(subrs[r], s) # Len(subrs[r])
    <2>1. Place(subrs[r], s) + 1 \in DOMAIN subrs[r]
      BY <1>1, <1>2, <1>4
    <2>2. After(subrs[r], s) = subrs[r][Place(subrs[r], s) + 1]
      BY <1>4 DEF After
    <2>3. After(subrs[r], s) \in Sub /\ In(subrs, After(subrs[r], s), r)
      BY <1>1, <2>1, <2>2 DEF In, Has
    <2>4. life[After(subrs[r], s)] # "none"
      BY <2>3 DEF Lists, Living
    <2> QED
      BY <2>3, <2>4 DEF InFrame, Post, Request
  <1> QED
    BY <1>3, <1>4

-----------------------------------------------------------------------------
(***************************************************************************)
(* The values that are no links.                                           *)
(***************************************************************************)
DataOK ==
    /\ state \in [Request -> 0 .. 10]
    /\ broken \in [Request -> BOOLEAN]
    /\ status \in [Request -> Status]
    /\ guarded \in [Request -> BOOLEAN]
    /\ passed \in [Request -> BOOLEAN]
    /\ answer \in [Request -> Status]
    /\ dead \in BOOLEAN

LEMMA Numbers ==
    /\ ReceiveHeaders = 0 /\ LocateConfHost = 1 /\ LocateConfPath = 2 /\ ReceiveBodySync = 3
    /\ ProcessHeaders = 4 /\ ProcessBody = 5 /\ ResponseHeaders1 = 6 /\ ResponseHeaders2 = 7
    /\ ResponseHeaders3 = 8 /\ ResponseBody = 9 /\ Done = 10
  BY DEF ReceiveHeaders, LocateConfHost, LocateConfPath, ReceiveBodySync, ProcessHeaders,
         ProcessBody, ResponseHeaders1, ResponseHeaders2, ResponseHeaders3, ResponseBody, Done

LEMMA DataIs == TypeOK => DataOK
  BY Numbers DEF TypeOK, DataOK

LEMMA AdvanceData ==
  ASSUME DataOK, NEW r \in Request, NEW step \in 0 .. 9, At(r, step), Advance(r)
  PROVE  state' \in [Request -> 0 .. 10]
  <1>1. state[r] = step /\ state' = [state EXCEPT ![r] = @ + 1]
    BY DEF At, Advance
  <1>2. state[r] + 1 \in 0 .. 10
    BY <1>1
  <1> QED
    BY <1>1, <1>2 DEF DataOK

LEMMA BreakData ==
  ASSUME DataOK, NEW r \in Request, NEW code \in Status, BreakWith(r, code)
  PROVE  /\ state' \in [Request -> 0 .. 10]
         /\ broken' \in [Request -> BOOLEAN]
         /\ status' \in [Request -> Status]
  <1>1. /\ broken' = [broken EXCEPT ![r] = TRUE]
        /\ state' = [state EXCEPT ![r] = 6]
        /\ status' = [status EXCEPT ![r] = code]
    BY Numbers DEF BreakWith, Break
  <1> QED
    BY <1>1 DEF DataOK

LEMMA DieData == DataOK /\ Die => DataOK'
  BY DEF DataOK, Die, auth

LEMMA FreshData ==
  ASSUME DataOK, NEW s, NEW r, NEW f, Fresh(s, r, f), UNCHANGED dead
  PROVE  DataOK'
  <1>1. /\ s \in Request
        /\ state' = [state EXCEPT ![s] = 1]
        /\ status' = [status EXCEPT ![s] = "none"]
        /\ broken' = [broken EXCEPT ![s] = FALSE]
        /\ guarded' = [guarded EXCEPT ![s] = FALSE]
        /\ passed' = [passed EXCEPT ![s] = FALSE]
        /\ answer' = [answer EXCEPT ![s] = "none"]
    BY Numbers DEF Fresh, Request
  <1>2. "none" \in Status /\ 1 \in 0 .. 10
    BY DEF Status
  <1> QED
    BY <1>1, <1>2 DEF DataOK

(* The steps that are at one of the first ten, and go on to the next.      *)
LEMMA AdvancingAt ==
  ASSUME NEW r \in Request,
         \/ Proceeds(r) \/ LocatesPath(r) \/ Generates(r) \/ AnswersError(r) \/ SendsHeaders(r)
         \/ EndsBody(r)
  PROVE  \E step \in 0 .. 9 : At(r, step) /\ Advance(r)
  BY Numbers DEF Proceeds, LocatesPath, Generates, AnswersError, SendsHeaders, EndsBody,
                 HasOtherHandlers

LEMMA BreakingWith ==
  ASSUME DataOK, NEW r \in Request, Fails(r) \/ FailsLate(r) \/ Refuses(r)
  PROVE  \E code \in Status : BreakWith(r, code)
  <1>1. "other" \in Status /\ status[r] \in Status
    BY DEF Status, DataOK
  <1> QED
    BY <1>1 DEF Fails, FailsLate, Refuses

LEMMA DataStep ==
  ASSUME DataOK, NEW r \in Request, Step(r)
  PROVE  DataOK'
  <1>1. CASE Proceeds(r) \/ AnswersError(r) \/ SendsHeaders(r) \/ EndsBody(r)
    <2>1. state' \in [Request -> 0 .. 10]
      BY <1>1, AdvancingAt, AdvanceData
    <2>2. UNCHANGED <<broken, status, guarded, passed, answer, dead>>
      BY <1>1 DEF Proceeds, AnswersError, SendsHeaders, EndsBody, auth
    <2> QED
      BY <2>1, <2>2 DEF DataOK
  <1>2. CASE LocatesPath(r)
    <2>1. state' \in [Request -> 0 .. 10]
      BY <1>2, AdvancingAt, AdvanceData
    <2>2. PICK g \in BOOLEAN : guarded' = [guarded EXCEPT ![r] = g]
      BY <1>2 DEF LocatesPath
    <2>3. guarded' \in [Request -> BOOLEAN]
      BY <2>2 DEF DataOK
    <2>4. UNCHANGED <<broken, status, passed, answer, dead>>
      BY <1>2 DEF LocatesPath
    <2> QED
      BY <2>1, <2>3, <2>4 DEF DataOK
  <1>3. CASE Generates(r)
    <2>1. state' \in [Request -> 0 .. 10]
      BY <1>3, AdvancingAt, AdvanceData
    <2>2. PICK code \in Status : status' = [status EXCEPT ![r] = code]
      BY <1>3 DEF Generates
    <2>3. status' \in [Request -> Status]
      BY <2>2 DEF DataOK
    <2>4. UNCHANGED <<broken, guarded, passed, answer, dead>>
      BY <1>3 DEF Generates, auth
    <2> QED
      BY <2>1, <2>3, <2>4 DEF DataOK
  <1>4. CASE \/ Waits(r) \/ NotYet(r) \/ WaitsForBody(r) \/ FlushesBody(r) \/ Returns(r)
             \/ \E s \in Sub \cup {None} : PostEnds(r, s)
    <2>1. UNCHANGED <<state, broken, status, guarded, passed, answer, dead>>
      BY <1>4 DEF Waits, NotYet, WaitsForBody, FlushesBody, Returns, PostEnds, auth
    <2> QED
      BY <2>1 DEF DataOK
  <1>5. CASE Fails(r) \/ FailsLate(r) \/ Refuses(r)
    <2>1. /\ state' \in [Request -> 0 .. 10]
          /\ broken' \in [Request -> BOOLEAN]
          /\ status' \in [Request -> Status]
      BY <1>5, BreakingWith, BreakData
    <2>2. UNCHANGED <<guarded, passed, answer, dead>>
      BY <1>5 DEF Fails, FailsLate, Refuses, auth
    <2> QED
      BY <2>1, <2>2 DEF DataOK
  <1>6. CASE WaitsLinked(r) \/ Redirects(r) \/ AsksWithoutMemory(r)
    BY <1>6, DieData DEF WaitsLinked, Redirects, AsksWithoutMemory
  <1>7. CASE Asks(r) \/ Subrequests(r) \/ Detaches(r)
    BY <1>7, FreshData DEF Asks, Subrequests, Detaches
  <1>8. CASE Grants(r)
    <2>1. CASE KillsWaiting(ctx[r])
      BY <1>8, <2>1, DieData DEF Grants, GrantsWith, Close
    <2>2. CASE ~KillsWaiting(ctx[r])
      <3>1. /\ passed' = [passed EXCEPT ![r] = TRUE]
            /\ answer' = [answer EXCEPT ![r] = "200"]
            /\ UNCHANGED <<state, broken, status, guarded, dead>>
        BY <1>8, <2>2 DEF Grants, GrantsWith, Close
      <3> QED
        BY <3>1 DEF DataOK, Status
    <2> QED
      BY <2>1, <2>2
  <1>9. CASE Resumes(r)
    BY <1>9, DieData DEF Resumes, Close, auth, DataOK
  <1>10. CASE Flushed(r)
    BY <1>10, DieData DEF Flushed, auth, DataOK
  <1>11. CASE Finishes(r)
    BY <1>11, DieData DEF Finishes, Close, auth, DataOK
  <1>12. CASE \E s \in Sub \cup {None} : PostStarts(r, s)
    BY <1>12, DieData DEF PostStarts, auth, DataOK
  <1> QED
    BY <1>1, <1>2, <1>3, <1>4, <1>5, <1>6, <1>7, <1>8, <1>9, <1>10, <1>11, <1>12 DEF Step

(* The steps of the event loop, and those of the client's request alone.   *)
LEMMA DataLoop ==
  ASSUME DataOK,
         \/ SendBlocks \/ SendFails \/ FinishesTop \/ ClientGoes \/ UNCHANGED vars
         \/ (\E r \in Request : Event(r)) \/ (\E s \in Sub : Flushes(s)) \/ Receives \/ Frees
  PROVE  DataOK'
  <1>1. CASE SendBlocks \/ (\E r \in Request : Event(r)) \/ (\E s \in Sub : Flushes(s))
    BY <1>1 DEF SendBlocks, Event, Flushes, auth, DataOK
  <1>2. CASE SendFails \/ FinishesTop \/ ClientGoes
    BY <1>2, DieData DEF SendFails, FinishesTop, ClientGoes, Close, auth, DataOK
  <1>3. CASE UNCHANGED vars
    BY <1>3 DEF vars, DataOK
  <1>4. CASE Receives
    <2>1. /\ Top \in Request
          /\ state' = [state EXCEPT ![Top] = 0]
          /\ broken' = [broken EXCEPT ![Top] = FALSE]
          /\ status' = [status EXCEPT ![Top] = "none"]
          /\ guarded' = [guarded EXCEPT ![Top] = FALSE]
          /\ passed' = [passed EXCEPT ![Top] = FALSE]
          /\ answer' = [answer EXCEPT ![Top] = "none"]
          /\ UNCHANGED dead
      BY <1>4, Numbers DEF Receives, Request
    <2>2. "none" \in Status /\ 0 \in 0 .. 10
      BY DEF Status
    <2> QED
      BY <2>1, <2>2 DEF DataOK
  <1>5. CASE Frees
    <2> DEFINE Gone(q) == life[q] = "released"
    <2>1. /\ state' = [q \in Request |-> IF Gone(q) THEN 0 ELSE state[q]]
          /\ broken' = [q \in Request |-> IF Gone(q) THEN FALSE ELSE broken[q]]
          /\ status' = [q \in Request |-> IF Gone(q) THEN "none" ELSE status[q]]
          /\ guarded' = [q \in Request |-> IF Gone(q) THEN FALSE ELSE guarded[q]]
          /\ UNCHANGED dead
      BY <1>5, Numbers DEF Frees
    <2>2. /\ passed' = [q \in Request |-> IF Gone(q) THEN FALSE ELSE passed[q]]
          /\ answer' = [q \in Request |-> IF Gone(q) THEN "none" ELSE answer[q]]
      BY <1>5 DEF Frees
    <2> HIDE DEF Gone
    <2>3. "none" \in Status /\ 0 \in 0 .. 10
      BY DEF Status
    <2>4. state' \in [Request -> 0 .. 10] /\ status' \in [Request -> Status]
      BY <2>1, <2>3 DEF DataOK
    <2>5. answer' \in [Request -> Status]
      BY <2>2, <2>3 DEF DataOK
    <2>6. /\ broken' \in [Request -> BOOLEAN] /\ guarded' \in [Request -> BOOLEAN]
          /\ passed' \in [Request -> BOOLEAN]
      BY <2>1, <2>2 DEF DataOK
    <2> QED
      BY <2>1, <2>4, <2>5, <2>6 DEF DataOK
  <1> QED
    BY <1>1, <1>2, <1>3, <1>4, <1>5

-----------------------------------------------------------------------------
(***************************************************************************)
(* Every step keeps TreeInv.                                               *)
(***************************************************************************)
Lasting == UNCHANGED <<life, father, subrs, ctx, thread>>

LEMMA TypeParts ==
  ASSUME DataOK,
         life \in [Request -> {"none", "open", "finished", "released"}],
         father \in [Request -> Request \cup {None, Detached}],
         subrs \in [Request -> Seq(Sub)],
         ctx \in [Request -> Sub \cup {None}], thread \in [Request -> Sub \cup {None}],
         unsent \in SUBSET Sub, stack \in Seq(Frame)
  PROVE  TypeOK
  BY Numbers DEF TypeOK, DataOK

LEMMA LivesIs ==
  ASSUME NEW r \in Request, life[r] = "open"
  PROVE  r \in Living
  BY DEF Living

LEMMA LastingStep ==
  ASSUME TreeInv, Lasting
  PROVE  Held' /\ Frames /\ Living' = Living
  <1>1. Living' = Living
    BY DEF Lasting, Living
  <1> QED
    BY <1>1, SameStep DEF Lasting, TreeInv

LEMMA LastingTree ==
  ASSUME TreeInv, Lasting, DataOK', CallsOf',
         \A s \in unsent' : s \in Sub /\ s \in Living /\ father[s] \in Request
  PROVE  TreeInv'
  <1>1. Held' /\ Living' = Living
    BY LastingStep
  <1>2. Deferred'
    BY <1>1 DEF Deferred, Lasting
  <1>3. TypeOK'
    <2>1. /\ life' \in [Request -> {"none", "open", "finished", "released"}]
          /\ father' \in [Request -> Request \cup {None, Detached}]
          /\ subrs' \in [Request -> Seq(Sub)]
          /\ ctx' \in [Request -> Sub \cup {None}] /\ thread' \in [Request -> Sub \cup {None}]
      BY Types DEF TreeInv, Lasting
    <2>2. unsent' \in SUBSET Sub /\ stack' \in Seq(Frame)
      BY DEF CallsOf
    <2> QED
      BY <2>1, <2>2, Numbers DEF TypeOK, DataOK
  <1> QED
    BY <1>1, <1>2, <1>3 DEF TreeInv

LEMMA Unsent ==
  ASSUME TreeInv
  PROVE  \A s \in unsent : s \in Sub /\ s \in Living /\ father[s] \in Request
  BY Types DEF TreeInv, Deferred

(* It goes on with the next step of r, ...                                 *)
LEMMA RunsTree ==
  ASSUME TreeInv, NEW r \in Request, life[r] = "open", stack # <<>>, Call(<<Run(r)>>),
         Lasting, DataOK', \A s \in unsent' : s \in Sub /\ s \in Living /\ father[s] \in Request
  PROVE  TreeInv'
  <1>1. Frames /\ Living' = Living
    BY LastingStep
  <1>2. /\ Run(r) \in Frame /\ InFrame(Run(r))' /\ Run(r).who = r /\ r \in Living' \cup {Top}
    BY <1>1, LivesIs DEF InFrame, Run, Frame
  <1>3. CallsOf'
    BY <1>1, <1>2, CallOne DEF TreeInv
  <1> QED
    BY <1>3, LastingTree

(* ... or waits: it goes on with the subrequests of r.                     *)
LEMMA BlocksTree ==
  ASSUME TreeInv, NEW r \in Request, stack # <<>>, Block(r), Lasting, DataOK',
         \A s \in unsent' : s \in Sub /\ s \in Living /\ father[s] \in Request
  PROVE  TreeInv'
  <1>1. Frames
    BY LastingStep
  <1>2. FirstOf(subrs[r]) \in Request \cup {None} /\ InFrame(Post(r, FirstOf(subrs[r])))
    BY FirstIn DEF TreeInv, Held
  <1> DEFINE f == Post(r, FirstOf(subrs[r]))
  <1>3. f \in Frame /\ f.at = "post" /\ InFrame(f)
    BY <1>2, FrameIs
  <1>4. PICK g \in Frame : g = f /\ InFrame(g) /\ g.at = "post"
    BY <1>3
  <1>5. InFrame(g)'
    BY <1>1, <1>4 DEF Frames
  <1>6. Call(<<g>>)
    BY <1>4 DEF Block
  <1>7. CallsOf'
    BY <1>1, <1>4, <1>5, <1>6, CallOne DEF TreeInv
  <1> QED
    BY <1>7, LastingTree

LEMMA DieTree == TreeInv /\ Die => TreeInv'
  <1> SUFFICES ASSUME TreeInv, Die PROVE TreeInv'
    OBVIOUS
  <1>1. Lasting /\ UNCHANGED <<unsent, stack>>
    BY DEF Die, links, Lasting
  <1>2. Frames /\ Living' = Living
    BY <1>1, LastingStep
  <1>3. CallsOf'
    BY <1>1, <1>2, CallKept DEF TreeInv, CallsOf
  <1>4. DataOK'
    BY DieData, DataIs DEF TreeInv
  <1> QED
    BY <1>1, <1>3, <1>4, LastingTree, Unsent

(* A step of r that only asks for another run.                             *)
LEMMA RunStep ==
  ASSUME TreeInv, NEW r \in Request, DataOK',
         \/ Proceeds(r) \/ LocatesPath(r) \/ Generates(r) \/ AnswersError(r) \/ SendsHeaders(r)
         \/ Fails(r) \/ FailsLate(r) \/ Refuses(r)
  PROVE  TreeInv'
  <1>1. CASE Proceeds(r) \/ LocatesPath(r) \/ Generates(r) \/ AnswersError(r) \/ SendsHeaders(r)
    <2>1. life[r] = "open" /\ stack # <<>> /\ Call(<<Run(r)>>)
      BY <1>1 DEF Proceeds, LocatesPath, Generates, AnswersError, SendsHeaders,
                  HasOtherHandlers, At, Advance
    <2>2. Lasting /\ UNCHANGED unsent
      BY <1>1 DEF Proceeds, LocatesPath, Generates, AnswersError, SendsHeaders, Lasting, links
    <2> QED
      BY <2>1, <2>2, RunsTree, Unsent
  <1>2. CASE Fails(r) \/ FailsLate(r) \/ Refuses(r)
    <2>1. life[r] = "open" /\ stack # <<>> /\ Call(<<Run(r)>>)
      BY <1>2 DEF Fails, FailsLate, Refuses, Auth, HasOtherHandlers, At, BreakWith, Break
    <2>2. Lasting /\ UNCHANGED unsent
      BY <1>2 DEF Fails, FailsLate, Refuses, Lasting, links
    <2> QED
      BY <2>1, <2>2, RunsTree, Unsent
  <1> QED
    BY <1>1, <1>2

LEMMA WaitStep ==
  ASSUME TreeInv, NEW r \in Request, DataOK', Waits(r) \/ NotYet(r) \/ SendBlocks
  PROVE  TreeInv'
  <1>1. CASE Waits(r) \/ NotYet(r)
    <2>1. stack # <<>> /\ Block(r) /\ Lasting /\ UNCHANGED unsent
      BY <1>1 DEF Waits, NotYet, Auth, HasOtherHandlers, At, Lasting, links
    <2> QED
      BY <2>1, BlocksTree, Unsent
  <1>2. CASE SendBlocks
    <2>1. /\ stack # <<>> /\ Block(Top) /\ Lasting /\ UNCHANGED unsent
          /\ Top \in Request
      BY <1>2 DEF SendBlocks, At, Lasting, links, Request
    <2> QED
      BY <2>1, BlocksTree, Unsent
  <1> QED
    BY <1>1, <1>2

(* A living subrequest is run by its father, who lives.                    *)
LEMMA FatherLives ==
  ASSUME TreeInv, NEW r \in Sub, r \in Living, father[r] # Detached
  PROVE  father[r] \in Living /\ father[r] \in Request
  <1>1. r \in Living \ {Top}
    BY NullAssumption
  <1> QED
    BY <1>1 DEF TreeInv, Held, Lists, Living

LEMMA BodyStep ==
  ASSUME TreeInv, NEW r \in Request, DataOK', EndsBody(r) \/ WaitsForBody(r)
  PROVE  TreeInv'
  <1>1. Lasting /\ KeepsBody(r) /\ life[r] = "open" /\ stack # <<>>
    BY DEF EndsBody, WaitsForBody, Lasting, At
  <1>2. father[Top] = None /\ None \notin Request
    BY NullAssumption DEF TreeInv, Held, Lists
  <1>3. father[r] \in Request => r \in Sub /\ r \in Living
    BY <1>1, <1>2, LivesIs DEF Request
  <1>4. \A s \in unsent' : s \in Sub /\ s \in Living /\ father[s] \in Request
    BY <1>1, <1>3, Unsent DEF KeepsBody
  <1>5. CASE EndsBody(r)
    <2>1. Call(<<Run(r)>>)
      BY <1>5 DEF EndsBody, Advance
    <2> QED
      BY <1>1, <1>4, <2>1, RunsTree
  <1>6. CASE WaitsForBody(r)
    BY <1>1, <1>4, <1>6, BlocksTree DEF WaitsForBody
  <1> QED
    BY <1>5, <1>6

LEMMA FlushesBodyStep ==
  ASSUME TreeInv, NEW r \in Request, DataOK', FlushesBody(r)
  PROVE  TreeInv'
  <1>1. /\ r \in Sub /\ r \in Living /\ father[r] # Detached /\ stack # <<>>
        /\ unsent' = unsent \cup {r} /\ Call(<<Run(father[r]), Flush(r)>>) /\ Lasting
    BY LivesIs DEF FlushesBody, At, Lasting
  <1>2. father[r] \in Living /\ father[r] \in Request
    BY <1>1, FatherLives
  <1>3. Frames /\ Living' = Living
    BY <1>1, LastingStep
  <1>4. PICK q \in Request : q = father[r] /\ q \in Living
    BY <1>2
  <1>5. /\ Run(q) \in Frame /\ Flush(r) \in Frame /\ Run(q).who = q /\ Flush(r).at = "flush"
        /\ InFrame(Run(q))' /\ InFrame(Flush(r))'
    BY <1>1 DEF Run, Flush, Frame, InFrame
  <1>6. Call(<<Run(q), Flush(r)>>)
    BY <1>1, <1>4
  <1>7. CallsOf'
    BY <1>1, <1>3, <1>4, <1>5, <1>6, CallTwo DEF TreeInv
  <1>8. \A s \in unsent' : s \in Sub /\ s \in Living /\ father[s] \in Request
    BY <1>1, <1>2, Unsent
  <1> QED
    BY <1>1, <1>7, <1>8, LastingTree

LEMMA FlushedStep ==
  ASSUME TreeInv, NEW r \in Request, DataOK', Flushed(r)
  PROVE  TreeInv'
  <1>1. CASE life[r] = "released"
    BY <1>1, DieTree DEF Flushed
  <1>2. CASE life[r] # "released"
    <2>1. stack # <<>> /\ Block(r) /\ Lasting /\ UNCHANGED unsent
      BY <1>2 DEF Flushed, Lasting, links
    <2> QED
      BY <2>1, BlocksTree, Unsent
  <1> QED
    BY <1>1, <1>2

LEMMA ReturnStep ==
  ASSUME TreeInv, NEW r \in Request, DataOK',
         Returns(r) \/ \E s \in Sub \cup {None} : PostEnds(r, s)
  PROVE  TreeInv'
  <1>1. stack # <<>> /\ Call(<<>>) /\ Lasting /\ UNCHANGED unsent
    BY DEF Returns, PostEnds, AtPost, Lasting, links
  <1>2. CallsOf'
    BY <1>1, LastingStep, CallNone DEF TreeInv
  <1> QED
    BY <1>1, <1>2, LastingTree, Unsent

LEMMA FreshTree ==
  ASSUME TreeInv, NEW r \in Request, NEW s \in Sub, NEW f \in {r, Detached},
         r \in Living, Fresh(s, r, f), DataOK', UNCHANGED unsent,
         \/ UNCHANGED <<ctx, thread>>
         \/ ctx[r] = None /\ ctx' = [ctx EXCEPT ![r] = s] /\ f = r /\ UNCHANGED thread
         \/ thread[r] = None /\ thread' = [thread EXCEPT ![r] = s] /\ f = r /\ UNCHANGED ctx,
         Held' /\ Frames => CallsOf'
  PROVE  TreeInv'
  <1>1. Held' /\ Frames
    BY FreshHeld DEF TreeInv
  <1>2. CallsOf'
    BY <1>1
  <1>3. /\ life[s] = "none" /\ life' = [life EXCEPT ![s] = "open"]
        /\ father' = [father EXCEPT ![s] = f]
        /\ subrs' = [subrs EXCEPT ![r] = <<s>> \o @]
    BY DEF Fresh
  <1>4. subrs' \in [Request -> Seq(Sub)]
    BY <1>3, FreshLists DEF TreeInv, Held
  <1>5. /\ life' \in [Request -> {"none", "open", "finished", "released"}]
        /\ father' \in [Request -> Request \cup {None, Detached}]
    BY <1>3, Types DEF TreeInv
  <1>6. ctx' \in [Request -> Sub \cup {None}] /\ thread' \in [Request -> Sub \cup {None}]
    BY Types DEF TreeInv
  <1>7. unsent' \in SUBSET Sub /\ stack' \in Seq(Frame)
    BY <1>2, Types DEF TreeInv, CallsOf
  <1>8. TypeOK'
    BY <1>4, <1>5, <1>6, <1>7, Numbers DEF TypeOK, DataOK
  <1>9. \A q \in Living : q \in Request /\ q # s /\ q \in Living' /\ father'[q] = father[q]
    BY <1>3, Types DEF TreeInv, Living
  <1>10. Deferred'
    BY <1>9 DEF TreeInv, Deferred
  <1> QED
    BY <1>1, <1>2, <1>8, <1>10 DEF TreeInv

LEMMA FreshStepTree ==
  ASSUME TreeInv, NEW r \in Request, DataOK', Asks(r) \/ Subrequests(r) \/ Detaches(r)
  PROVE  TreeInv'
  <1>1. r \in Living /\ stack # <<>> /\ Head(stack) = Run(r)
    BY LivesIs DEF Asks, Subrequests, Detaches, Auth, HasOtherHandlers, At
  <1>2. ASSUME NEW s \in Sub, Fresh(s, r, r), Call(<<Post(r, s)>>), Held', Frames
        PROVE  CallsOf'
    <2>1. life'[s] = "open" /\ In(subrs', s, r)
      <3>1. life[s] = "none" /\ subrs' = [subrs EXCEPT ![r] = <<s>> \o @]
        BY <1>2 DEF Fresh
      <3>2. In(subrs', s, r)
        BY <1>1, <3>1, FreshLists DEF TreeInv, Held
      <3>3. s \in Request /\ life' = [life EXCEPT ![s] = "open"]
        BY <1>2 DEF Fresh, Request
      <3> QED
        BY <3>2, <3>3, Types DEF TreeInv
    <2>2. /\ Post(r, s) \in Frame /\ Post(r, s).at = "post" /\ Post(r, s).subr = s
          /\ Post(r, s).who = r
      BY DEF Post, Frame, Request
    <2>3. InFrame(Post(r, s))'
      BY <2>1, <2>2 DEF InFrame, Post
    <2> QED
      BY <1>1, <1>2, <2>2, <2>3, CallOne DEF TreeInv
  <1>3. CASE Asks(r)
    <2>1. PICK s \in Sub : Fresh(s, r, r) /\ ctx' = [ctx EXCEPT ![r] = s] /\ Call(<<Post(r, s)>>)
      BY <1>3 DEF Asks
    <2>2. ctx[r] = None /\ UNCHANGED <<thread, unsent>>
      BY <1>3 DEF Asks
    <2> QED
      BY <1>1, <1>2, <2>1, <2>2, FreshTree
  <1>4. CASE Subrequests(r)
    <2>1. PICK s \in Sub :
             Fresh(s, r, r) /\ thread' = [thread EXCEPT ![r] = s] /\ Call(<<Post(r, s)>>)
      BY <1>4 DEF Subrequests
    <2>2. thread[r] = None /\ UNCHANGED <<ctx, unsent>>
      BY <1>4 DEF Subrequests, HasOtherHandlers
    <2> QED
      BY <1>1, <1>2, <2>1, <2>2, FreshTree
  <1>5. CASE Detaches(r)
    <2>1. PICK s \in Sub : Fresh(s, r, Detached)
      BY <1>5 DEF Detaches
    <2>2. UNCHANGED <<ctx, thread, unsent, stack>>
      BY <1>5 DEF Detaches
    <2>3. life' = [life EXCEPT ![s] = "open"]
      BY <2>1 DEF Fresh
    <2>4. r \in Living'
      BY <1>1, <2>3, Types DEF TreeInv, Living
    <2>5. Head(stack).who = r
      BY <1>1 DEF Run
    <2>6. Held' /\ Frames => CallsOf'
      BY <2>2, <2>4, <2>5, CallKept DEF TreeInv
    <2> QED
      BY <1>1, <2>1, <2>2, <2>6, FreshTree
  <1> QED
    BY <1>3, <1>4, <1>5

(* Something is released by a call that then goes on or returns.           *)
LEMMA ReleaseTree ==
  ASSUME TreeInv, NEW x \in Request, ~KillsWaiting(x), Release(x), UNCHANGED father, DataOK',
         ctx' \in [Request -> Sub \cup {None}], thread' \in [Request -> Sub \cup {None}],
         \A q \in Request : ctx'[q] \in {None, ctx[q]} /\ thread'[q] \in {None, thread[q]},
         \A q \in Living \ Family(x) : ctx'[q] # x /\ thread'[q] # x,
         Frames /\ Living' = Living \ Family(x) => CallsOf'
  PROVE  TreeInv'
  <1>1. /\ life' \in [Request -> {"none", "open", "finished", "released"}]
        /\ subrs' \in [Request -> Seq(Sub)]
        /\ Living' = Living \ Family(x)
        /\ unsent' = unsent \ Family(x)
    BY ReleaseLists DEF TreeInv, Held
  <1>2. Held' /\ Frames
    BY ReleaseHeld DEF TreeInv
  <1>3. CallsOf'
    BY <1>1, <1>2
  <1>4. Deferred'
    BY <1>1 DEF TreeInv, Deferred
  <1>5. father' \in [Request -> Request \cup {None, Detached}]
    BY Types DEF TreeInv
  <1>6. unsent' \in SUBSET Sub /\ stack' \in Seq(Frame)
    BY <1>1, <1>3, Types DEF TreeInv, CallsOf
  <1>7. TypeOK'
    BY <1>1, <1>5, <1>6, Numbers DEF TypeOK, DataOK
  <1> QED
    BY <1>2, <1>3, <1>4, <1>7 DEF TreeInv

(* What a living request waits for is its own, and it is not below it.     *)
LEMMA OwnSubrequest ==
  ASSUME TreeInv, NEW r \in Request, r \in Living, NEW s \in Sub, s = ctx[r] \/ s = thread[r]
  PROVE  /\ father[s] = r /\ r \notin Family(s)
         /\ \A q \in Living : q # r => ctx[q] # s /\ thread[q] # s
  <1>1. In(subrs, s, r) /\ father[s] = r
    BY DEF TreeInv, Held, Awaited
  <1>2. r \notin Family(s)
    BY <1>1 DEF TreeInv, Held, Below
  <1>3. \A q \in Living : q # r => ctx[q] # s /\ thread[q] # s
    BY <1>1 DEF TreeInv, Held, Awaited
  <1> QED
    BY <1>1, <1>2, <1>3

LEMMA GrantTree ==
  ASSUME TreeInv, NEW r \in Request, DataOK', Grants(r)
  PROVE  TreeInv'
  <1> DEFINE x == ctx[r]
  <1>1. r \in Living /\ stack # <<>> /\ Head(stack) = Run(r) /\ ctx[r] # None
    BY LivesIs DEF Grants, GrantsWith, Auth, At
  <1>2. x \in Sub /\ x \in Request
    BY <1>1, Types DEF TreeInv, Request
  <1>3. CASE KillsWaiting(x)
    BY <1>3, DieTree DEF Grants, GrantsWith, Close
  <1>4. CASE ~KillsWaiting(x)
    <2>1. Release(x) /\ ctx' = [ctx EXCEPT ![r] = None] /\ UNCHANGED <<thread, stack, father>>
      BY <1>4 DEF Grants, GrantsWith, Close
    <2>2. /\ r \notin Family(x)
          /\ \A q \in Living : q # r => ctx[q] # x /\ thread[q] # x
      BY <1>1, <1>2, OwnSubrequest
    <2>3. ctx' \in [Request -> Sub \cup {None}] /\ thread' \in [Request -> Sub \cup {None}]
      BY <2>1, Types DEF TreeInv
    <2>4. \A q \in Request : ctx'[q] = IF q = r THEN None ELSE ctx[q]
      BY <2>1, Types DEF TreeInv
    <2>5. thread[r] # x
      BY <1>1 DEF TreeInv, Held, Awaited
    <2>6. None # x
      BY <1>1
    <2>7. \A q \in Living \ Family(x) : ctx'[q] # x /\ thread'[q] # x
      BY <2>1, <2>2, <2>4, <2>5, <2>6 DEF Living
    <2>8. Frames /\ Living' = Living \ Family(x) => CallsOf'
      <3>1. Head(stack).who = r
        BY <1>1 DEF Run
      <3> QED
        BY <1>1, <2>1, <2>2, <3>1, CallKept DEF TreeInv
    <2> HIDE DEF x
    <2>9. \A q \in Request : ctx'[q] \in {None, ctx[q]} /\ thread'[q] \in {None, thread[q]}
      BY <2>1, <2>4
    <2> QED
      BY <1>2, <1>4, <2>1, <2>3, <2>7, <2>8, <2>9, ReleaseTree
  <1> QED
    BY <1>3, <1>4

LEMMA ResumeTree ==
  ASSUME TreeInv, NEW r \in Request, DataOK', Resumes(r)
  PROVE  TreeInv'
  <1> DEFINE x == thread[r]
  <1>1. r \in Living /\ stack # <<>> /\ Head(stack) = Run(r) /\ thread[r] # None
    BY LivesIs DEF Resumes, At
  <1>2. x \in Sub /\ x \in Request
    BY <1>1, Types DEF TreeInv, Request
  <1>3. CASE KillsWaiting(x)
    BY <1>3, DieTree DEF Resumes, Close
  <1>4. CASE ~KillsWaiting(x)
    <2>1. Release(x) /\ thread' = [thread EXCEPT ![r] = None] /\ UNCHANGED <<ctx, stack, father>>
      BY <1>4 DEF Resumes, Close
    <2>2. /\ r \notin Family(x)
          /\ \A q \in Living : q # r => ctx[q] # x /\ thread[q] # x
      BY <1>1, <1>2, OwnSubrequest
    <2>3. ctx' \in [Request -> Sub \cup {None}] /\ thread' \in [Request -> Sub \cup {None}]
      BY <2>1, Types DEF TreeInv
    <2>4. \A q \in Request : thread'[q] = IF q = r THEN None ELSE thread[q]
      BY <2>1, Types DEF TreeInv
    <2>5. ctx[r] # x
      BY <1>1 DEF TreeInv, Held, Awaited
    <2>6. None # x
      BY <1>1
    <2>7. \A q \in Living \ Family(x) : ctx'[q] # x /\ thread'[q] # x
      BY <2>1, <2>2, <2>4, <2>5, <2>6 DEF Living
    <2>8. Frames /\ Living' = Living \ Family(x) => CallsOf'
      <3>1. Head(stack).who = r
        BY <1>1 DEF Run
      <3> QED
        BY <1>1, <2>1, <2>2, <3>1, CallKept DEF TreeInv
    <2> HIDE DEF x
    <2>9. \A q \in Request : ctx'[q] \in {None, ctx[q]} /\ thread'[q] \in {None, thread[q]}
      BY <2>1, <2>4
    <2> QED
      BY <1>2, <1>4, <2>1, <2>3, <2>7, <2>8, <2>9, ReleaseTree
  <1> QED
    BY <1>3, <1>4

(* Nobody waits for the client's request, or for one that is detached.     *)
LEMMA CloseTree ==
  ASSUME TreeInv, NEW x \in Request, x = Top \/ father[x] = Detached, DataOK',
         ~KillsWaiting(x), Release(x), UNCHANGED <<father, ctx, thread>>,
         \/ stack # <<>> /\ Call(<<>>)
         \/ stack = <<>> /\ UNCHANGED stack
  PROVE  TreeInv'
  <1>1. \A q \in Living : ctx[q] # x /\ thread[q] # x
    <2>1. \A q \in Living : q # Detached
      BY NullAssumption DEF Living
    <2>2. x = Top => x \notin Sub \cup {None}
      BY NullAssumption DEF Request
    <2>3. ctx \in [Request -> Sub \cup {None}] /\ thread \in [Request -> Sub \cup {None}]
      BY Types DEF TreeInv
    <2>4. None # x
      BY NullAssumption
    <2>5. \A q \in Living : q \in Request
      BY DEF Living
    <2>6. ASSUME NEW q \in Living, ctx[q] = x \/ thread[q] = x PROVE FALSE
      <3>1. x \in Sub
        BY <2>3, <2>4, <2>5, <2>6
      <3>2. father[x] = q
        BY <2>6, <3>1 DEF TreeInv, Held, Awaited
      <3> QED
        BY <2>1, <2>2, <3>1, <3>2
    <2> QED
      BY <2>6
  <1>2. ctx' \in [Request -> Sub \cup {None}] /\ thread' \in [Request -> Sub \cup {None}]
    BY Types DEF TreeInv
  <1>3. Frames => CallsOf'
    BY CallNone, CallKept DEF TreeInv
  <1> QED
    BY <1>1, <1>2, <1>3, ReleaseTree

LEMMA ClosesTop ==
  ASSUME TreeInv, DataOK', SendFails \/ FinishesTop \/ ClientGoes
  PROVE  TreeInv'
  <1>1. CASE KillsWaiting(Top)
    BY <1>1, DieTree DEF SendFails, FinishesTop, ClientGoes, Close
  <1>2. CASE ~KillsWaiting(Top)
    <2>1. Release(Top) /\ UNCHANGED <<father, ctx, thread>> /\ Top \in Request
      BY <1>2 DEF SendFails, FinishesTop, ClientGoes, Close, Request
    <2>2. CASE SendFails \/ FinishesTop
      <3>1. stack # <<>>
        BY <2>2 DEF SendFails, FinishesTop, At
      <3>2. stack' = Tail(stack) \/ Call(<<>>)
        BY <1>2, <2>2 DEF SendFails, FinishesTop, Close
      <3>3. Tail(stack) \in Seq(Frame)
        BY <3>1 DEF TreeInv, CallsOf
      <3>4. <<>> \o Tail(stack) = Tail(stack)
        BY <3>3
      <3>5. Call(<<>>)
        BY <3>2, <3>4 DEF Call
      <3> QED
        BY <1>2, <2>1, <3>1, <3>5, CloseTree
    <2>3. CASE ClientGoes
      <3>1. stack = <<>> /\ UNCHANGED stack
        BY <1>2, <2>3 DEF ClientGoes, Idle, Close
      <3> QED
        BY <1>2, <2>1, <3>1, CloseTree
    <2> QED
      BY <2>2, <2>3
  <1> QED
    BY <1>1, <1>2

LEMMA FinishTree ==
  ASSUME TreeInv, NEW r \in Request, DataOK', Finishes(r)
  PROVE  TreeInv'
  <1>1. r \in Sub /\ r \in Living /\ life[r] = "open" /\ stack # <<>>
    BY LivesIs DEF Finishes, At
  <1>2. CASE father[r] = Detached
    <2>1. CASE KillsWaiting(r)
      BY <1>2, <2>1, DieTree DEF Finishes, Close
    <2>2. CASE ~KillsWaiting(r)
      <3>1. Release(r) /\ UNCHANGED <<father, ctx, thread>> /\ Call(<<>>)
        BY <1>2, <2>2 DEF Finishes, Close
      <3> QED
        BY <1>1, <1>2, <2>2, <3>1, CloseTree
    <2> QED
      BY <2>1, <2>2
  <1>3. CASE father[r] # Detached
    <2>1. /\ life' = [life EXCEPT ![r] = "finished"]
          /\ UNCHANGED <<subrs, father, ctx, thread, unsent>>
          /\ Call(<<Run(father[r])>>)
      BY <1>3 DEF Finishes, links
    <2>2. /\ Living' = Living /\ \A q \in Request : life'[q] = "none" <=> life[q] = "none"
          /\ life' \in [Request -> {"none", "open", "finished", "released"}]
      BY <1>1, <2>1, Types DEF TreeInv, Living
    <2>3. Held' /\ Frames
      BY <2>1, <2>2, SameStep DEF TreeInv
    <2>4. PICK q \in Request : q = father[r] /\ q \in Living
      BY <1>1, <1>3, FatherLives
    <2>5. Run(q) \in Frame /\ Run(q).who = q /\ InFrame(Run(q))'
      BY DEF Run, Frame, InFrame
    <2>6. Call(<<Run(q)>>)
      BY <2>1, <2>4
    <2>7. CallsOf'
      BY <1>1, <2>2, <2>3, <2>4, <2>5, <2>6, CallOne DEF TreeInv
    <2>8. Deferred'
      BY <2>1, <2>2 DEF TreeInv, Deferred
    <2>9. TypeOK'
      <3>1. /\ father' \in [Request -> Request \cup {None, Detached}]
            /\ subrs' \in [Request -> Seq(Sub)]
            /\ ctx' \in [Request -> Sub \cup {None}] /\ thread' \in [Request -> Sub \cup {None}]
            /\ unsent' \in SUBSET Sub /\ stack' \in Seq(Frame)
        BY <2>1, <2>7, Types DEF TreeInv, CallsOf
      <3> QED
        BY <2>2, <3>1, Numbers DEF TypeOK, DataOK
    <2> QED
      BY <2>3, <2>7, <2>8, <2>9 DEF TreeInv
  <1> QED
    BY <1>2, <1>3

(* phl_request_run_post(): the next new one is moved, and runs.            *)
LEMMA PostStartTree ==
  ASSUME TreeInv, NEW r \in Request, NEW s \in Sub \cup {None}, DataOK', PostStarts(r, s)
  PROVE  TreeInv'
  <1>1. /\ s # None /\ stack # <<>> /\ Head(stack) = Post(r, s)
    BY DEF PostStarts, AtPost
  <1>2. CASE life[s] = "released"
    BY <1>2, DieTree DEF PostStarts
  <1>3. CASE life[s] # "released"
    <2>1. /\ subrs' = [subrs EXCEPT ![r] = Append(Without(@, s), s)]
          /\ Call(<<Run(s), Post(r, After(subrs[r], s))>>)
          /\ UNCHANGED <<life, father, ctx, thread, unsent>>
      BY <1>3 DEF PostStarts, links
    <2>2. s \in Sub /\ s \in Request
      BY <1>1 DEF Request
    <2>3. PICK g \in Frame : g = Post(r, s) /\ InFrame(g)
      BY <1>1 DEF TreeInv, CallsOf, Calls
    <2>4. g.at = "post" /\ g.subr = s /\ g.who = r
      BY <2>3 DEF Post
    <2>5. s \in Living /\ In(subrs, s, r)
      <3>1. life[s] # "none" /\ (s \in Living => In(subrs, s, r))
        BY <1>1, <2>3, <2>4 DEF InFrame
      <3>2. s \in Living
        BY <1>3, <2>2, <3>1, Types DEF TreeInv, Living
      <3> QED
        BY <3>1, <3>2
    <2>6. Held' /\ Frames /\ subrs' \in [Request -> Seq(Sub)]
      BY <2>1, <2>2, <2>5, MoveHeld DEF TreeInv
    <2>7. Living' = Living
      BY <2>1 DEF Living
    <2>8. /\ After(subrs[r], s) \in Request \cup {None}
          /\ InFrame(Post(r, After(subrs[r], s)))
      BY <2>5, AfterIn DEF TreeInv, Held
    <2>9. PICK f \in Frame : f = Post(r, After(subrs[r], s)) /\ f.at = "post" /\ InFrame(f)
      BY <2>8, FrameIs
    <2>10. InFrame(f)'
      BY <2>6, <2>9 DEF Frames
    <2>11. Run(s) \in Frame /\ Run(s).who = s /\ InFrame(Run(s))'
      BY <2>2 DEF Run, Frame, InFrame
    <2>12. Call(<<Run(s), f>>)
      BY <2>1, <2>9
    <2>13. CallsOf'
      BY <1>1, <2>5, <2>6, <2>7, <2>9, <2>10, <2>11, <2>12, CallTwo DEF TreeInv
    <2>14. Deferred'
      BY <2>1, <2>7 DEF TreeInv, Deferred
    <2>15. TypeOK'
      <3>1. /\ father' \in [Request -> Request \cup {None, Detached}]
            /\ life' \in [Request -> {"none", "open", "finished", "released"}]
            /\ ctx' \in [Request -> Sub \cup {None}] /\ thread' \in [Request -> Sub \cup {None}]
            /\ unsent' \in SUBSET Sub /\ stack' \in Seq(Frame)
        BY <2>1, <2>13, Types DEF TreeInv, CallsOf
      <3> QED
        BY <2>6, <3>1, Numbers DEF TypeOK, DataOK
    <2> QED
      BY <2>6, <2>13, <2>14, <2>15 DEF TreeInv
  <1> QED
    BY <1>2, <1>3

(* The handlers of events.                                                 *)
LEMMA HandlerTree ==
  ASSUME TreeInv, DataOK', (\E r \in Request : Event(r)) \/ (\E s \in Sub : Flushes(s))
  PROVE  TreeInv'
  <1>1. ASSUME NEW r \in Request, Event(r) PROVE TreeInv'
    <2>1. life[r] = "open" /\ stack' = <<Run(r)>> /\ Lasting /\ UNCHANGED unsent
      BY <1>1 DEF Event, Lasting, links
    <2>2. CallsOf'
      BY <2>1, LivesIs, LastingStep, CallFirst
    <2> QED
      BY <2>1, <2>2, LastingTree, Unsent
  <1>2. ASSUME NEW s \in Sub, Flushes(s) PROVE TreeInv'
    <2>1. s \in unsent /\ unsent' = unsent \ {s} /\ stack' = <<Run(father[s])>> /\ Lasting
      BY <1>2 DEF Flushes, Lasting
    <2>2. s \in Living /\ father[s] \in Request /\ father[s] # Detached
      BY <2>1, NullAssumption DEF TreeInv, Deferred
    <2>3. PICK q \in Request : q = father[s] /\ q \in Living
      BY <2>2, FatherLives
    <2>4. stack' = <<Run(q)>>
      BY <2>1, <2>3
    <2>5. CallsOf'
      BY <2>1, <2>3, <2>4, LastingStep, CallFirst
    <2> QED
      BY <2>1, <2>5, LastingTree, Unsent
  <1> QED
    BY <1>1, <1>2

LEMMA ReceiveTree ==
  ASSUME TreeInv, DataOK', Receives
  PROVE  TreeInv'
  <1>1. /\ Held' /\ Frames
        /\ life' \in [Request -> {"none", "open", "finished", "released"}]
    BY ReceivesHeld DEF TreeInv
  <1>2. UNCHANGED <<subrs, father, ctx, thread, unsent>> /\ stack' = <<Run(Top)>>
    BY DEF Receives, links
  <1>3. CallsOf'
    BY <1>2, CallFirst DEF Request
  <1>4. Living \subseteq Living'
    BY Types DEF Receives, Living, TreeInv
  <1>5. Deferred'
    BY <1>2, <1>4 DEF TreeInv, Deferred
  <1>6. TypeOK'
    <2>1. /\ father' \in [Request -> Request \cup {None, Detached}]
          /\ subrs' \in [Request -> Seq(Sub)]
          /\ ctx' \in [Request -> Sub \cup {None}] /\ thread' \in [Request -> Sub \cup {None}]
          /\ unsent' \in SUBSET Sub /\ stack' \in Seq(Frame)
      BY <1>2, <1>3, Types DEF TreeInv, CallsOf
    <2> QED
      BY <1>1, <2>1, Numbers DEF TypeOK, DataOK
  <1> QED
    BY <1>1, <1>3, <1>5, <1>6 DEF TreeInv

LEMMA FreeTree ==
  ASSUME TreeInv, DataOK', Frees
  PROVE  TreeInv'
  <1>1. /\ Held' /\ UNCHANGED <<subrs, thread, unsent, stack>> /\ Living' = Living
        /\ life' \in [Request -> {"none", "open", "finished", "released"}]
        /\ father' \in [Request -> Request \cup {None, Detached}]
        /\ ctx' \in [Request -> Sub \cup {None}]
        /\ \A q \in Living : father'[q] = father[q]
    BY FreesHeld DEF TreeInv
  <1>2. stack = <<>>
    BY DEF Frees, Idle
  <1>3. CallsOf'
    BY <1>1, <1>2 DEF TreeInv, CallsOf, Calls
  <1>4. Deferred'
    BY <1>1 DEF TreeInv, Deferred
  <1>5. TypeOK'
    <2>1. /\ subrs' \in [Request -> Seq(Sub)] /\ thread' \in [Request -> Sub \cup {None}]
          /\ unsent' \in SUBSET Sub /\ stack' \in Seq(Frame)
      BY <1>1, <1>3, Types DEF TreeInv, CallsOf
    <2> QED
      BY <1>1, <2>1, Numbers DEF TypeOK, DataOK
  <1> QED
    BY <1>1, <1>3, <1>4, <1>5 DEF TreeInv

LEMMA TreeInit == Init => TreeInv
  <1> SUFFICES ASSUME Init PROVE TreeInv
    OBVIOUS
  <1>1. TypeOK
    <2>1. DataOK
      <3>1. "none" \in Status /\ ReceiveHeaders \in 0 .. 10
        BY Numbers DEF Status
      <3> QED
        BY <3>1 DEF Init, DataOK
    <2>2. /\ life \in [Request -> {"none", "open", "finished", "released"}]
          /\ father \in [Request -> Request \cup {None, Detached}]
          /\ ctx \in [Request -> Sub \cup {None}] /\ thread \in [Request -> Sub \cup {None}]
          /\ unsent \in SUBSET Sub
      BY DEF Init
    <2>3. subrs \in [Request -> Seq(Sub)] /\ stack \in Seq(Frame)
      BY DEF Init
    <2> QED
      BY <2>1, <2>2, <2>3, TypeParts
  <1>2. \A r \in Request : \A s : ~In(subrs, s, r)
    BY DEF Init, In, Has
  <1>3. Living = {}
    BY DEF Init, Living
  <1>4. Lists
    BY <1>2, <1>3 DEF Init, Lists, Request
  <1>5. Below
    BY <1>2 DEF Below
  <1>6. Awaited
    BY <1>3 DEF Init, Awaited
  <1>7. CallsOf /\ Deferred
    BY DEF Init, CallsOf, Calls, Deferred
  <1> QED
    BY <1>1, <1>4, <1>5, <1>6, <1>7 DEF TreeInv, Held

LEMMA TreeStep == TreeInv /\ [Next]_vars => TreeInv'
  <1> SUFFICES ASSUME TreeInv, [Next]_vars PROVE TreeInv'
    OBVIOUS
  <1>1. DataOK
    BY DataIs DEF TreeInv
  <1>2. ASSUME NEW r \in Request, Step(r) PROVE TreeInv'
    <2>1. DataOK'
      BY <1>1, <1>2, DataStep
    <2>2. CASE \/ Proceeds(r) \/ LocatesPath(r) \/ Generates(r) \/ AnswersError(r)
               \/ SendsHeaders(r) \/ Fails(r) \/ FailsLate(r) \/ Refuses(r)
      BY <2>1, <2>2, RunStep
    <2>3. CASE Waits(r) \/ NotYet(r)
      BY <2>1, <2>3, WaitStep
    <2>4. CASE WaitsLinked(r) \/ Redirects(r) \/ AsksWithoutMemory(r)
      BY <2>4, DieTree DEF WaitsLinked, Redirects, AsksWithoutMemory
    <2>5. CASE Asks(r) \/ Subrequests(r) \/ Detaches(r)
      BY <2>1, <2>5, FreshStepTree
    <2>6. CASE Grants(r) \/ Resumes(r)
      BY <2>1, <2>6, GrantTree, ResumeTree
    <2>7. CASE EndsBody(r) \/ WaitsForBody(r)
      BY <2>1, <2>7, BodyStep
    <2>8. CASE FlushesBody(r) \/ Flushed(r)
      BY <2>1, <2>8, FlushesBodyStep, FlushedStep
    <2>9. CASE Finishes(r)
      BY <2>1, <2>9, FinishTree
    <2>10. CASE Returns(r) \/ \E s \in Sub \cup {None} : PostEnds(r, s)
      BY <2>1, <2>10, ReturnStep
    <2>11. CASE \E s \in Sub \cup {None} : PostStarts(r, s)
      BY <2>1, <2>11, PostStartTree
    <2> QED
      BY <1>2, <2>2, <2>3, <2>4, <2>5, <2>6, <2>7, <2>8, <2>9, <2>10, <2>11 DEF Step
  <1>3. CASE \/ SendBlocks \/ SendFails \/ FinishesTop \/ ClientGoes \/ Receives \/ Frees
             \/ (\E r \in Request : Event(r)) \/ (\E s \in Sub : Flushes(s))
    <2>1. DataOK'
      BY <1>1, <1>3, DataLoop
    <2>2. Top \in Request
      BY DEF Request
    <2>3. CASE SendBlocks
      BY <2>1, <2>2, <2>3, WaitStep
    <2>4. CASE SendFails \/ FinishesTop \/ ClientGoes
      BY <2>1, <2>4, ClosesTop
    <2>5. CASE Receives
      BY <2>1, <2>5, ReceiveTree
    <2>6. CASE Frees
      BY <2>1, <2>6, FreeTree
    <2>7. CASE (\E r \in Request : Event(r)) \/ (\E s \in Sub : Flushes(s))
      BY <2>1, <2>7, HandlerTree
    <2> QED
      BY <1>3, <2>3, <2>4, <2>5, <2>6, <2>7
  <1>4. CASE UNCHANGED vars
    <2>1. DataOK' /\ Lasting /\ UNCHANGED <<unsent, stack>>
      BY <1>1, <1>4, DataLoop DEF vars, Lasting
    <2>2. CallsOf'
      BY <2>1, LastingStep, CallKept DEF TreeInv, CallsOf
    <2> QED
      BY <2>1, <2>2, LastingTree, Unsent
  <1> QED
    BY <1>2, <1>3, <1>4 DEF Next

LEMMA TreeInvImpliesTree == TreeInv => Tree
  <1> SUFFICES ASSUME TreeInv PROVE Tree
    OBVIOUS
  <1>1. \A s \in Living \ {Top} : \E r \in Living :
           \E i \in DOMAIN subrs[r] : subrs[r][i] = s /\ father[s] \in {r, Detached}
    <2> SUFFICES ASSUME NEW s \in Living \ {Top}
                 PROVE  \E r \in Living : \E i \in DOMAIN subrs[r] :
                            subrs[r][i] = s /\ father[s] \in {r, Detached}
      OBVIOUS
    <2>1. PICK r \in Request : In(subrs, s, r) /\ father[s] \in {r, Detached}
      BY DEF TreeInv, Held, Lists
    <2>2. s \in Sub
      BY DEF Living, Request
    <2>3. r \in Living
      BY <2>1, <2>2 DEF TreeInv, Held, Lists
    <2> QED
      BY <2>1, <2>3 DEF In, Has
  <1>2. ASSUME NEW r \in Request, NEW q \in Request,
               NEW i \in DOMAIN subrs[r], NEW j \in DOMAIN subrs[q]
        PROVE  /\ r \in Living /\ subrs[r][i] \in Living
               /\ subrs[r][i] = subrs[q][j] => r = q /\ i = j
    <2>1. subrs[r][i] \in Sub /\ In(subrs, subrs[r][i], r) /\ In(subrs, subrs[q][j], q)
      BY Types DEF TreeInv, In, Has
    <2>2. r \in Living /\ subrs[r][i] \in Living
      BY <2>1 DEF TreeInv, Held, Lists
    <2>3. ASSUME subrs[r][i] = subrs[q][j] PROVE r = q /\ i = j
      <3>1. r = q
        BY <2>1, <2>3 DEF TreeInv, Held, Lists
      <3> QED
        BY <2>3, <3>1 DEF TreeInv, Held, Lists
    <2> QED
      BY <2>2, <2>3
  <1>3. Linked
    BY <1>1, <1>2 DEF Linked
  <1>4. InUse
    BY DEF TreeInv, CallsOf, Deferred, InUse
  <1> QED
    BY <1>3, <1>4 DEF TreeInv, Tree

(* Through nested runs and closes, each subrequest that lives is in one    *)
(* list, that of its father unless it is detached, and memory of requests  *)
(* and connections is used only as long as they live (phl_request.c:146,   *)
(* 161, 587).  This is said until the worker uses freed memory, or         *)
(* phl_dynamic_get() appends a request that is in a list already.          *)
THEOREM TreeHolds == Spec => []Tree
  <1>1. Spec => []TreeInv
    BY TreeInit, TreeStep, PTL DEF Spec
  <1> QED BY <1>1, TreeInvImpliesTree, PTL

-----------------------------------------------------------------------------
(***************************************************************************)
(* The inductive invariant of NotForgotten, beside TreeInv.                *)
(***************************************************************************)
(* Who is answered has a status.                                           *)
Told ==
    \A r \in Living : state[r] > ResponseHeaders1 \/ broken[r] => status[r] # "none"

(* Who waits does not move meanwhile.                                      *)
Stays ==
    \A r \in Living :
        /\ thread[r] # None =>
              life[r] = "open" /\ state[r] = ResponseHeaders1 /\ ~broken[r]
        /\ ctx[r] # None => guarded[r] /\ ~passed[r] /\ state[r] >= ProcessHeaders

Awaits(r, s) ==
    /\ life[r] = "open"
    /\ s \in Sub
    /\ s = thread[r] \/ (state[r] = ProcessHeaders /\ s = ctx[r])

Ready(s) == life[s] = "open" /\ state[s] \notin {LocateConfHost, Done}

(* What is waited for is under way, or the innermost call is the one that  *)
(* starts it, ends it or tells of its end.                                 *)
UnderWay(r, s) ==
    \/ Ready(s)
    \/ /\ stack # <<>>
       /\ \/ /\ life[s] = "open" /\ state[s] = LocateConfHost
             /\ Head(stack) = Post(r, s) \/ Head(stack) = Run(s)
          \/ life[s] = "open" /\ state[s] = Done /\ Head(stack) = Run(s)
          \/ life[s] = "finished" /\ state[s] = Done /\ Head(stack) = Run(r)

Remembered == \A r \in Request : \A s \in Sub : Awaits(r, s) => UnderWay(r, s)

WaitInv == Told /\ Stays /\ Remembered

LEMMA FramesDiffer ==
  ASSUME NEW r, NEW q, NEW s, NEW t
  PROVE  /\ Run(r) = Run(q) => r = q
         /\ Post(r, s) = Post(q, t) => r = q /\ s = t
         /\ Run(r) # Post(q, t) /\ Run(r) # Flush(q) /\ Post(r, s) # Flush(q)
  BY DEF Run, Post, Flush

LEMMA SubIs == \A s \in Sub : s \in Request /\ s # None /\ s # Detached /\ s # Top
  BY NullAssumption DEF Request

(* What r waits for depends on where it is.                                *)
LEMMA WaitsAt ==
  ASSUME WaitInv, NEW r \in Request, NEW s \in Sub, Awaits(r, s)
  PROVE  \/ state[r] = 6 /\ thread[r] = s /\ ~broken[r]
         \/ state[r] = 4 /\ thread[r] = None /\ ctx[r] = s /\ guarded[r] /\ ~passed[r]
  <1>1. r \in Living /\ s # None
    BY LivesIs, SubIs DEF Awaits
  <1> QED
    BY <1>1, Numbers DEF WaitInv, Stays, Awaits

(* While a is run, ...                                                     *)
LEMMA WhileRun ==
  ASSUME WaitInv, NEW a \in Request, stack # <<>>, Head(stack) = Run(a),
         NEW r \in Request, NEW s \in Sub, Awaits(r, s)
  PROVE  \/ Ready(s)
         \/ s = a /\ life[s] = "open" /\ (state[s] = 1 \/ state[s] = 10)
         \/ r = a /\ life[s] = "finished" /\ state[s] = 10
  <1>1. UnderWay(r, s)
    BY DEF WaitInv, Remembered
  <1> QED
    BY <1>1, FramesDiffer, Numbers DEF UnderWay

(* ... so also at the steps at which a waits for nothing.                  *)
LEMMA WhileBusy ==
  ASSUME WaitInv, NEW a \in Request, NEW step \in 0 .. 9, step # 1, At(a, step),
         \/ thread[a] = None /\ (step # 4 \/ ~guarded[a] \/ passed[a] \/ ctx[a] = None)
         \/ step # 4 /\ step # 6,
         NEW r \in Request, NEW s \in Sub, Awaits(r, s)
  PROVE  r # a /\ Ready(s)
  <1>1. stack # <<>> /\ Head(stack) = Run(a) /\ state[a] = step
    BY DEF At
  <1>2. r # a
    BY <1>1, WaitsAt, SubIs
  <1> QED
    BY <1>1, <1>2, WhileRun

LEMMA WhileOther ==
  ASSUME WaitInv, NEW r \in Request, NEW s \in Sub, Awaits(r, s)
  PROVE  /\ stack = <<>> => Ready(s)
         /\ \A a : Head(stack) = Flush(a) => Ready(s)
         /\ \A a, b : Head(stack) = Post(a, b) =>
               Ready(s) \/ (r = a /\ s = b /\ life[s] = "open" /\ state[s] = 1)
  <1>1. UnderWay(r, s)
    BY DEF WaitInv, Remembered
  <1> QED
    BY <1>1, FramesDiffer, Numbers DEF UnderWay

LEMMA ReadyWay ==
  ASSUME NEW r, NEW s, life'[s] = life[s], state'[s] = state[s], Ready(s)
  PROVE  UnderWay(r, s)'
  BY DEF Ready, UnderWay

(* A step that only changes who is called next.                            *)
LEMMA IdleWait ==
  ASSUME TreeInv, WaitInv,
         UNCHANGED <<life, state, broken, status, ctx, thread, guarded, passed>>
  PROVE  Told' /\ Stays' /\ \A r, s : Awaits(r, s)' => Awaits(r, s)
  <1>1. Living' = Living
    BY DEF Living
  <1> QED
    BY <1>1 DEF WaitInv, Told, Stays, Awaits

(* A step of a, by which a gets one step further.                          *)
LEMMA AdvanceWait ==
  ASSUME TreeInv, WaitInv, NEW a \in Request, NEW step \in 0 .. 9, At(a, step), Advance(a),
         Lasting, UNCHANGED <<broken, passed>>, thread[a] = None,
         stack' # <<>>, Head(stack') = Run(a),
         step = 4 => ~guarded[a] \/ passed[a],
         guarded' = guarded \/ (step = 2 /\ \A q \in Request : q # a => guarded'[q] = guarded[q]),
         \A q \in Request : q # a => status'[q] = status[q],
         status'[a] = status[a] \/ status'[a] # "none",
         step >= 6 => status'[a] # "none"
  PROVE  WaitInv'
  <1>1. /\ stack # <<>> /\ Head(stack) = Run(a) /\ life[a] = "open" /\ state[a] = step
        /\ state' = [state EXCEPT ![a] = @ + 1]
    BY DEF At, Advance
  <1>2. /\ state'[a] = step + 1 /\ \A q \in Request : q # a => state'[q] = state[q]
        /\ Living' = Living /\ a \in Living /\ UNCHANGED <<life, ctx, thread>>
    BY <1>1, LivesIs DEF TreeInv, TypeOK, Lasting, Living
  <1>3. Told'
    BY <1>1, <1>2, Numbers DEF WaitInv, Told, Living
  <1>4. ctx[a] # None => step >= 4
    BY <1>1, <1>2, Numbers DEF WaitInv, Stays
  <1>5. Stays'
    <2> SUFFICES ASSUME NEW q \in Living
                 PROVE  /\ thread[q] # None => life[q] = "open" /\ state'[q] = 6 /\ ~broken[q]
                        /\ ctx[q] # None => guarded'[q] /\ ~passed[q] /\ state'[q] >= 4
      BY <1>2, Numbers DEF Stays
    <2>1. /\ thread[q] # None => life[q] = "open" /\ state[q] = 6 /\ ~broken[q]
          /\ ctx[q] # None => guarded[q] /\ ~passed[q] /\ state[q] >= 4
      BY Numbers DEF WaitInv, Stays
    <2>2. q \in Request
      BY DEF Living
    <2>3. CASE q = a
      BY <1>1, <1>2, <1>4, <2>1, <2>3
    <2>4. CASE q # a
      BY <1>2, <2>1, <2>2, <2>4
    <2> QED
      BY <2>3, <2>4
  <1>6. Remembered'
    <2> SUFFICES ASSUME NEW r \in Request, NEW s \in Sub, Awaits(r, s)' PROVE UnderWay(r, s)'
      BY DEF Remembered
    <2>1. s \in Request /\ s # None
      BY SubIs
    <2>2. r # a
      BY <1>1, <1>2, <1>4, <2>1, Numbers DEF Awaits
    <2>3. Awaits(r, s)
      BY <1>2, <2>2 DEF Awaits
    <2>4. Ready(s) \/ (s = a /\ (state[s] = 1 \/ state[s] = 10))
      BY <1>1, <2>2, <2>3, WhileRun
    <2>5. CASE s = a
      BY <1>1, <1>2, <2>5, Numbers DEF UnderWay, Ready
    <2>6. CASE s # a
      BY <1>2, <2>1, <2>4, <2>6, ReadyWay
    <2> QED
      BY <2>5, <2>6
  <1> QED
    BY <1>3, <1>5, <1>6 DEF WaitInv

(* A step of a that breaks it off.                                         *)
LEMMA BreakWait ==
  ASSUME TreeInv, WaitInv, NEW a \in Request, NEW step \in 0 .. 9, At(a, step),
         NEW code, code # "none", BreakWith(a, code),
         Lasting, UNCHANGED <<guarded, passed>>, thread[a] = None, a \in Sub => step # 1,
         ctx[a] # None => step >= 4
  PROVE  WaitInv'
  <1>1. /\ stack # <<>> /\ Head(stack) = Run(a) /\ life[a] = "open" /\ state[a] = step
        /\ broken' = [broken EXCEPT ![a] = TRUE]
        /\ state' = [state EXCEPT ![a] = 6]
        /\ status' = [status EXCEPT ![a] = code]
    BY Numbers DEF At, BreakWith, Break
  <1>2. /\ state'[a] = 6 /\ broken'[a] = TRUE /\ status'[a] = code
        /\ \A q \in Request : q # a =>
              state'[q] = state[q] /\ broken'[q] = broken[q] /\ status'[q] = status[q]
        /\ Living' = Living /\ a \in Living /\ UNCHANGED <<life, ctx, thread>>
    BY <1>1, LivesIs DEF TreeInv, TypeOK, Lasting, Living
  <1>3. Told'
    BY <1>2, Numbers DEF WaitInv, Told, Living
  <1>4. Stays'
    BY <1>1, <1>2, Numbers DEF WaitInv, Stays, Living
  <1>5. Remembered'
    <2> SUFFICES ASSUME NEW r \in Request, NEW s \in Sub, Awaits(r, s)' PROVE UnderWay(r, s)'
      BY DEF Remembered
    <2>1. s \in Request /\ s # None
      BY SubIs
    <2>2. r # a
      BY <1>2, <2>1, Numbers DEF Awaits
    <2>3. Awaits(r, s)
      BY <1>2, <2>2 DEF Awaits
    <2>4. Ready(s) \/ (s = a /\ (state[s] = 1 \/ state[s] = 10))
      BY <1>1, <2>2, <2>3, WhileRun
    <2>5. CASE s = a
      BY <1>1, <1>2, <2>5, Numbers DEF UnderWay, Ready
    <2>6. CASE s # a
      BY <1>2, <2>1, <2>4, <2>6, ReadyWay
    <2> QED
      BY <2>5, <2>6
  <1> QED
    BY <1>3, <1>4, <1>5 DEF WaitInv

LEMMA HeadIs ==
  ASSUME TreeInv, stack # <<>>, NEW f \in Frame, Call(<<f>>)
  PROVE  stack' # <<>> /\ Head(stack') = f
  <1>1. Tail(stack) \in Seq(Frame) /\ stack' = <<f>> \o Tail(stack)
    BY DEF TreeInv, CallsOf, Call
  <1> QED
    BY <1>1

(* The steps that are not one of content that waits for its subrequest.    *)
LEMMA NoThread ==
  ASSUME WaitInv, NEW a \in Request, NEW step, At(a, step), step # 6 \/ broken[a]
  PROVE  thread[a] = None
  BY LivesIs, Numbers DEF WaitInv, Stays, At

LEMMA AdvanceSteps ==
  ASSUME TreeInv, WaitInv, NEW a \in Request,
         \/ Proceeds(a) \/ LocatesPath(a) \/ Generates(a) \/ AnswersError(a) \/ SendsHeaders(a)
         \/ EndsBody(a)
  PROVE  WaitInv'
  <1>1. /\ Lasting /\ UNCHANGED <<broken, passed>>
        /\ LocatesPath(a) \/ UNCHANGED guarded
        /\ Generates(a) \/ UNCHANGED status
    BY DEF Proceeds, LocatesPath, Generates, AnswersError, SendsHeaders, EndsBody, Lasting, links,
           auth
  <1>2. ASSUME NEW step \in 0 .. 9, At(a, step), Advance(a)
        PROVE  /\ stack' # <<>> /\ Head(stack') = Run(a)
               /\ a \in Living /\ state[a] = step
    <2>1. Run(a) \in Frame
      BY FrameIs
    <2> QED
      BY <1>2, <2>1, HeadIs, LivesIs DEF At, Advance
  <1>3. ASSUME NEW step \in 0 .. 9, At(a, step) PROVE step > 6 \/ broken[a] => status[a] # "none"
    BY <1>3, LivesIs, Numbers DEF At, WaitInv, Told
  <1>4. CASE Proceeds(a)
    <2>1. PICK step \in {0, 1, 3, 4, 5, 7} : HasOtherHandlers(a, step) /\ Advance(a)
      BY <1>4, Numbers DEF Proceeds
    <2>2. At(a, step) /\ (step = 4 => ~guarded[a] \/ passed[a])
      BY <2>1, Numbers DEF HasOtherHandlers
    <2>3. UNCHANGED <<guarded, status>>
      BY <1>4 DEF Proceeds, auth
    <2>4. thread[a] = None
      BY <2>1, <2>2, NoThread
    <2>5. step >= 6 => status'[a] # "none"
      BY <1>3, <2>2, <2>3
    <2> QED
      BY <1>1, <1>2, <2>1, <2>2, <2>3, <2>4, <2>5, AdvanceWait
  <1>5. CASE LocatesPath(a)
    <2>1. At(a, 2) /\ Advance(a) /\ UNCHANGED status
      BY <1>5, Numbers DEF LocatesPath
    <2>2. PICK g \in BOOLEAN : guarded' = [guarded EXCEPT ![a] = g]
      BY <1>5 DEF LocatesPath
    <2>3. \A q \in Request : q # a => guarded'[q] = guarded[q]
      BY <2>2, DataIs DEF TreeInv, DataOK
    <2>4. thread[a] = None
      BY <2>1, NoThread
    <2> QED
      BY <1>1, <1>2, <2>1, <2>3, <2>4, AdvanceWait
  <1>6. CASE Generates(a)
    <2>1. At(a, 6) /\ Advance(a) /\ thread[a] = None /\ UNCHANGED guarded
      BY <1>6, Numbers DEF Generates, HasOtherHandlers, auth
    <2>2. PICK code \in Status \ {"none"} : status' = [status EXCEPT ![a] = code]
      BY <1>6 DEF Generates
    <2>3. status'[a] # "none" /\ \A q \in Request : q # a => status'[q] = status[q]
      BY <2>2, DataIs DEF TreeInv, DataOK
    <2> QED
      BY <1>1, <1>2, <2>1, <2>3, AdvanceWait
  <1>7. CASE AnswersError(a) \/ SendsHeaders(a) \/ EndsBody(a)
    <2>1. PICK step \in {6, 8, 9} : At(a, step) /\ Advance(a) /\ (step = 6 => broken[a])
      BY <1>7, Numbers DEF AnswersError, SendsHeaders, EndsBody
    <2>2. UNCHANGED <<guarded, status>>
      BY <1>7 DEF AnswersError, SendsHeaders, EndsBody, auth
    <2>3. thread[a] = None
      BY <2>1, NoThread
    <2>4. status'[a] # "none"
      BY <1>3, <2>1, <2>2
    <2> QED
      BY <1>1, <1>2, <2>1, <2>2, <2>3, <2>4, AdvanceWait
  <1> QED
    BY <1>4, <1>5, <1>6, <1>7

LEMMA BreakSteps ==
  ASSUME TreeInv, WaitInv, NEW a \in Request, Fails(a) \/ FailsLate(a) \/ Refuses(a)
  PROVE  WaitInv'
  <1>1. Lasting /\ UNCHANGED <<guarded, passed>>
    BY DEF Fails, FailsLate, Refuses, Lasting, links, auth
  <1>2. ASSUME NEW step, At(a, step)
        PROVE  /\ ctx[a] # None => step >= 4
               /\ step > 6 => status[a] # "none"
    BY <1>2, LivesIs, Numbers DEF At, WaitInv, Stays, Told
  <1>3. CASE Fails(a)
    <2>1. PICK step \in Early(a) \cup {2, 4, 6} : HasOtherHandlers(a, step)
      BY <1>3, Numbers DEF Fails
    <2>2. step \in 0 .. 9 /\ (a \in Sub => step # 1) /\ At(a, step)
      BY <2>1, SubIs, Numbers DEF Early, HasOtherHandlers
    <2>3. thread[a] = None
      BY <2>1, <2>2, NoThread, Numbers DEF HasOtherHandlers
    <2>4. BreakWith(a, "other")
      BY <1>3 DEF Fails
    <2> QED
      BY <1>1, <1>2, <2>2, <2>3, <2>4, BreakWait
  <1>4. CASE FailsLate(a)
    <2>1. PICK step \in {7, 9} : At(a, step)
      BY <1>4, Numbers DEF FailsLate
    <2>2. PICK code \in {status[a], "other"} : BreakWith(a, code)
      BY <1>4 DEF FailsLate
    <2>3. thread[a] = None /\ code # "none"
      BY <1>2, <2>1, <2>2, NoThread
    <2> QED
      BY <1>1, <1>2, <2>1, <2>2, <2>3, BreakWait
  <1>5. CASE Refuses(a)
    <2>1. At(a, 4) /\ BreakWith(a, "other")
      BY <1>5, Numbers DEF Refuses, Auth
    <2> QED
      BY <1>1, <1>2, <2>1, NoThread, BreakWait
  <1> QED
    BY <1>3, <1>4, <1>5

(* The steps that only change who is called next.                          *)
LEMMA QuietWait ==
  ASSUME TreeInv, WaitInv,
         UNCHANGED <<life, state, broken, status, ctx, thread, guarded, passed>>,
         \A r \in Request, s \in Sub : Awaits(r, s) => Ready(s) \/ UnderWay(r, s)'
  PROVE  WaitInv'
  <1>1. Told' /\ Stays' /\ \A r, s : Awaits(r, s)' => Awaits(r, s)
    BY IdleWait
  <1>2. ASSUME NEW r \in Request, NEW s \in Sub, Awaits(r, s)' PROVE UnderWay(r, s)'
    <2>1. Ready(s) \/ UnderWay(r, s)'
      BY <1>1, <1>2
    <2> QED
      BY <2>1, ReadyWay
  <1>3. Remembered'
    BY <1>2 DEF Remembered
  <1> QED
    BY <1>1, <1>3 DEF WaitInv

LEMMA DieWait == TreeInv /\ WaitInv /\ (Die \/ UNCHANGED vars) => WaitInv'
  <1> SUFFICES ASSUME TreeInv, WaitInv, Die \/ UNCHANGED vars PROVE WaitInv'
    OBVIOUS
  <1>1. UNCHANGED <<life, state, broken, status, ctx, thread, guarded, passed, stack>>
    BY DEF Die, vars, links, auth
  <1>2. \A r \in Request, s \in Sub : Awaits(r, s) => UnderWay(r, s)'
    BY <1>1 DEF WaitInv, Remembered, UnderWay, Ready
  <1> QED
    BY <1>1, <1>2, QuietWait

LEMMA BlockSteps ==
  ASSUME TreeInv, WaitInv, NEW a \in Request,
         \/ Waits(a) \/ NotYet(a) \/ WaitsForBody(a) \/ FlushesBody(a) \/ Flushed(a)
         \/ Returns(a) \/ SendBlocks
  PROVE  WaitInv'
  <1>1. CASE Flushed(a) /\ life[a] = "released"
    BY <1>1, DieWait DEF Flushed
  <1>2. CASE ~(Flushed(a) /\ life[a] = "released")
    <2>1. UNCHANGED <<life, state, broken, status, ctx, thread, guarded, passed>>
      BY <1>2 DEF Waits, NotYet, WaitsForBody, FlushesBody, Flushed, Returns, SendBlocks, links,
                  auth
    <2> SUFFICES ASSUME NEW r \in Request, NEW s \in Sub, Awaits(r, s) PROVE Ready(s)
      BY <2>1, QuietWait
    <2>2. CASE Waits(a)
      <3>1. PICK step \in {0, 3, 2, 4, 6, 7, 9} : HasOtherHandlers(a, step)
        BY <2>2, Numbers DEF Waits, Early
      <3>2. At(a, step) /\ (step = 4 => ~guarded[a] \/ passed[a]) /\ (step = 6 => thread[a] = None)
        BY <3>1, Numbers DEF HasOtherHandlers
      <3>3. thread[a] = None
        BY <3>2, NoThread
      <3> QED
        BY <3>2, <3>3, WhileBusy
    <2>3. CASE NotYet(a)
      <3>1. /\ stack # <<>> /\ Head(stack) = Run(a) /\ state[a] = 4
            /\ ctx[a] # None /\ status[ctx[a]] = "none"
        BY <2>3, Numbers DEF NotYet, Auth, At
      <3>2. CASE r = a /\ life[s] = "finished" /\ state[s] = 10
        <4>1. s \in Living /\ s = ctx[a]
          BY <3>1, <3>2, WaitsAt, SubIs DEF Living
        <4> QED
          BY <3>1, <3>2, <4>1, Numbers DEF WaitInv, Told
      <3> QED
        BY <3>1, <3>2, WhileRun
    <2>4. CASE WaitsForBody(a) \/ FlushesBody(a)
      BY <2>4, WhileBusy, Numbers DEF WaitsForBody, FlushesBody
    <2>5. CASE Flushed(a)
      BY <2>5, WhileOther DEF Flushed
    <2>6. CASE Returns(a)
      <3>1. stack # <<>> /\ Head(stack) = Run(a) /\ life[a] # "open"
        BY <2>6 DEF Returns
      <3>2. r # a
        BY <3>1 DEF Awaits
      <3> QED
        BY <3>1, <3>2, WhileRun
    <2>7. CASE SendBlocks
      <3>1. Top \in Request /\ (At(Top, 8) \/ At(Top, 9))
        BY <2>7, Numbers DEF SendBlocks, Request
      <3> QED
        BY <3>1, WhileBusy
    <2> QED
      BY <2>2, <2>3, <2>4, <2>5, <2>6, <2>7
  <1> QED
    BY <1>1, <1>2

LEMMA PostSteps ==
  ASSUME TreeInv, WaitInv, NEW a \in Request, NEW b \in Sub \cup {None},
         PostStarts(a, b) \/ PostEnds(a, b)
  PROVE  WaitInv'
  <1>1. stack # <<>> /\ Head(stack) = Post(a, b)
    BY DEF PostStarts, PostEnds, AtPost
  <1>2. CASE PostEnds(a, b)
    <2>1. UNCHANGED <<life, state, broken, status, ctx, thread, guarded, passed>>
      BY <1>2 DEF PostEnds, links, auth
    <2>2. ASSUME NEW r \in Request, NEW s \in Sub, Awaits(r, s) PROVE Ready(s)
      <3>1. b = None \/ state[b] # 1
        BY <1>2, Numbers DEF PostEnds
      <3> QED
        BY <1>1, <2>2, <3>1, WhileOther, SubIs
    <2> QED
      BY <2>1, <2>2, QuietWait
  <1>3. CASE PostStarts(a, b) /\ life[b] = "released"
    BY <1>3, DieWait DEF PostStarts
  <1>4. CASE PostStarts(a, b) /\ life[b] # "released"
    <2>1. /\ UNCHANGED <<life, state, broken, status, ctx, thread, guarded, passed>>
          /\ Call(<<Run(b), Post(a, After(subrs[a], b))>>) /\ b # None
      BY <1>4 DEF PostStarts, links, auth
    <2>2. ASSUME NEW r \in Request, NEW s \in Sub, Awaits(r, s) PROVE Ready(s) \/ UnderWay(r, s)'
      <3>1. Ready(s) \/ (s = b /\ life[s] = "open" /\ state[s] = 1)
        BY <1>1, <2>2, WhileOther
      <3>2. stack' # <<>> /\ Head(stack') = Run(b)
        <4>1. Tail(stack) \in Seq(Frame)
          BY <1>1 DEF TreeInv, CallsOf
        <4> QED
          BY <2>1, <4>1 DEF Call
      <3> QED
        BY <2>1, <3>1, <3>2, Numbers DEF UnderWay
    <2> QED
      BY <2>1, <2>2, QuietWait
  <1> QED
    BY <1>2, <1>3, <1>4

LEMMA HandlerSteps ==
  ASSUME TreeInv, WaitInv, (\E r \in Request : Event(r)) \/ (\E s \in Sub : Flushes(s))
  PROVE  WaitInv'
  <1>1. UNCHANGED <<life, state, broken, status, ctx, thread, guarded, passed>> /\ stack = <<>>
    BY DEF Event, Flushes, Idle, links, auth
  <1>2. \A r \in Request, s \in Sub : Awaits(r, s) => Ready(s)
    BY <1>1, WhileOther
  <1> QED
    BY <1>1, <1>2, QuietWait

(* A new subrequest is waited for by nobody but the one that makes it.     *)
LEMMA FreshWait ==
  ASSUME TreeInv, WaitInv, NEW a \in Request, NEW step \in {4, 6, 9}, At(a, step),
         NEW n \in Sub, NEW f, Fresh(n, a, f),
         \A r \in Request, s \in Sub : Awaits(r, s) => r # a /\ Ready(s),
         \A q \in Request : q # a => ctx'[q] = ctx[q] /\ thread'[q] = thread[q],
         \/ /\ step = 4 /\ thread[a] = None /\ thread'[a] = None /\ ctx'[a] = n
            /\ guarded[a] /\ ~passed[a]
            /\ stack' # <<>> /\ Head(stack') = Post(a, n)
         \/ /\ step = 6 /\ ~broken[a] /\ thread'[a] = n /\ ctx'[a] = ctx[a]
            /\ stack' # <<>> /\ Head(stack') = Post(a, n)
         \/ thread'[a] = thread[a] /\ ctx'[a] = ctx[a]
  PROVE  WaitInv'
  <1>1. /\ life[n] = "none" /\ life' = [life EXCEPT ![n] = "open"]
        /\ state' = [state EXCEPT ![n] = 1]
        /\ status' = [status EXCEPT ![n] = "none"]
        /\ broken' = [broken EXCEPT ![n] = FALSE]
        /\ passed' = [passed EXCEPT ![n] = FALSE]
        /\ guarded' = [guarded EXCEPT ![n] = FALSE]
    BY Numbers DEF Fresh
  <1>2. n \in Request /\ n # a /\ n # None /\ a \in Living /\ state[a] = step /\ life[a] = "open"
    BY <1>1, SubIs, LivesIs DEF At
  <1>3. /\ life'[n] = "open" /\ state'[n] = 1 /\ ~broken'[n]
        /\ \A q \in Request : q # n =>
              /\ life'[q] = life[q] /\ state'[q] = state[q] /\ broken'[q] = broken[q]
              /\ status'[q] = status[q] /\ passed'[q] = passed[q] /\ guarded'[q] = guarded[q]
    BY <1>1, <1>2, DataIs, Types DEF TreeInv, DataOK
  <1>4. n \notin Living /\ Living' = Living \cup {n} /\ \A q \in Living : q \in Request /\ q # n
    BY <1>1, <1>2, <1>3 DEF Living
  <1>5. ctx[n] = None /\ thread[n] = None
    BY <1>1, <1>2, <1>4 DEF TreeInv, Held, Awaited
  <1>6. ctx'[n] = None /\ thread'[n] = None
    BY <1>2, <1>5
  <1>7. Told'
    BY <1>3, <1>4, Numbers DEF WaitInv, Told
  <1>8. Stays'
    <2>1. ASSUME NEW q \in Living
          PROVE  /\ thread'[q] # None => life'[q] = "open" /\ state'[q] = 6 /\ ~broken'[q]
                 /\ ctx'[q] # None => guarded'[q] /\ ~passed'[q] /\ state'[q] >= 4
      <3>1. /\ thread[q] # None => life[q] = "open" /\ state[q] = 6 /\ ~broken[q]
            /\ ctx[q] # None => guarded[q] /\ ~passed[q] /\ state[q] >= 4
        BY Numbers DEF WaitInv, Stays
      <3>2. q \in Request /\ q # n
        BY <1>4
      <3>3. CASE q = a
        BY <1>2, <1>3, <3>1, <3>2, <3>3
      <3>4. CASE q # a
        BY <1>3, <3>1, <3>2, <3>4
      <3> QED
        BY <3>3, <3>4
    <2> QED
      BY <1>4, <1>6, <2>1, Numbers DEF Stays
  <1>9. ASSUME NEW r \in Request, NEW s \in Sub, Awaits(r, s)' PROVE UnderWay(r, s)'
    <2>1. s \in Request /\ s # None
      BY SubIs
    <2>2. life'[r] = "open" /\ (s = thread'[r] \/ (state'[r] = 4 /\ s = ctx'[r]))
      BY <1>9, Numbers DEF Awaits
    <2>3. r # n
      BY <1>6, <2>1, <2>2
    <2>4. CASE r = a
      <3>1. ~Awaits(a, s)
        OBVIOUS
      <3>2. s # thread[a] /\ (step # 4 \/ s # ctx[a])
        BY <1>2, <3>1, Numbers DEF Awaits
      <3>3. s = n /\ stack' # <<>> /\ Head(stack') = Post(a, n)
        BY <1>2, <1>3, <2>1, <2>2, <2>4, <3>2
      <3> QED
        BY <1>3, <2>4, <3>3, Numbers DEF UnderWay
    <2>5. CASE r # a
      <3>1. Awaits(r, s)
        BY <1>3, <2>2, <2>3, <2>5, Numbers DEF Awaits
      <3>2. Ready(s)
        BY <3>1
      <3>3. s # n
        BY <1>1, <3>2 DEF Ready
      <3> QED
        BY <1>3, <2>1, <3>2, <3>3, ReadyWay
    <2> QED
      BY <2>4, <2>5
  <1> QED
    BY <1>7, <1>8, <1>9 DEF WaitInv, Remembered

LEMMA FreshSteps ==
  ASSUME TreeInv, WaitInv, NEW a \in Request, Asks(a) \/ Subrequests(a) \/ Detaches(a)
  PROVE  WaitInv'
  <1>1. CASE Asks(a)
    <2>1. At(a, 4) /\ guarded[a] /\ ~passed[a] /\ ctx[a] = None /\ UNCHANGED thread
      BY <1>1, Numbers DEF Asks, Auth
    <2>2. PICK n \in Sub : Fresh(n, a, a) /\ ctx' = [ctx EXCEPT ![a] = n] /\ Call(<<Post(a, n)>>)
      BY <1>1 DEF Asks
    <2>3. thread[a] = None
      BY <2>1, NoThread
    <2>4. Post(a, n) \in Frame /\ stack # <<>>
      BY <2>1, FrameIs, SubIs DEF At
    <2>5. stack' # <<>> /\ Head(stack') = Post(a, n)
      BY <2>2, <2>4, HeadIs
    <2>6. ctx'[a] = n /\ \A q \in Request : q # a => ctx'[q] = ctx[q]
      BY <2>2, Types DEF TreeInv
    <2>7. \A r \in Request, s \in Sub : Awaits(r, s) => r # a /\ Ready(s)
      BY <2>1, <2>3, WhileBusy
    <2> QED
      BY <2>1, <2>2, <2>3, <2>5, <2>6, <2>7, FreshWait
  <1>2. CASE Subrequests(a)
    <2>1. At(a, 6) /\ ~broken[a] /\ thread[a] = None /\ UNCHANGED ctx
      BY <1>2, Numbers DEF Subrequests, HasOtherHandlers
    <2>2. PICK n \in Sub :
             Fresh(n, a, a) /\ thread' = [thread EXCEPT ![a] = n] /\ Call(<<Post(a, n)>>)
      BY <1>2 DEF Subrequests
    <2>3. Post(a, n) \in Frame /\ stack # <<>>
      BY <2>1, FrameIs, SubIs DEF At
    <2>4. stack' # <<>> /\ Head(stack') = Post(a, n)
      BY <2>2, <2>3, HeadIs
    <2>5. thread'[a] = n /\ \A q \in Request : q # a => thread'[q] = thread[q]
      BY <2>2, Types DEF TreeInv
    <2>6. \A r \in Request, s \in Sub : Awaits(r, s) => r # a /\ Ready(s)
      BY <2>1, WhileBusy
    <2> QED
      BY <2>1, <2>2, <2>4, <2>5, <2>6, FreshWait
  <1>3. CASE Detaches(a)
    <2>1. PICK step \in {6, 9} : At(a, step) /\ (step = 6 => thread[a] = None)
      BY <1>3, Numbers DEF Detaches, HasOtherHandlers
    <2>2. PICK n \in Sub : Fresh(n, a, Detached)
      BY <1>3 DEF Detaches
    <2>3. UNCHANGED <<ctx, thread>>
      BY <1>3 DEF Detaches
    <2>4. \A r \in Request, s \in Sub : Awaits(r, s) => r # a /\ Ready(s)
      BY <2>1, WhileBusy
    <2> QED
      BY <2>1, <2>2, <2>3, <2>4, FreshWait
  <1> QED
    BY <1>1, <1>2, <1>3

(* A subrequest that is released leaves nobody waiting for it.             *)
LEMMA ReleaseWait ==
  ASSUME TreeInv, TreeInv', WaitInv, NEW x \in Request, Release(x),
         UNCHANGED <<state, broken, status, guarded>>,
         \A q \in Request : ctx'[q] \in {None, ctx[q]} /\ thread'[q] \in {None, thread[q]},
         \A q \in Request : ctx'[q] # None => passed'[q] = passed[q],
         \A r \in Request, s \in Sub :
            Awaits(r, s) /\ Awaits(r, s)' => Ready(s) \/ s = x \/ r = x
  PROVE  WaitInv'
  <1>1. /\ Living' = Living \ Family(x) /\ x \in Family(x)
        /\ \A q \in Living' : life'[q] = life[q] /\ q \in Living /\ q \in Request
    <2>1. /\ Living' = Living \ Family(x)
          /\ \A q \in Request : life'[q] = IF q \in Family(x) THEN "released" ELSE life[q]
      BY ReleaseLists DEF TreeInv, Held
    <2>2. x \in Family(x)
      BY UnderIs, FamilyIs, Types DEF TreeInv
    <2> QED
      BY <2>1, <2>2 DEF Living
  <1>2. Told'
    BY <1>1 DEF WaitInv, Told
  <1>3. Stays'
    BY <1>1 DEF WaitInv, Stays
  <1>4. ASSUME NEW r \in Request, NEW s \in Sub, Awaits(r, s)' PROVE UnderWay(r, s)'
    <2>1. r \in Living'
      BY <1>4 DEF Awaits, Living
    <2>2. s \in Living'
      <3>1. s = ctx'[r] \/ s = thread'[r]
        BY <1>4 DEF Awaits
      <3>2. In(subrs', s, r)
        BY <2>1, <3>1 DEF TreeInv, Held, Awaited
      <3> QED
        BY <3>2 DEF TreeInv, Held, Lists
    <2>3. Awaits(r, s)
      BY <1>1, <1>4, <2>1, SubIs DEF Awaits
    <2>4. s # x /\ r # x
      BY <1>1, <2>1, <2>2
    <2>5. Ready(s)
      BY <1>4, <2>3, <2>4
    <2> QED
      BY <1>1, <2>2, <2>5, ReadyWay
  <1> QED
    BY <1>2, <1>3, <1>4 DEF WaitInv, Remembered

LEMMA GrantWait ==
  ASSUME TreeInv, TreeInv', WaitInv, NEW a \in Request, Grants(a) \/ Resumes(a)
  PROVE  WaitInv'
  <1>1. stack # <<>> /\ Head(stack) = Run(a) /\ (state[a] = 4 \/ state[a] = 6)
    BY Numbers DEF Grants, GrantsWith, Auth, Resumes, At
  <1>2. ASSUME NEW r \in Request, NEW s \in Sub, Awaits(r, s), r # a PROVE Ready(s)
    BY <1>1, <1>2, WhileRun
  <1>3. CASE Grants(a)
    <2>1. CASE KillsWaiting(ctx[a])
      BY <1>3, <2>1, DieWait DEF Grants, GrantsWith, Close
    <2>2. CASE ~KillsWaiting(ctx[a])
      <3>1. /\ Release(ctx[a]) /\ ctx' = [ctx EXCEPT ![a] = None]
            /\ passed' = [passed EXCEPT ![a] = TRUE] /\ ctx[a] # None
            /\ UNCHANGED <<state, broken, status, guarded, thread>> /\ At(a, 4)
        BY <1>3, <2>2, Numbers DEF Grants, GrantsWith, Auth, Close
      <3>2. PICK x \in Request : x = ctx[a]
        BY <3>1, SubIs, Types DEF TreeInv
      <3>3. /\ ctx'[a] = None /\ \A q \in Request : q # a => ctx'[q] = ctx[q]
            /\ \A q \in Request : q # a => passed'[q] = passed[q]
        BY <3>1, Types, DataIs DEF TreeInv, DataOK
      <3>4. thread[a] = None
        BY <3>1, NoThread
      <3>5. \A s \in Sub : ~Awaits(a, s)'
        BY <3>1, <3>3, <3>4, SubIs DEF Awaits
      <3>6. /\ \A r \in Request, s \in Sub : Awaits(r, s) /\ Awaits(r, s)' => Ready(s)
            /\ \A q \in Request : ctx'[q] \in {None, ctx[q]} /\ thread'[q] \in {None, thread[q]}
        BY <1>2, <3>1, <3>3, <3>5
      <3> QED
        BY <3>1, <3>2, <3>3, <3>6, ReleaseWait
    <2> QED
      BY <2>1, <2>2
  <1>4. CASE Resumes(a)
    <2>1. CASE KillsWaiting(thread[a])
      BY <1>4, <2>1, DieWait DEF Resumes, Close
    <2>2. CASE ~KillsWaiting(thread[a])
      <3>1. /\ Release(thread[a]) /\ thread' = [thread EXCEPT ![a] = None] /\ thread[a] # None
            /\ UNCHANGED <<state, broken, status, guarded, passed, ctx>> /\ state[a] = 6
        BY <1>4, <2>2, Numbers DEF Resumes, Close, At, auth
      <3>2. PICK x \in Request : x = thread[a]
        BY <3>1, SubIs, Types DEF TreeInv
      <3>3. thread'[a] = None /\ \A q \in Request : q # a => thread'[q] = thread[q]
        BY <3>1, Types DEF TreeInv
      <3>4. \A s \in Sub : ~Awaits(a, s)'
        BY <3>1, <3>3, SubIs, Numbers DEF Awaits
      <3>5. /\ \A r \in Request, s \in Sub : Awaits(r, s) /\ Awaits(r, s)' => Ready(s)
            /\ \A q \in Request : ctx'[q] \in {None, ctx[q]} /\ thread'[q] \in {None, thread[q]}
        BY <1>2, <3>1, <3>3, <3>4
      <3> QED
        BY <3>1, <3>2, <3>5, ReleaseWait
    <2> QED
      BY <2>1, <2>2
  <1> QED
    BY <1>3, <1>4

LEMMA CloseWait ==
  ASSUME TreeInv, TreeInv', WaitInv, SendFails \/ FinishesTop \/ ClientGoes
  PROVE  WaitInv'
  <1>1. CASE KillsWaiting(Top)
    BY <1>1, DieWait DEF SendFails, FinishesTop, ClientGoes, Close
  <1>2. CASE ~KillsWaiting(Top)
    <2>1. /\ Release(Top) /\ Top \in Request
          /\ UNCHANGED <<state, broken, status, guarded, passed, ctx, thread>>
      BY <1>2 DEF SendFails, FinishesTop, ClientGoes, Close, Request, auth
    <2>2. ASSUME NEW r \in Request, NEW s \in Sub, Awaits(r, s)
          PROVE  Ready(s) \/ s = Top \/ r = Top
      <3>1. CASE SendFails \/ FinishesTop
        <4>1. stack # <<>> /\ Head(stack) = Run(Top)
          BY <3>1 DEF SendFails, FinishesTop, At
        <4> QED
          BY <2>1, <2>2, <4>1, WhileRun
      <3>2. CASE ClientGoes
        BY <2>2, <3>2, WhileOther DEF ClientGoes, Idle
      <3> QED
        BY <3>1, <3>2
    <2> QED
      BY <2>1, <2>2, ReleaseWait
  <1> QED
    BY <1>1, <1>2

(* A subrequest that finishes runs the one that waits for it.              *)
LEMMA FinishWait ==
  ASSUME TreeInv, TreeInv', WaitInv, NEW a \in Request, Finishes(a)
  PROVE  WaitInv'
  <1>1. /\ a \in Sub /\ stack # <<>> /\ Head(stack) = Run(a) /\ life[a] = "open" /\ state[a] = 10
        /\ a \in Living
    BY LivesIs, Numbers DEF Finishes, At
  <1>2. ASSUME NEW r \in Request, NEW s \in Sub, Awaits(r, s)
        PROVE  Ready(s) \/ s = a \/ r = a
    BY <1>1, <1>2, WhileRun
  <1>3. CASE father[a] = Detached
    <2>1. CASE KillsWaiting(a)
      BY <1>3, <2>1, DieWait DEF Finishes, Close
    <2>2. CASE ~KillsWaiting(a)
      <3>1. Release(a) /\ UNCHANGED <<state, broken, status, guarded, passed, ctx, thread>>
        BY <1>3, <2>2 DEF Finishes, Close, auth
      <3> QED
        BY <1>2, <3>1, ReleaseWait
    <2> QED
      BY <2>1, <2>2
  <1>4. CASE father[a] # Detached
    <2>1. /\ life' = [life EXCEPT ![a] = "finished"] /\ Call(<<Run(father[a])>>)
          /\ UNCHANGED <<state, broken, status, guarded, passed, ctx, thread>>
      BY <1>4 DEF Finishes, links, auth
    <2>2. life'[a] = "finished" /\ \A q \in Request : q # a => life'[q] = life[q]
      BY <2>1, Types DEF TreeInv
    <2>3. Living' = Living
      BY <1>1, <2>2 DEF Living
    <2>4. thread[a] = None
      BY <1>1, NoThread DEF WaitInv, Stays, ResponseHeaders1
    <2>5. Told' /\ Stays'
      BY <2>1, <2>2, <2>3, <2>4 DEF WaitInv, Told, Stays, Living
    <2>6. ASSUME NEW r \in Request, NEW s \in Sub, Awaits(r, s)' PROVE UnderWay(r, s)'
      <3>1. r # a /\ Awaits(r, s)
        BY <2>1, <2>2, <2>6 DEF Awaits
      <3>2. CASE s = a
        <4>1. father[a] = r /\ Run(r) \in Frame
          BY <3>1, <3>2, LivesIs, FrameIs DEF Awaits, TreeInv, Held, Awaited
        <4>2. stack' # <<>> /\ Head(stack') = Run(r)
          BY <1>1, <2>1, <4>1, HeadIs
        <4> QED
          BY <1>1, <2>1, <2>2, <3>2, <4>2, Numbers DEF UnderWay
      <3>3. CASE s # a
        BY <1>2, <2>1, <2>2, <3>1, <3>3, SubIs, ReadyWay
      <3> QED
        BY <3>2, <3>3
    <2> QED
      BY <2>5, <2>6 DEF WaitInv, Remembered
  <1> QED
    BY <1>3, <1>4

LEMMA ReceiveWait ==
  ASSUME TreeInv, WaitInv, Receives
  PROVE  WaitInv'
  <1>1. /\ stack = <<>> /\ life[Top] = "none" /\ Top \in Request
        /\ life' = [life EXCEPT ![Top] = "open"] /\ state' = [state EXCEPT ![Top] = 0]
        /\ broken' = [broken EXCEPT ![Top] = FALSE] /\ status' = [status EXCEPT ![Top] = "none"]
        /\ guarded' = [guarded EXCEPT ![Top] = FALSE] /\ passed' = [passed EXCEPT ![Top] = FALSE]
        /\ UNCHANGED <<ctx, thread>>
    BY Numbers DEF Receives, Idle, links, Request
  <1>2. /\ state'[Top] = 0 /\ ~broken'[Top]
        /\ \A q \in Request : q # Top =>
              /\ life'[q] = life[q] /\ state'[q] = state[q] /\ broken'[q] = broken[q]
              /\ status'[q] = status[q] /\ passed'[q] = passed[q] /\ guarded'[q] = guarded[q]
    BY <1>1, DataIs, Types DEF TreeInv, DataOK
  <1>3. \A q \in Living' : q # Top => q \in Living /\ q \in Request
    BY <1>2 DEF Living
  <1>4. ctx[Top] = None /\ thread[Top] = None
    BY <1>1 DEF TreeInv, Held, Awaited, Living
  <1>5. Told'
    BY <1>2, <1>3, Numbers DEF WaitInv, Told
  <1>6. Stays'
    BY <1>1, <1>2, <1>3, <1>4 DEF WaitInv, Stays
  <1>7. ASSUME NEW r \in Request, NEW s \in Sub, Awaits(r, s)' PROVE UnderWay(r, s)'
    <2>1. s \in Request /\ s # None /\ s # Top
      BY SubIs
    <2>2. r # Top
      BY <1>1, <1>4, <1>7, <2>1 DEF Awaits
    <2>3. Awaits(r, s)
      BY <1>1, <1>2, <1>7, <2>2 DEF Awaits
    <2>4. Ready(s)
      BY <1>1, <2>3, WhileOther
    <2> QED
      BY <1>2, <2>1, <2>4, ReadyWay
  <1> QED
    BY <1>5, <1>6, <1>7 DEF WaitInv, Remembered

LEMMA FreeWait ==
  ASSUME TreeInv, WaitInv, Frees
  PROVE  WaitInv'
  <1>1. stack = <<>> /\ UNCHANGED thread /\ Living' = Living
    BY FreesHeld DEF Frees, Idle, TreeInv
  <1>2. \A q \in Request : life[q] # "released" =>
           /\ life'[q] = life[q] /\ state'[q] = state[q] /\ broken'[q] = broken[q]
           /\ status'[q] = status[q] /\ passed'[q] = passed[q] /\ guarded'[q] = guarded[q]
           /\ ctx'[q] = ctx[q]
    BY DEF Frees
  <1>3. \A q \in Living : q \in Request /\ life[q] # "released"
    BY DEF Living
  <1>4. Told'
    BY <1>1, <1>2, <1>3 DEF WaitInv, Told
  <1>5. Stays'
    BY <1>1, <1>2, <1>3 DEF WaitInv, Stays
  <1>6. ASSUME NEW r \in Request, NEW s \in Sub, Awaits(r, s)' PROVE UnderWay(r, s)'
    <2>1. r \in Living
      BY <1>1, <1>6 DEF Awaits, Living
    <2>2. Awaits(r, s)
      BY <1>1, <1>2, <1>3, <1>6, <2>1 DEF Awaits
    <2>3. Ready(s)
      BY <1>1, <2>2, WhileOther
    <2>4. s \in Request /\ life[s] # "released"
      BY <2>3, SubIs DEF Ready
    <2> QED
      BY <1>2, <2>3, <2>4, ReadyWay
  <1> QED
    BY <1>4, <1>5, <1>6 DEF WaitInv, Remembered

LEMMA WaitInit == Init => WaitInv
  <1> SUFFICES ASSUME Init PROVE WaitInv
    OBVIOUS
  <1>1. \A r \in Request : life[r] = "none"
    BY DEF Init
  <1>2. Living = {} /\ \A r \in Request : \A s : ~Awaits(r, s)
    BY <1>1 DEF Living, Awaits
  <1> QED
    BY <1>2 DEF WaitInv, Told, Stays, Remembered

LEMMA WaitInvStep == TreeInv /\ TreeInv' /\ WaitInv /\ [Next]_vars => WaitInv'
  <1> SUFFICES ASSUME TreeInv, TreeInv', WaitInv, [Next]_vars PROVE WaitInv'
    OBVIOUS
  <1>1. ASSUME NEW r \in Request, Step(r) PROVE WaitInv'
    <2>1. CASE \/ Proceeds(r) \/ LocatesPath(r) \/ Generates(r) \/ AnswersError(r)
               \/ SendsHeaders(r) \/ EndsBody(r)
      BY <2>1, AdvanceSteps
    <2>2. CASE Fails(r) \/ FailsLate(r) \/ Refuses(r)
      BY <2>2, BreakSteps
    <2>3. CASE \/ Waits(r) \/ NotYet(r) \/ WaitsForBody(r) \/ FlushesBody(r) \/ Flushed(r)
               \/ Returns(r)
      BY <2>3, BlockSteps
    <2>4. CASE WaitsLinked(r) \/ Redirects(r) \/ AsksWithoutMemory(r)
      BY <2>4, DieWait DEF WaitsLinked, Redirects, AsksWithoutMemory
    <2>5. CASE Asks(r) \/ Subrequests(r) \/ Detaches(r)
      BY <2>5, FreshSteps
    <2>6. CASE Grants(r) \/ Resumes(r)
      BY <2>6, GrantWait
    <2>7. CASE Finishes(r)
      BY <2>7, FinishWait
    <2>8. CASE \E s \in Sub \cup {None} : PostStarts(r, s) \/ PostEnds(r, s)
      BY <2>8, PostSteps
    <2> QED
      BY <1>1, <2>1, <2>2, <2>3, <2>4, <2>5, <2>6, <2>7, <2>8 DEF Step
  <1>2. CASE SendBlocks
    <2>1. Top \in Request
      BY DEF Request
    <2> QED
      BY <1>2, <2>1, BlockSteps
  <1>3. CASE SendFails \/ FinishesTop \/ ClientGoes
    BY <1>3, CloseWait
  <1>4. CASE Receives \/ Frees
    BY <1>4, ReceiveWait, FreeWait
  <1>5. CASE (\E r \in Request : Event(r)) \/ (\E s \in Sub : Flushes(s))
    BY <1>5, HandlerSteps
  <1>6. CASE UNCHANGED vars
    BY <1>6, DieWait
  <1> QED
    BY <1>1, <1>2, <1>3, <1>4, <1>5, <1>6 DEF Next

LEMMA WaitInvImpliesNotForgotten == TreeInv /\ WaitInv => NotForgotten
  <1> SUFFICES ASSUME TreeInv, WaitInv, Idle,
                      NEW r \in Request, life[r] = "open", WaitsFor(r) # None
               PROVE  LET s == WaitsFor(r)
                      IN  life[s] = "open" /\ father[s] = r /\ state[s] \notin {LocateConfHost, Done}
    BY DEF NotForgotten
  <1>1. PICK s \in Sub : s = WaitsFor(r) /\ (s = thread[r] \/ (state[r] = ProcessHeaders /\ s = ctx[r]))
    BY Types DEF WaitsFor, TreeInv
  <1>2. Awaits(r, s)
    BY <1>1 DEF Awaits
  <1>3. Ready(s)
    BY <1>2, WhileOther DEF Idle
  <1>4. father[s] = r
    BY <1>1, LivesIs DEF TreeInv, Held, Awaited
  <1> QED
    BY <1>1, <1>3, <1>4 DEF Ready

(* When all nested calls of phl_request_run() have returned, whoever waits *)
(* for a subrequest waits for one of its own that was started and will run *)
(* it again: no end of a subrequest is missed, whatever step it came in    *)
(* between (phl_request.c:150, 590), as long as the worker's memory is     *)
(* sound.                                                                  *)
THEOREM NotForgottenHolds == Spec => []NotForgotten
  <1>1. Init => TreeInv /\ WaitInv
    BY TreeInit, WaitInit
  <1>2. TreeInv /\ WaitInv /\ [Next]_vars => TreeInv' /\ WaitInv'
    BY TreeStep, WaitInvStep
  <1>3. Spec => [](TreeInv /\ WaitInv)
    BY <1>1, <1>2, PTL DEF Spec
  <1> QED
    BY <1>3, WaitInvImpliesNotForgotten, PTL
=============================================================================
