-------------------------- MODULE ConnectionProofs ---------------------------
(***************************************************************************)
(* Theorems about Connection, for any number of workers and connections    *)
(* and any limit.  A callback goes through several functions, each of      *)
(* which is here a lemma about the record it works on; Becomes then is the *)
(* only place where the connection itself changes.                         *)
(*                                                                         *)
(* Then one about LimitReq, for any keys, buckets and nodes.               *)
(***************************************************************************)
EXTENDS Connection, LimitReq, FiniteSetTheorems, SequenceTheorems, TLAPS

(***************************************************************************)
(* The inductive invariant.  Without recv_timer, which is so for the first *)
(* request only, data in the buffer is that of its body; so the connection *)
(* is in the deferred list whenever send_timer is suspended, or recv_timer *)
(* is set.  Nothing that was freed is in the list.                         *)
(***************************************************************************)
Untimed ==
    \A c \in Open :
        /\ recvTimer[c] = "off" /\ buffer[c] = "data" => request[c] = "body"
        /\ state[c] = "idle" => recvTimer[c] # "off"

Listed == \A c \in deferred : state[c] # "free"

ConnInv == Counted /\ Bounded /\ Unsent /\ Untimed /\ Listed

(* The same of a record in the middle of a callback                        *)
Records ==
    [state : {"free", "reading", "writing", "idle", "closed"},
     request : {"none", "head", "work", "wait", "body"},
     recvTimer : {"off", "recv", "keepalive"}, sendTimer : BOOLEAN,
     buffer : {"null", "empty", "data"}, blocked : BOOLEAN, defer : BOOLEAN]

Alive(k) ==
    /\ k \in Records
    /\ k.state \in {"reading", "writing", "idle"}
    /\ k.state = "idle" => k.recvTimer # "off"
Timed(k) == k.recvTimer = "off" /\ k.buffer = "data" => k.request = "body"
Watched(k) ==
    k.buffer = "data" => k.defer \/ (k.blocked /\ (k.sendTimer \/ k.recvTimer # "off"))

Sound(k) == Alive(k) /\ Timed(k) /\ Watched(k)
Safe(k) == k = Closed \/ Sound(k)

(***************************************************************************)
(* Records                                                                 *)
(***************************************************************************)
LEMMA ClosedIs ==
    /\ Closed \in Records /\ Closed.state = "closed" /\ Closed.request = "none"
    /\ Closed.recvTimer = "off" /\ ~Closed.sendTimer /\ Closed.buffer = "null"
    /\ ~Closed.blocked /\ Closed.defer
  BY DEF Closed, Records

LEMMA FreedIs ==
    /\ Freed.state = "free" /\ Freed.request = "none"
    /\ Freed.recvTimer = "off" /\ ~Freed.sendTimer /\ Freed.buffer = "null"
    /\ ~Freed.blocked /\ ~Freed.defer
  BY DEF Closed, Freed

LEMMA NowIs ==
  ASSUME TypeOK, NEW c \in Conn
  PROVE  /\ Now(c) \in Records /\ Now(c).state = state[c] /\ Now(c).request = request[c]
         /\ Now(c).recvTimer = recvTimer[c] /\ Now(c).sendTimer = sendTimer[c]
         /\ Now(c).buffer = buffer[c] /\ Now(c).blocked = blocked[c]
         /\ Now(c).defer = (c \in deferred)
  BY DEF TypeOK, Now, Records

LEMMA NowSound ==
  ASSUME Counted, Unsent, Untimed, NEW c \in Open
  PROVE  Sound(Now(c))
<1>1. c \in Conn /\ state[c] \in {"reading", "writing", "idle"}
  BY DEF Open
<1> QED
  BY <1>1, NowIs DEF Counted, Unsent, Untimed, Sound, Alive, Timed, Watched

LEMMA SetStateSound ==
  ASSUME NEW k, Alive(k), Watched(k), NEW new \in {"reading", "writing", "idle"},
         new = "writing" => Timed(k) /\ (k.buffer = "data" => k.defer \/ k.recvTimer # "off"),
         new = "reading" => Timed(k)
  PROVE  Sound(SetState(k, new)) /\ SetState(k, new).defer = k.defer
<1>0. k.state # "closed"
  BY DEF Alive
<1>1. CASE new = k.state
  <2>1. SetState(k, new) = k
    BY <1>1 DEF SetState
  <2> QED
    BY <1>1, <2>1 DEF Sound, Alive, Timed
<1>2. CASE new # k.state /\ new = "reading"
  <2>1. SetState(k, new) = [k EXCEPT !.state = "reading", !.recvTimer = "recv"]
    BY <1>0, <1>2 DEF SetState
  <2> QED
    BY <1>2, <2>1 DEF Sound, Alive, Timed, Watched, Records
<1>3. CASE new # k.state /\ new = "writing"
  <2>1. SetState(k, new) = [k EXCEPT !.state = "writing", !.sendTimer = FALSE]
    BY <1>0, <1>3 DEF SetState
  <2> QED
    BY <1>3, <2>1 DEF Sound, Alive, Timed, Watched, Records
<1>4. CASE new # k.state /\ new = "idle"
  <2>1. SetState(k, new) = [k EXCEPT !.state = "idle", !.recvTimer = "keepalive"]
    BY <1>0, <1>4 DEF SetState
  <2> QED
    BY <1>4, <2>1 DEF Sound, Alive, Timed, Watched, Records
<1> QED
  BY <1>1, <1>2, <1>3, <1>4

(* phl_connection_flush() leaves nothing without a timer.                  *)
LEMMA FlushSound ==
  ASSUME NEW k, Alive(k), Timed(k), NEW silent, NEW f \in Flush(k, silent)
  PROVE  f = Closed \/ (Sound(f) /\ f.defer = k.defer /\ f.request = k.request)
<1>1. CASE k.buffer # "data"
  <2>1. f = k
    BY <1>1 DEF Flush
  <2> QED
    BY <1>1, <2>1 DEF Sound, Watched
<1>2. CASE f = [k EXCEPT !.sendTimer = TRUE, !.blocked = TRUE]
  BY <1>2 DEF Sound, Alive, Timed, Watched, Records
<1>3. CASE f = [k EXCEPT !.buffer = "empty", !.sendTimer = FALSE]
  BY <1>3 DEF Sound, Alive, Timed, Watched, Records
<1> QED
  BY <1>1, <1>2, <1>3 DEF Flush

(* phl_connection_make_space() puts the connection into the deferred list. *)
LEMMA SpaceSound ==
  ASSUME NEW k, Alive(k), Timed(k), NEW put \in BOOLEAN, NEW silent,
         NEW f \in Space(k, put, silent)
  PROVE  f = Closed \/ (Alive(f) /\ f.defer /\ f.request = k.request /\ (~put => Timed(f)))
<1> DEFINE listed == [k EXCEPT !.defer = TRUE]
<1>1. Alive(listed) /\ Timed(listed) /\ listed.defer /\ listed.request = k.request
  BY DEF Alive, Timed, Records
<1>2. PICK g \in {listed} \cup Flush(listed, silent) :
        f = IF put /\ g.state # "closed" THEN [g EXCEPT !.buffer = "data"] ELSE g
  BY DEF Space
<1> HIDE DEF listed
<1>3. g = Closed \/ (Alive(g) /\ Timed(g) /\ g.defer /\ g.request = k.request)
  BY <1>1, <1>2, FlushSound DEF Sound
<1>4. CASE g = Closed
  BY <1>2, <1>4, ClosedIs
<1>5. CASE Alive(g) /\ Timed(g) /\ g.defer /\ g.request = k.request /\ put
  <2>1. f = [g EXCEPT !.buffer = "data"]
    BY <1>2, <1>5 DEF Alive
  <2> QED
    BY <1>5, <2>1 DEF Alive, Records
<1>6. CASE Alive(g) /\ Timed(g) /\ g.defer /\ g.request = k.request /\ ~put
  BY <1>2, <1>6
<1> QED
  BY <1>3, <1>4, <1>5, <1>6

LEMMA AnswersSound ==
  ASSUME NEW k, Alive(k), Timed(k), NEW put \in BOOLEAN, NEW silent,
         NEW f \in Answers(k, put, silent)
  PROVE  f = Closed \/ (Sound(f) /\ f.defer)
<1>1. PICK g \in Space(k, put, silent) :
        f = IF g.state = "closed" THEN g ELSE [g EXCEPT !.request = "body"]
  BY DEF Answers
<1>2. CASE g = Closed
  BY <1>1, <1>2, ClosedIs
<1>3. CASE Alive(g) /\ g.defer
  <2>1. f = [g EXCEPT !.request = "body"]
    BY <1>1, <1>3 DEF Alive
  <2> QED
    BY <1>3, <2>1 DEF Sound, Alive, Timed, Watched, Records
<1> QED
  BY <1>1, <1>2, <1>3, SpaceSound

LEMMA DoneSound ==
  ASSUME NEW k, Sound(k), k.defer, NEW f \in Done(k)
  PROVE  f = Closed \/ (Sound(f) /\ f.defer)
<1> DEFINE over == [k EXCEPT !.request = "none"]
<1>1. Alive(over) /\ Watched(over) /\ over.defer
  BY DEF Sound, Alive, Watched, Records
<1>2. f = Closed \/ f = SetState(over, "idle")
  BY DEF Done
<1> HIDE DEF over
<1> QED
  BY <1>1, <1>2, SetStateSound

(* phl_request_run() leaves a connection with a response in the deferred   *)
(* list.                                                                   *)
LEMMA RunsSound ==
  ASSUME NEW k, Sound(k), k.request # "none", NEW silent,
         NEW f \in Runs(k, silent)
  PROVE  f = Closed \/ (Sound(f) /\ (f.request = "body" => f.defer))
<1>0. Alive(k) /\ Timed(k) /\ Watched(k) /\ k.request \in {"head", "work", "wait", "body"}
  BY DEF Sound, Alive, Records
<1>1. ASSUME NEW q \in Waits[k.request], f = [k EXCEPT !.request = q]
      PROVE  Sound(f) /\ f.request # "body"
  <2>1. k.request # "body" /\ q \in {"head", "work", "wait"}
    BY <1>0 DEF Waits
  <2> QED
    BY <1>0, <1>1, <2>1 DEF Sound, Alive, Timed, Watched, Records
<1>2. \A g \in Answers(k, TRUE, silent) : g = Closed \/ (Sound(g) /\ g.defer)
  BY <1>0, AnswersSound
<1>3. ASSUME NEW g \in Answers(k, TRUE, silent),
             f \in IF g.state = "closed" THEN {g} ELSE Done(g)
      PROVE  f = Closed \/ (Sound(f) /\ f.defer)
  BY <1>2, <1>3, ClosedIs, DoneSound DEF Sound, Alive
<1>4. CASE f \in Answers(k, FALSE, silent)
  BY <1>0, <1>4, AnswersSound
<1>5. ASSUME NEW g \in Space(k, FALSE, silent), k.request # "body",
             f = [g EXCEPT !.request = IF g.state = "closed" THEN "none" ELSE "wait"]
      PROVE  f = Closed \/ (Sound(f) /\ f.defer)
  <2>1. g = Closed \/ (Alive(g) /\ Timed(g) /\ g.defer /\ g.request = k.request)
    BY <1>0, <1>5, SpaceSound
  <2>2. CASE g = Closed
    BY <1>5, <2>2 DEF Closed
  <2>3. CASE Alive(g) /\ Timed(g) /\ g.defer /\ g.request = k.request
    <3>1. f = [g EXCEPT !.request = "wait"]
      BY <1>5, <2>3 DEF Alive
    <3> QED
      BY <1>5, <2>3, <3>1 DEF Sound, Alive, Timed, Watched, Records
  <2> QED
    BY <2>1, <2>2, <2>3
<1>6. \/ \E q \in Waits[k.request] : f = [k EXCEPT !.request = q]
      \/ f \in Answers(k, TRUE, silent)
      \/ \E g \in Answers(k, TRUE, silent) : f \in IF g.state = "closed" THEN {g} ELSE Done(g)
      \/ f \in Answers(k, FALSE, silent)
      \/ k.request # "body" /\ \E g \in Space(k, FALSE, silent) :
            f = [g EXCEPT !.request = IF g.state = "closed" THEN "none" ELSE "wait"]
      \/ f = Closed
  BY DEF Runs
<1> QED
  BY <1>1, <1>2, <1>3, <1>4, <1>5, <1>6

(* phl_http1_set_state(): with recv_timer set, or the connection in the    *)
(* deferred list, send_timer may be suspended.                             *)
LEMMA StateOfRequestSound ==
  ASSUME NEW k, k = Closed \/ (Sound(k) /\ (k.request = "body" => k.defer))
  PROVE  Safe(StateOfRequest(k))
<1>1. CASE k = Closed
  BY <1>1, ClosedIs DEF StateOfRequest, SetState, Safe
<1>2. CASE Sound(k) /\ (k.request = "body" => k.defer)
  <2> DEFINE new == CASE k.request = "none" -> "idle"
                      [] k.request \in {"head", "work"} -> "reading"
                      [] k.request \in {"wait", "body"} -> "writing"
  <2>1. k.request \in {"none", "head", "work", "wait", "body"}
    BY <1>2 DEF Sound, Alive, Records
  <2>2. new \in {"reading", "writing", "idle"}
    BY <2>1
  <2>3. StateOfRequest(k) = SetState(k, new)
    BY DEF StateOfRequest
  <2> HIDE DEF new
  <2>4. /\ Alive(k) /\ Watched(k) /\ Timed(k)
        /\ k.buffer = "data" => k.defer \/ k.recvTimer # "off"
    BY <1>2 DEF Sound, Timed
  <2> QED
    BY <2>2, <2>3, <2>4, SetStateSound DEF Safe
<1> QED
  BY <1>1, <1>2

(***************************************************************************)
(* One connection changes                                                  *)
(***************************************************************************)
LEMMA OpenFinite == IsFiniteSet(Open) /\ Cardinality(Open) \in Nat
<1>1. Open \in SUBSET Conn
  BY DEF Open
<1> QED
  BY <1>1, ConnectionAssumption, FS_Subset, FS_CardinalityType

(* What an action leaves to show beyond the connections                    *)
Rest ==
    /\ mute' \subseteq Conn /\ passed' \subseteq Worker /\ lost' \in 0 .. MaxLost

LEMMA Others ==
  ASSUME Counted, NEW c \in Conn, NEW k, Becomes(c, k)
  PROVE  /\ state'[c] = k.state /\ request'[c] = k.request /\ recvTimer'[c] = k.recvTimer
         /\ sendTimer'[c] = k.sendTimer /\ buffer'[c] = k.buffer /\ blocked'[c] = k.blocked
         /\ c \in deferred' <=> k.defer
         /\ \A e \in Conn \ {c} :
              /\ state'[e] = state[e] /\ request'[e] = request[e]
              /\ recvTimer'[e] = recvTimer[e] /\ sendTimer'[e] = sendTimer[e]
              /\ buffer'[e] = buffer[e] /\ blocked'[e] = blocked[e]
              /\ e \in deferred' <=> e \in deferred
<1>1. TypeOK
  BY DEF Counted
<1> QED
  BY <1>1 DEF Becomes, TypeOK

LEMMA BecomesTyped ==
  ASSUME TypeOK, NEW c \in Conn, NEW k, k \in Records \/ k = Freed, Becomes(c, k),
         count' \in Nat, Rest
  PROVE  TypeOK'
<1>1. /\ k.state \in {"free", "reading", "writing", "idle", "closed"}
      /\ k.request \in {"none", "head", "work", "wait", "body"}
      /\ k.recvTimer \in {"off", "recv", "keepalive"} /\ k.sendTimer \in BOOLEAN
      /\ k.buffer \in {"null", "empty", "data"} /\ k.blocked \in BOOLEAN
  <2>1. CASE k \in Records
    BY <2>1 DEF Records
  <2>2. CASE k = Freed
    BY <2>2 DEF Freed, Closed
  <2> QED
    BY <2>1, <2>2
<1>2. /\ owner' \in [Conn -> Worker \cup {"none"}]
      /\ state' \in [Conn -> {"free", "reading", "writing", "idle", "closed"}]
      /\ request' \in [Conn -> {"none", "head", "work", "wait", "body"}]
  BY <1>1 DEF TypeOK, Becomes
<1>3. /\ recvTimer' \in [Conn -> {"off", "recv", "keepalive"}]
      /\ sendTimer' \in [Conn -> BOOLEAN]
      /\ buffer' \in [Conn -> {"null", "empty", "data"}]
      /\ blocked' \in [Conn -> BOOLEAN]
      /\ deferred' \subseteq Conn
  BY <1>1 DEF TypeOK, Becomes
<1> QED
  BY <1>2, <1>3 DEF TypeOK, Rest

(* A callback of an open connection                                        *)
LEMMA BecomesSafe ==
  ASSUME Counted, Unsent, Untimed, Listed, NEW c \in Open, NEW k, Safe(k), Becomes(c, k),
         Rest, lost' = lost
  PROVE  /\ Counted' /\ Unsent' /\ Untimed' /\ Listed'
         /\ count' \in Nat /\ count' = IF k = Closed THEN count - 1 ELSE count
<1>1. c \in Conn /\ state[c] \in {"reading", "writing", "idle"} /\ TypeOK
  BY DEF Open, Counted
<1>2. k \in Records /\ (k = Closed \/ (k.state \in {"reading", "writing", "idle"} /\ k # Closed))
  BY ClosedIs DEF Safe, Sound, Alive
<1>3. /\ count \in Nat /\ lost \in Nat /\ count = Cardinality(Open) + lost
      /\ IsFiniteSet(Open) /\ Cardinality(Open) \in Nat
  BY <1>1, OpenFinite DEF Counted, TypeOK
<1>4. Cardinality(Open \ {c}) = Cardinality(Open) - 1 /\ Cardinality(Open \ {c}) \in Nat
  BY <1>3, FS_RemoveElement, FS_CardinalityType
<1>5. count' = IF k = Closed THEN count - 1 ELSE count
  <2>1. k.state = "closed" <=> k = Closed
    BY <1>2, ClosedIs
  <2> QED
    BY <1>1, <2>1 DEF Becomes
<1>6. Open' = IF k = Closed THEN Open \ {c} ELSE Open
  <2>1. state'[c] = k.state /\ \A e \in Conn \ {c} : state'[e] = state[e]
    BY <1>1, Others
  <2> QED
    BY <1>1, <1>2, <2>1, ClosedIs DEF Open
<1>7. count' \in Nat /\ count' = Cardinality(Open)' + lost'
  BY <1>3, <1>4, <1>5, <1>6
<1>8. TypeOK'
  BY <1>1, <1>2, <1>7, BecomesTyped
<1>9. \A e \in Conn : state'[e] = "closed" => e \in deferred'
  BY <1>1, <1>2, Others, ClosedIs DEF Counted
<1>10. \A e \in Conn : e \notin Open' => request'[e] = "none" /\ recvTimer'[e] = "off"
                                          /\ ~sendTimer'[e] /\ buffer'[e] = "null"
  <2>1. ASSUME k = Closed
        PROVE  request'[c] = "none" /\ recvTimer'[c] = "off" /\ ~sendTimer'[c] /\ buffer'[c] = "null"
    BY <1>1, <2>1, Others, ClosedIs
  <2>2. ASSUME NEW e \in Conn \ {c}, e \notin Open'
        PROVE  request'[e] = "none" /\ recvTimer'[e] = "off" /\ ~sendTimer'[e] /\ buffer'[e] = "null"
    <3>1. e \notin Open
      BY <1>6, <2>2
    <3> QED
      BY <1>1, <3>1, Others DEF Counted
  <2> QED
    BY <1>6, <2>1, <2>2
<1>11. ASSUME NEW e \in Open', e # c
       PROVE  e \in Open /\ e \in Conn \ {c}
  BY <1>6, <1>11 DEF Open
<1>12. ASSUME c \in Open'
       PROVE  Sound(k)
  BY <1>6, <1>12 DEF Safe
<1>13. Unsent'
  BY <1>1, <1>11, <1>12, Others DEF Unsent, Sound, Watched
<1>14. Untimed'
  BY <1>1, <1>11, <1>12, Others DEF Untimed, Sound, Alive, Timed
<1>15. Listed'
  <2>1. deferred' \subseteq Conn /\ state'[c] # "free"
    BY <1>1, <1>2, <1>8, Others, ClosedIs DEF TypeOK
  <2> QED
    BY <1>1, <2>1, Others DEF Listed
<1> QED
  BY <1>5, <1>7, <1>8, <1>9, <1>10, <1>13, <1>14, <1>15 DEF Counted

(* free(c), of the deferred routine                                        *)
LEMMA FreeSafe ==
  ASSUME Counted, Unsent, Untimed, Listed, NEW c \in Conn, state[c] = "closed",
         Becomes(c, Freed), Rest, lost' = lost
  PROVE  Counted' /\ Unsent' /\ Untimed' /\ Listed' /\ count' = count
<1>1. TypeOK
  BY DEF Counted
<1>2. count' = count
  BY DEF Becomes
<1>3. Open' = Open
  BY Others, FreedIs DEF Open
<1>4. TypeOK'
  BY <1>1, <1>2, BecomesTyped DEF TypeOK
<1>5. count' = Cardinality(Open)' + lost'
  BY <1>2, <1>3 DEF Counted
<1>6. \A e \in Conn : state'[e] = "closed" => e \in deferred'
  BY Others, FreedIs DEF Counted
<1>7. \A e \in Conn : e \notin Open' => request'[e] = "none" /\ recvTimer'[e] = "off"
                                         /\ ~sendTimer'[e] /\ buffer'[e] = "null"
  BY <1>3, Others, FreedIs DEF Counted
<1>8. \A e \in Open' : e \in Open /\ e \in Conn \ {c}
  BY <1>3 DEF Open
<1>9. Unsent'
  BY <1>8, Others DEF Unsent
<1>10. Untimed'
  BY <1>8, Others DEF Untimed
<1>11. Listed'
  BY <1>4, Others, FreedIs DEF Listed, TypeOK
<1> QED
  BY <1>2, <1>4, <1>5, <1>6, <1>7, <1>9, <1>10, <1>11 DEF Counted

(***************************************************************************)
(* Steps                                                                   *)
(***************************************************************************)
LEMMA InitConn == Init => ConnInv
<1> SUFFICES ASSUME Init PROVE ConnInv
  OBVIOUS
<1>1. Open = {}
  BY DEF Init, Open
<1>2. Cardinality(Open) = 0
  BY <1>1, FS_EmptySet
<1>3. Counted
  <2>1. TypeOK
    BY ConnectionAssumption DEF Init, TypeOK
  <2> QED
    BY <1>2, <2>1 DEF Init, Counted
<1>4. Bounded
  <2>1. Cardinality(passed) = 0 /\ Cardinality(Worker) \in Nat
    BY FS_EmptySet, FS_CardinalityType, ConnectionAssumption DEF Init
  <2> QED
    BY <2>1, ConnectionAssumption DEF Init, Bounded
<1> QED
  BY <1>1, <1>3, <1>4 DEF ConnInv, Init, Unsent, Untimed, Listed

(* What a callback does to the counter keeps the bound.                    *)
LEMMA BoundedStays ==
  ASSUME Counted, Bounded, passed' = passed, count' \in Nat, count' <= count
  PROVE  Bounded'
<1>1. Cardinality(passed) \in Nat /\ Cardinality(Worker) \in Nat /\ count \in Nat
  BY FS_Subset, FS_CardinalityType, ConnectionAssumption DEF Counted, TypeOK
<1> QED
  BY <1>1, ConnectionAssumption DEF Bounded

LEMMA CallbackSafe ==
  ASSUME ConnInv, NEW c \in Open, NEW k, Safe(k), Becomes(c, k), Stays
  PROVE  ConnInv'
<1>1. TypeOK /\ count \in Nat
  BY DEF ConnInv, Counted, TypeOK
<1>2. Rest /\ lost' = lost /\ passed' = passed
  BY <1>1 DEF Rest, Stays, TypeOK
<1>3. Counted' /\ Unsent' /\ Untimed' /\ Listed' /\ count' \in Nat /\ count' <= count
  BY <1>1, <1>2, BecomesSafe DEF ConnInv
<1> QED
  BY <1>2, <1>3, BoundedStays DEF ConnInv

LEMMA ClosedSafe == Safe(Closed)
  BY DEF Safe

LEMMA ReadableSafe ==
  ASSUME ConnInv, NEW c \in Conn, Readable(c)
  PROVE  ConnInv'
<1>1. c \in Open /\ Stays
  BY DEF Readable, Ready
<1>2. Sound(Now(c))
  BY <1>1, NowSound DEF ConnInv
<1>3. Now(c).request = request[c]
  BY NowIs DEF ConnInv, Counted
<1> DEFINE k == IF request[c] = "none" THEN [Now(c) EXCEPT !.request = "head"] ELSE Now(c)
<1>4. Sound(k) /\ k.request # "none"
  BY <1>2, <1>3 DEF Sound, Alive, Timed, Watched, Records
<1>5. PICK run \in Runs(k, FALSE) : Becomes(c, StateOfRequest(run))
  BY DEF Readable
<1> HIDE DEF k
<1>6. Safe(StateOfRequest(run))
  BY <1>4, <1>5, RunsSound, StateOfRequestSound
<1> QED
  BY <1>1, <1>5, <1>6, CallbackSafe

LEMMA WritableSafe ==
  ASSUME ConnInv, NEW c \in Conn, Writable(c)
  PROVE  ConnInv'
<1>1. c \in Open /\ Stays
  BY DEF Writable, Ready
<1>2. Sound(Now(c))
  BY <1>1, NowSound DEF ConnInv
<1> DEFINE k == [Now(c) EXCEPT !.blocked = FALSE]
<1>3. Alive(k) /\ Timed(k)
  BY <1>2 DEF Sound, Alive, Timed, Records
<1>4. PICK f \in Flush(k, FALSE) :
        IF f.blocked \/ f.state = "closed" \/ f.request = "none" THEN Becomes(c, f)
        ELSE \E run \in Runs(f, FALSE) : Becomes(c, StateOfRequest(run))
  BY DEF Writable
<1> HIDE DEF k
<1>5. f = Closed \/ Sound(f)
  BY <1>3, <1>4, FlushSound
<1>6. CASE Becomes(c, f)
  BY <1>1, <1>5, <1>6, CallbackSafe DEF Safe
<1>7. ASSUME f.state # "closed", f.request # "none",
             NEW run \in Runs(f, FALSE), Becomes(c, StateOfRequest(run))
      PROVE  ConnInv'
  <2>1. Safe(StateOfRequest(run))
    BY <1>5, <1>7, ClosedIs, RunsSound, StateOfRequestSound
  <2> QED
    BY <1>1, <1>7, <2>1, CallbackSafe
<1> QED
  BY <1>4, <1>6, <1>7

LEMMA WakeSafe ==
  ASSUME ConnInv, NEW c \in Conn, Wake(c)
  PROVE  ConnInv'
<1>1. c \in Open /\ Stays /\ request[c] # "none"
  BY DEF Wake, Ready
<1>2. Sound(Now(c)) /\ Now(c).request # "none"
  BY <1>1, NowSound, NowIs DEF ConnInv, Counted
<1>3. PICK run \in Runs(Now(c), c \in mute) : Becomes(c, run)
  BY DEF Wake
<1>4. Safe(run)
  BY <1>2, <1>3, RunsSound DEF Safe
<1> QED
  BY <1>1, <1>3, <1>4, CallbackSafe

LEMMA EndsSafe ==
  ASSUME ConnInv, NEW c \in Conn, ReadFails(c) \/ RecvTimeout(c) \/ SendTimeout(c)
  PROVE  ConnInv'
<1>1. c \in Open /\ Stays /\ Becomes(c, Closed)
  BY DEF ReadFails, RecvTimeout, SendTimeout, Ready
<1> QED
  BY <1>1, ClosedSafe, CallbackSafe

LEMMA DeferSafe ==
  ASSUME ConnInv, NEW c \in Conn, Defer(c)
  PROVE  ConnInv'
<1>1. Counted /\ Unsent /\ Untimed /\ Listed /\ TypeOK /\ count \in Nat
  BY DEF ConnInv, Counted, TypeOK
<1>2. CASE state[c] = "closed"
  <2>1. Becomes(c, Freed) /\ Rest /\ lost' = lost /\ passed' = passed
    BY <1>1, <1>2 DEF Defer, Rest, TypeOK
  <2>2. Counted' /\ Unsent' /\ Untimed' /\ Listed' /\ count' = count
    BY <1>1, <1>2, <2>1, FreeSafe
  <2> QED
    BY <1>1, <2>1, <2>2, BoundedStays DEF ConnInv
<1>3. CASE state[c] # "closed"
  <2> DEFINE k == [Now(c) EXCEPT !.defer = FALSE]
  <2>1. c \in deferred /\ Stays
    BY <1>3 DEF Defer, Stays
  <2>2. PICK f \in Flush(k, c \in mute) :
          IF f.state = "closed" \/ f.buffer = "data" THEN Becomes(c, f)
          ELSE Becomes(c, [f EXCEPT !.buffer = "null"])
    BY <1>3 DEF Defer
  <2>3. CASE c \in Open
    <3>1. Alive(k) /\ Timed(k)
      BY <1>1, <2>3, NowSound DEF Sound, Alive, Timed, Records
    <3> HIDE DEF k
    <3>2. f = Closed \/ Sound(f)
      BY <2>2, <3>1, FlushSound
    <3>3. CASE Becomes(c, f)
      BY <2>1, <2>3, <3>2, <3>3, CallbackSafe DEF Safe
    <3>4. CASE f.state # "closed" /\ Becomes(c, [f EXCEPT !.buffer = "null"])
      <4>1. Sound([f EXCEPT !.buffer = "null"])
        BY <3>2, <3>4, ClosedIs DEF Sound, Alive, Timed, Watched, Records
      <4> QED
        BY <2>1, <2>3, <3>4, <4>1, CallbackSafe DEF Safe
    <3> QED
      BY <2>2, <3>3, <3>4
  <2>4. c \in Open
    BY <1>1, <1>3, <2>1 DEF Listed, Open, TypeOK
  <2> QED
    BY <2>3, <2>4
<1> QED
  BY <1>2, <1>3

(***************************************************************************)
(* Accepting: the counter and the workers that passed the test             *)
(***************************************************************************)
LEMMA Numbers ==
  ASSUME ConnInv
  PROVE  /\ TypeOK /\ count \in Nat /\ lost \in Nat /\ count = Cardinality(Open) + lost
         /\ IsFiniteSet(Open) /\ Cardinality(Open) \in Nat
         /\ IsFiniteSet(passed) /\ Cardinality(passed) \in Nat
         /\ IsFiniteSet(Worker) /\ Cardinality(Worker) \in Nat
         /\ \A w \in Worker : /\ w \in passed => Cardinality(passed \ {w}) = Cardinality(passed) - 1
                              /\ w \notin passed => Cardinality(passed \cup {w}) = Cardinality(passed) + 1
<1>1. TypeOK /\ count \in Nat /\ lost \in Nat /\ count = Cardinality(Open) + lost
  BY DEF ConnInv, Counted, TypeOK
<1>2. /\ IsFiniteSet(passed) /\ Cardinality(passed) \in Nat
      /\ IsFiniteSet(Worker) /\ Cardinality(Worker) \in Nat
  BY <1>1, FS_Subset, FS_CardinalityType, ConnectionAssumption DEF TypeOK
<1>3. ASSUME NEW w \in Worker
      PROVE  /\ w \in passed => Cardinality(passed \ {w}) = Cardinality(passed) - 1
             /\ w \notin passed => Cardinality(passed \cup {w}) = Cardinality(passed) + 1
  BY <1>2, FS_AddElement, FS_RemoveElement
<1> QED
  BY <1>1, <1>2, <1>3, OpenFinite

(* A step that changes no connection                                       *)
LEMMA SameConn ==
  ASSUME ConnInv, UNCHANGED conn, deferred' = deferred, Rest,
         count' \in Nat, count' - lost' = count - lost, lost' \in Nat
  PROVE  Counted' /\ Unsent' /\ Untimed' /\ Listed'
<1>1. Open' = Open
  BY DEF conn, Open
<1>2. TypeOK'
  BY Numbers DEF TypeOK, conn, Rest
<1>3. count' = Cardinality(Open)' + lost'
  BY <1>1, Numbers
<1>4. Counted'
  BY <1>1, <1>2, <1>3 DEF Counted, ConnInv, conn
<1> QED
  BY <1>1, <1>4 DEF ConnInv, Unsent, Untimed, Listed, conn

LEMMA TestSafe ==
  ASSUME ConnInv, NEW w \in Worker, Test(w)
  PROVE  ConnInv'
<1>1. Rest /\ UNCHANGED <<conn, deferred, count, lost>>
  BY Numbers DEF Test, Rest, TypeOK
<1>2. Counted' /\ Unsent' /\ Untimed' /\ Listed'
  BY <1>1, Numbers, SameConn
<1>3. Bounded'
  <2>1. passed \cup {w} \in SUBSET Worker
    BY Numbers DEF TypeOK
  <2>2. Cardinality(passed \cup {w}) <= Cardinality(Worker) /\ Cardinality(passed \cup {w}) \in Nat
    BY <2>1, Numbers, FS_Subset, FS_CardinalityType
  <2>3. count' = count /\ passed' = passed \cup {w} /\ ~Full
    BY DEF Test
  <2> QED
    BY <2>2, <2>3, Numbers, ConnectionAssumption DEF Full, Bounded
<1> QED
  BY <1>2, <1>3 DEF ConnInv

LEMMA TestFullSafe ==
  ASSUME ConnInv, NEW w \in Worker, TestFull(w)
  PROVE  ConnInv'
<1>1. PICK c \in Open : Becomes(c, Closed)
  BY DEF TestFull
<1>2. Rest /\ lost' = lost /\ passed' = passed \cup {w} /\ w \notin passed
  BY Numbers DEF TestFull, Rest, TypeOK
<1>3. Counted' /\ Unsent' /\ Untimed' /\ Listed' /\ count' = count - 1
  BY <1>1, <1>2, BecomesSafe, ClosedSafe DEF ConnInv
<1>4. Bounded'
  BY <1>2, <1>3, Numbers, ConnectionAssumption DEF ConnInv, Bounded
<1> QED
  BY <1>3, <1>4 DEF ConnInv

LEMMA AcceptFailsSafe ==
  ASSUME ConnInv, NEW w \in Worker, AcceptFails(w)
  PROVE  ConnInv'
<1>1. /\ Rest /\ UNCHANGED <<conn, deferred>> /\ count' = count + 1 /\ lost' = lost + 1
      /\ passed' = passed \ {w} /\ w \in passed
  BY Numbers, ConnectionAssumption DEF AcceptFails, Rest, TypeOK
<1>2. Counted' /\ Unsent' /\ Untimed' /\ Listed'
  BY <1>1, Numbers, SameConn
<1>3. Bounded'
  BY <1>1, Numbers, ConnectionAssumption DEF ConnInv, Bounded
<1> QED
  BY <1>2, <1>3 DEF ConnInv

LEMMA AcceptSafe ==
  ASSUME ConnInv, NEW w \in Worker, NEW c \in Conn, Accept(w, c)
  PROVE  ConnInv'
<1>1. /\ w \in passed /\ passed' = passed \ {w} /\ count' = count + 1 /\ lost' = lost
      /\ state[c] = "free" /\ state' = [state EXCEPT ![c] = "reading"]
      /\ owner' = [owner EXCEPT ![c] = w]
      /\ UNCHANGED <<request, recvTimer, sendTimer, buffer, blocked, deferred, mute>>
  BY DEF Accept
<1>2. Open' = Open \cup {c} /\ c \notin Open
  BY <1>1, Numbers DEF Open, TypeOK
<1>3. Cardinality(Open)' = Cardinality(Open) + 1
  BY <1>2, Numbers, FS_AddElement
<1>4. TypeOK'
  BY <1>1, Numbers DEF TypeOK
<1>5. request[c] = "none" /\ recvTimer[c] = "off" /\ ~sendTimer[c] /\ buffer[c] = "null"
  BY <1>2 DEF ConnInv, Counted
<1>6. Counted'
  <2>1. count' = Cardinality(Open)' + lost'
    BY <1>1, <1>3, Numbers
  <2>2. \A e \in Conn : state'[e] = "closed" => e \in deferred'
    BY <1>1, Numbers DEF ConnInv, Counted, TypeOK
  <2> QED
    BY <1>1, <1>2, <1>4, <2>1, <2>2 DEF ConnInv, Counted
<1>7. Unsent' /\ Untimed'
  BY <1>1, <1>2, <1>5, Numbers DEF ConnInv, Unsent, Untimed, TypeOK
<1>8. Listed'
  BY <1>1, Numbers DEF ConnInv, Listed, TypeOK
<1>9. Bounded'
  BY <1>1, Numbers, ConnectionAssumption DEF ConnInv, Bounded
<1> QED
  BY <1>6, <1>7, <1>8, <1>9 DEF ConnInv

(***************************************************************************)
(* A worker dies: its open connections move from one summand to the other. *)
(***************************************************************************)
LEMMA CrashSafe ==
  ASSUME ConnInv, NEW w \in Worker, Crash(w)
  PROVE  ConnInv'
<1> DEFINE own == {c \in Conn : owner[c] = w}
           gone == Cardinality(own \cap Open)
<1>1. /\ lost' = lost + gone /\ lost + gone <= MaxLost /\ count' = count
      /\ deferred' = deferred \ own /\ mute' = mute \ own /\ passed' = passed \ {w}
      /\ state' = [c \in Conn |-> IF c \in own THEN "free" ELSE state[c]]
      /\ request' = [c \in Conn |-> IF c \in own THEN "none" ELSE request[c]]
      /\ recvTimer' = [c \in Conn |-> IF c \in own THEN "off" ELSE recvTimer[c]]
      /\ sendTimer' = [c \in Conn |-> IF c \in own THEN FALSE ELSE sendTimer[c]]
      /\ buffer' = [c \in Conn |-> IF c \in own THEN "null" ELSE buffer[c]]
      /\ blocked' = [c \in Conn |-> IF c \in own THEN FALSE ELSE blocked[c]]
      /\ owner' = [c \in Conn |-> IF c \in own THEN "none" ELSE owner[c]]
  BY DEF Crash
<1>2. Open' = Open \ own
  BY <1>1, Numbers DEF Open, TypeOK
<1> HIDE DEF own
<1>3. IsFiniteSet(own \cap Open) /\ IsFiniteSet(Open \ own) /\ gone \in Nat
  BY Numbers, FS_Subset, FS_CardinalityType
<1>4. Cardinality(Open) = Cardinality(Open \ own) + gone
  <2> DEFINE left == Open \ own
             out == own \cap Open
  <2>1. Open = left \cup out /\ left \cap out = {}
    OBVIOUS
  <2>2. IsFiniteSet(left) /\ IsFiniteSet(out)
    BY <1>3
  <2> HIDE DEF left, out
  <2>3. Cardinality(left) \in Nat /\ Cardinality(out) \in Nat
    BY <2>2, FS_CardinalityType
  <2>4. /\ Cardinality(left \cup out) = Cardinality(left) + Cardinality(out) - Cardinality(left \cap out)
        /\ Cardinality(left \cap out) = 0
    BY <2>1, <2>2, FS_Union, FS_EmptySet
  <2>5. Cardinality(Open) = Cardinality(left) + Cardinality(out)
    BY <2>1, <2>3, <2>4
  <2> QED
    BY <2>5 DEF left, out
<1>5. TypeOK'
  <2>1. lost' \in 0 .. MaxLost
    BY <1>1, <1>3, Numbers, ConnectionAssumption
  <2>2. deferred' \subseteq Conn /\ mute' \subseteq Conn /\ passed' \subseteq Worker /\ count' \in Nat
    BY <1>1, Numbers DEF TypeOK
  <2>3. /\ owner' \in [Conn -> Worker \cup {"none"}]
        /\ state' \in [Conn -> {"free", "reading", "writing", "idle", "closed"}]
        /\ request' \in [Conn -> {"none", "head", "work", "wait", "body"}]
        /\ recvTimer' \in [Conn -> {"off", "recv", "keepalive"}]
    BY <1>1, Numbers DEF TypeOK
  <2>4. /\ sendTimer' \in [Conn -> BOOLEAN]
        /\ buffer' \in [Conn -> {"null", "empty", "data"}]
        /\ blocked' \in [Conn -> BOOLEAN]
    BY <1>1, Numbers DEF TypeOK
  <2> QED
    BY <2>1, <2>2, <2>3, <2>4 DEF TypeOK
<1>6. Counted'
  <2>1. count' = Cardinality(Open)' + lost'
    BY <1>1, <1>2, <1>3, <1>4, Numbers, FS_CardinalityType
  <2>2. \A c \in Conn : state'[c] = "closed" => c \in deferred'
    BY <1>1 DEF ConnInv, Counted
  <2>3. \A c \in Conn : c \notin Open' => request'[c] = "none" /\ recvTimer'[c] = "off"
                                           /\ ~sendTimer'[c] /\ buffer'[c] = "null"
    BY <1>1, <1>2 DEF ConnInv, Counted
  <2> QED
    BY <1>5, <2>1, <2>2, <2>3 DEF Counted
<1>7. \A c \in Open' : c \in Open /\ c \in Conn /\ c \notin own
  BY <1>2 DEF Open
<1>8. Unsent' /\ Untimed'
  BY <1>1, <1>7 DEF ConnInv, Unsent, Untimed
<1>9. Listed'
  BY <1>1, Numbers DEF ConnInv, Listed, TypeOK
<1>10. Bounded'
  <2>1. Cardinality(passed \ {w}) \in Nat /\ Cardinality(passed \ {w}) <= Cardinality(passed)
    BY Numbers, FS_Subset, FS_CardinalityType
  <2> QED
    BY <1>1, <2>1, Numbers, ConnectionAssumption DEF ConnInv, Bounded
<1> QED
  BY <1>6, <1>8, <1>9, <1>10 DEF ConnInv

LEMMA MuteSafe ==
  ASSUME ConnInv, NEW c \in Conn, Mute(c)
  PROVE  ConnInv'
<1>1. Rest /\ UNCHANGED <<conn, deferred, passed, count, lost>>
  BY Numbers DEF Mute, Rest, TypeOK
<1>2. Counted' /\ Unsent' /\ Untimed' /\ Listed'
  BY <1>1, Numbers, SameConn
<1> QED
  BY <1>1, <1>2, Numbers, BoundedStays DEF ConnInv

LEMMA NextSafe == ConnInv /\ [Next]_vars => ConnInv'
<1> SUFFICES ASSUME ConnInv, [Next]_vars PROVE ConnInv'
  OBVIOUS
<1>1. ASSUME NEW w \in Worker, Test(w) \/ TestFull(w) \/ AcceptFails(w) \/ Crash(w)
      PROVE  ConnInv'
  BY <1>1, TestSafe, TestFullSafe, AcceptFailsSafe, CrashSafe
<1>2. ASSUME NEW w \in Worker, NEW c \in Conn, Accept(w, c) PROVE ConnInv'
  BY <1>2, AcceptSafe
<1>3. ASSUME NEW c \in Conn, Callback(c) PROVE ConnInv'
  BY <1>3, ReadableSafe, WritableSafe, WakeSafe, EndsSafe, DeferSafe, MuteSafe DEF Callback
<1>4. CASE UNCHANGED vars
  <2>1. Rest /\ UNCHANGED <<conn, deferred, passed, count, lost>>
    BY <1>4, Numbers DEF vars, Rest, TypeOK
  <2>2. Counted' /\ Unsent' /\ Untimed' /\ Listed'
    BY <2>1, Numbers, SameConn
  <2> QED
    BY <2>1, <2>2, Numbers, BoundedStays DEF ConnInv
<1> QED
  BY <1>1, <1>2, <1>3, <1>4 DEF Next

LEMMA ConnInvariance == Spec => []ConnInv
  BY InitConn, NextSafe, PTL DEF Spec

(***************************************************************************)
(* The theorems                                                            *)
(***************************************************************************)
(* Each connection is counted down once, in phl_connection_close(), on     *)
(* whichever way it gets there; only workers that die and failed           *)
(* allocations leave anything in the shared counter.                       *)
THEOREM CountedHolds == Spec => []Counted
<1>1. ConnInv => Counted
  BY DEF ConnInv
<1> QED
  BY <1>1, ConnInvariance, PTL

(* However the workers' tests of the limit and their additions interleave, *)
(* phl_connection_on_accept() exceeds the limit by less than the workers.  *)
THEOREM BoundedHolds == Spec => []Bounded
<1>1. ConnInv => Bounded
  BY DEF ConnInv
<1> QED
  BY <1>1, ConnInvariance, PTL

(* phl_connection_flush(), phl_connection_make_space() and the states of   *)
(* phl_http1.c never leave data in a send buffer that nothing watches.     *)
THEOREM UnsentHolds == Spec => []Unsent
<1>1. ConnInv => Unsent
  BY DEF ConnInv
<1> QED
  BY <1>1, ConnInvariance, PTL


-----------------------------------------------------------------------------
(***************************************************************************)
(* The table of the request limit.  OwnMeter is inductive as it stands:    *)
(* that the list, the free nodes and the buckets fit each other is what    *)
(* makes the node that is found the one of the key or of one alike to it.  *)
(***************************************************************************)
LEMMA AlikeIs ==
  /\ \A j : Alike(j, j)
  /\ \A j, k : Alike(j, k) <=> Alike(k, j)
  /\ \A j, k, l : Alike(j, k) /\ Alike(k, l) => Alike(j, l)
  /\ \A j, k : Alike(j, k) => Bucket[j] = Bucket[k]
  /\ \A j, k : Alike(j, k) <=> Bucket[j] = Bucket[k] /\ Text[j] = Text[k]
  BY DEF Alike

LEMMA Joined ==
  ASSUME NEW a \in Seq(Node), NEW b \in Seq(Node)
  PROVE  /\ a \o b \in Seq(Node) /\ Range(a \o b) = Range(a) \cup Range(b)
         /\ IsInjective(a \o b) <=>
              IsInjective(a) /\ IsInjective(b) /\ Range(a) \cap Range(b) = {}
<1>1. /\ Len(a) \in Nat /\ Len(b) \in Nat /\ DOMAIN a = 1 .. Len(a) /\ DOMAIN b = 1 .. Len(b)
      /\ a \o b \in Seq(Node) /\ DOMAIN (a \o b) = 1 .. Len(a) + Len(b)
      /\ \A i \in 1 .. Len(a) : (a \o b)[i] = a[i]
      /\ \A i \in 1 .. Len(b) : (a \o b)[Len(a) + i] = b[i]
  OBVIOUS
<1> DEFINE ab == a \o b
<1>2. ab = a \o b
  OBVIOUS
<1> HIDE DEF ab
<1>3. \A i \in DOMAIN ab :
         \/ i \in DOMAIN a /\ ab[i] = a[i]
         \/ i - Len(a) \in DOMAIN b /\ ab[i] = b[i - Len(a)]
  <2> TAKE i \in DOMAIN ab
  <2>1. CASE i \in DOMAIN a
    BY <1>1, <1>2, <2>1
  <2>2. CASE i \notin DOMAIN a
    <3>1. i - Len(a) \in 1 .. Len(b) /\ Len(a) + (i - Len(a)) = i
      BY <1>1, <1>2, <2>2
    <3>2. ab[Len(a) + (i - Len(a))] = b[i - Len(a)]
      BY <1>1, <1>2, <3>1
    <3> QED
      BY <1>1, <3>1, <3>2
  <2> QED
    BY <2>1, <2>2
<1>4. \A i \in DOMAIN a : i \in Nat /\ i <= Len(a) /\ i \in DOMAIN ab /\ ab[i] = a[i]
  BY <1>1, <1>2
<1>5. \A i \in DOMAIN b : i \in Nat /\ i > 0 /\ Len(a) + i \in DOMAIN ab /\ ab[Len(a) + i] = b[i]
  BY <1>1, <1>2
<1>6. Range(ab) = Range(a) \cup Range(b)
  BY <1>3, <1>4, <1>5 DEF Range
<1>7. ASSUME IsInjective(ab) PROVE IsInjective(a) /\ IsInjective(b) /\ Range(a) \cap Range(b) = {}
  <2>1. IsInjective(a)
    BY <1>4, <1>7 DEF IsInjective
  <2>2. IsInjective(b)
    BY <1>1, <1>5, <1>7 DEF IsInjective
  <2>3. \A i \in DOMAIN a, j \in DOMAIN b : i # Len(a) + j
    BY <1>1
  <2>4. \A i \in DOMAIN a, j \in DOMAIN b : a[i] # b[j]
    BY <1>4, <1>5, <1>7, <2>3 DEF IsInjective
  <2> QED
    BY <2>1, <2>2, <2>4 DEF Range
<1>8. ASSUME IsInjective(a), IsInjective(b), Range(a) \cap Range(b) = {}
      PROVE  IsInjective(ab)
  <2>1. \A i \in DOMAIN a, j \in DOMAIN b : a[i] # b[j]
    BY <1>8 DEF Range
  <2>2. SUFFICES ASSUME NEW i \in DOMAIN ab, NEW j \in DOMAIN ab, ab[i] = ab[j] PROVE i = j
    BY DEF IsInjective
  <2>3. CASE i \in DOMAIN a /\ ab[i] = a[i]
    BY <1>3, <1>8, <2>1, <2>2, <2>3 DEF IsInjective
  <2>4. CASE i - Len(a) \in DOMAIN b /\ ab[i] = b[i - Len(a)]
    <3>1. j - Len(a) \in DOMAIN b /\ ab[j] = b[j - Len(a)]
      BY <1>3, <2>1, <2>2, <2>4
    <3>2. i - Len(a) = j - Len(a)
      BY <1>8, <2>2, <2>4, <3>1 DEF IsInjective
    <3> QED
      BY <1>1, <1>2, <3>2
  <2> QED
    BY <1>3, <2>3, <2>4
<1> QED
  BY <1>1, <1>2, <1>6, <1>7, <1>8

LEMMA Single == ASSUME NEW n \in Node
                PROVE  <<n>> \in Seq(Node) /\ Range(<<n>>) = {n} /\ IsInjective(<<n>>)
<1>1. <<n>> \in Seq(Node) /\ DOMAIN <<n>> = {1} /\ <<n>>[1] = n
  OBVIOUS
<1> QED
  BY <1>1 DEF Range, IsInjective

LEMMA Nothing == <<>> \in Seq(Node) /\ Range(<<>>) = {} /\ IsInjective(<<>>)
<1>1. <<>> \in Seq(Node) /\ DOMAIN (<<>>) = {}
  OBVIOUS
<1> QED
  BY <1>1 DEF Range, IsInjective

LEMMA FirstOf ==
  ASSUME NEW s \in Seq(Node), s # <<>>
  PROVE  /\ Head(s) \in Node /\ Tail(s) \in Seq(Node) /\ s = <<Head(s)>> \o Tail(s)
  OBVIOUS

(* The head of a list and the rest of it.                                  *)
LEMMA Taken ==
  ASSUME NEW s \in Seq(Node), s # <<>>
  PROVE  /\ Head(s) \in Node /\ Tail(s) \in Seq(Node)
         /\ Range(s) = {Head(s)} \cup Range(Tail(s))
         /\ IsInjective(s) => IsInjective(Tail(s)) /\ Head(s) \notin Range(Tail(s))
<1>1. Head(s) \in Node /\ Tail(s) \in Seq(Node) /\ s = <<Head(s)>> \o Tail(s)
  BY FirstOf
<1>2. PICK h \in Seq(Node) : h = <<Head(s)>>
  BY <1>1, Single
<1>3. PICK t \in Seq(Node) : t = Tail(s)
  BY <1>1
<1>4. Range(h) = {Head(s)}
  BY <1>1, <1>2, Single
<1>5. s = h \o t
  BY <1>1, <1>2, <1>3
<1>6. /\ Range(h \o t) = Range(h) \cup Range(t)
      /\ IsInjective(h \o t) => IsInjective(t) /\ Range(h) \cap Range(t) = {}
  BY Joined, Zenon
<1> QED
  BY <1>1, <1>3, <1>4, <1>5, <1>6

(* A list in two parts                                                     *)
LEMMA Parts ==
  ASSUME NEW s \in Seq(Node), NEW last \in 0 .. Len(s)
  PROVE  LET a == SubSeq(s, 1, last)
             b == SubSeq(s, last + 1, Len(s))
         IN  /\ a \in Seq(Node) /\ b \in Seq(Node) /\ s = a \o b
             /\ \A n \in Range(a) : \E i \in 1 .. last : s[i] = n
<1>1. Len(s) \in Nat /\ last \in Nat /\ last <= Len(s) /\ \A i \in 1 .. Len(s) : s[i] \in Node
  OBVIOUS
<1> DEFINE a == SubSeq(s, 1, last)
<1> DEFINE b == SubSeq(s, last + 1, Len(s))
<1>2. a \in Seq(Node) /\ Len(a) = last /\ \A i \in 1 .. last : a[i] = s[i]
  BY <1>1, SubSeqProperties
<1>3. b \in Seq(Node)
  BY <1>1, SubSeqProperties
<1>4. s = a \o b
  <2>1. 1 \in 1 .. Len(s) + 1 /\ last \in 1 - 1 .. Len(s) /\ Len(s) \in last .. Len(s)
    BY <1>1
  <2>2. a \o b = SubSeq(s, 1, Len(s))
    BY <2>1, ConcatAdjacentSubSeq, Zenon
  <2>3. SubSeq(s, 1, Len(s)) = s
    BY SubSeqFull
  <2> QED
    BY <2>2, <2>3
<1>5. \A n \in Range(a) : \E i \in 1 .. last : s[i] = n
  BY <1>2 DEF Range
<1> QED
  BY <1>2, <1>3, <1>4, <1>5


(* Linked by its parts                                                     *)
Chained(buckets, list, keys) ==
    \A b \in Hashes : \A n \in Node :
        buckets[b][n] = IF n \in Range(list) /\ Bucket[keys[n]] = b THEN 1 ELSE 0
Shared(list, unused) ==
    /\ IsInjective(list) /\ IsInjective(unused)
    /\ Range(list) \cap Range(unused) = {} /\ Range(list) \cup Range(unused) = 1 .. used

LEMMA LimitTyped ==
  ASSUME LimitTypes
  PROVE  /\ bucket \in [Hashes -> [Node -> Nat]]
         /\ lru \in Seq(Node) /\ free \in Seq(Node)
         /\ used \in Nat /\ used <= Nodes
         /\ Range(lru) \subseteq Node /\ Range(free) \subseteq Node
         /\ key \in [Node -> Key] /\ evicted \in BOOLEAN
         /\ \A n \in Node : key[n] \in Key /\ meter[n] \in Nat /\ meter[n] <= Burst
         /\ \A k \in Key : due[k] \in Nat /\ due[k] <= Burst /\ Bucket[k] \in Hashes
<1>1. /\ bucket \in [Hashes -> [Node -> Nat]] /\ lru \in Seq(Node) /\ free \in Seq(Node)
      /\ used \in 0 .. Nodes /\ Nodes \in Nat
      /\ key \in [Node -> Key] /\ meter \in [Node -> 0 .. Burst] /\ Burst \in Nat
      /\ due \in [Key -> 0 .. Burst] /\ evicted \in BOOLEAN
  BY LimitReqAssumption DEF LimitTypes
<1>2. Range(lru) \subseteq Node /\ Range(free) \subseteq Node
  BY <1>1, RangeOfSeq
<1>3. used \in Nat /\ used <= Nodes
  BY <1>1
<1>4. \A n \in Node : key[n] \in Key /\ meter[n] \in Nat /\ meter[n] <= Burst
  BY <1>1
<1>5. \A k \in Key : due[k] \in Nat /\ due[k] <= Burst /\ Bucket[k] \in Hashes
  BY <1>1 DEF Hashes
<1> QED
  BY <1>1, <1>2, <1>3, <1>4, <1>5

LEMMA LinkedIs ==
  ASSUME LimitTypes
  PROVE  Linked <=> /\ Shared(lru, free) /\ Chained(bucket, lru, key)
                    /\ \A m, n \in Range(lru) : Alike(key[m], key[n]) => m = n
<1>1. /\ Range(lru \o free) = Range(lru) \cup Range(free)
      /\ IsInjective(lru \o free) <=>
           IsInjective(lru) /\ IsInjective(free) /\ Range(lru) \cap Range(free) = {}
  BY LimitTyped, Joined
<1> QED
  BY <1>1 DEF Linked, Shared, Chained

LEMMA LinkedNext ==
  ASSUME LimitTypes', Shared(lru, free)', Chained(bucket', lru', key'),
         \A m, n \in Range(lru') : Alike(key'[m], key'[n]) => m = n
  PROVE  Linked'
<1>1. lru' \in Seq(Node) /\ free' \in Seq(Node)
  BY DEF LimitTypes
<1>2. /\ Range(lru' \o free') = Range(lru') \cup Range(free')
      /\ IsInjective(lru' \o free') <=>
           IsInjective(lru') /\ IsInjective(free') /\ Range(lru') \cap Range(free') = {}
  BY <1>1, Joined
<1> QED
  BY <1>2 DEF Linked, Shared, Chained

(* What the search of phl_limit_req_process_headers() finds                *)
LEMMA FoundIs ==
  ASSUME LimitTypes, NEW k \in Key, Chained(bucket, lru, key)
  PROVE  Found(k) = {n \in Range(lru) : Alike(key[n], k)}
<1>1. Bucket[k] \in Hashes /\ Range(lru) \subseteq Node
  BY LimitTyped
<1>2. \A n \in Node : bucket[Bucket[k]][n] > 0 <=> n \in Range(lru) /\ Bucket[key[n]] = Bucket[k]
  BY <1>1 DEF Chained
<1> QED
  BY <1>1, <1>2, AlikeIs DEF Found

LEMMA FoundNext ==
  ASSUME LimitTypes', NEW k \in Key, Chained(bucket', lru', key')
  PROVE  Found(k)' = {n \in Range(lru') : Alike(key'[n], k)}
<1>1. Bucket[k] \in Hashes /\ Range(lru') \subseteq Node
  BY RangeOfSeq DEF LimitTypes, Hashes
<1>2. \A n \in Node : bucket'[Bucket[k]][n] > 0 <=> n \in Range(lru') /\ Bucket[key'[n]] = Bucket[k]
  BY <1>1 DEF Chained
<1> QED
  BY <1>1, <1>2, AlikeIs DEF Found

(* OwnMeter, with Found spelt out                                          *)
LEMMA OwnIs ==
  ASSUME OwnMeter
  PROVE  /\ LimitTypes /\ Shared(lru, free) /\ Chained(bucket, lru, key)
         /\ \A m, n \in Range(lru) : Alike(key[m], key[n]) => m = n
         /\ \A n \in Range(lru) : \A k \in Key : Alike(key[n], k) => meter[n] <= due[k]
         /\ refused \subseteq {Burst}
         /\ \A k \in Key : Found(k) = {n \in Range(lru) : Alike(key[n], k)}
         /\ ~evicted => \A k \in Key :
               /\ (\A n \in Range(lru) : ~Alike(key[n], k)) => due[k] = 0
               /\ \A n \in Range(lru) : Alike(key[n], k) => due[k] = meter[n]
<1>1. /\ LimitTypes /\ Shared(lru, free) /\ Chained(bucket, lru, key)
      /\ \A m, n \in Range(lru) : Alike(key[m], key[n]) => m = n
  BY LinkedIs DEF OwnMeter
<1>2. \A k \in Key : Found(k) = {n \in Range(lru) : Alike(key[n], k)}
  BY <1>1, FoundIs
<1> QED
  BY <1>1, <1>2 DEF OwnMeter

LEMMA OwnNext ==
  ASSUME LimitTypes', Shared(lru, free)', Chained(bucket', lru', key'),
         \A m, n \in Range(lru') : Alike(key'[m], key'[n]) => m = n,
         \A n \in Range(lru') : \A k \in Key : Alike(key'[n], k) => meter'[n] <= due'[k],
         refused' \subseteq {Burst},
         ~evicted' => \A k \in Key :
               /\ (\A n \in Range(lru') : ~Alike(key'[n], k)) => due'[k] = 0
               /\ \A n \in Range(lru') : Alike(key'[n], k) => due'[k] = meter'[n]
  PROVE  OwnMeter'
<1>1. Linked'
  BY LinkedNext
<1>2. \A k \in Key : Found(k)' = {n \in Range(lru') : Alike(key'[n], k)}
  BY FoundNext
<1> QED
  BY <1>1, <1>2 DEF OwnMeter

LEMMA InitLimit == LimitInit => OwnMeter
<1> SUFFICES ASSUME LimitInit PROVE OwnMeter
  OBVIOUS
<1>1. /\ lru = <<>> /\ free = <<>> /\ used = 0
      /\ bucket = [b \in Hashes |-> [n \in Node |-> 0]]
      /\ key \in [Node -> Key]
      /\ meter = [n \in Node |-> 0] /\ due = [k \in Key |-> 0] /\ refused = {} /\ evicted = FALSE
  BY LimitReqAssumption DEF LimitInit
<1>2. LimitTypes
  <2>1. 0 \in 0 .. Nodes /\ 0 \in 0 .. Burst
    BY LimitReqAssumption
  <2>2. lru \in Seq(Node) /\ free \in Seq(Node)
    BY <1>1, Nothing
  <2>3. bucket \in [Hashes -> [Node -> Nat]]
    BY <1>1
  <2>4. meter \in [Node -> 0 .. Burst] /\ due \in [Key -> 0 .. Burst]
    BY <1>1, <2>1
  <2> QED
    BY <1>1, <2>1, <2>2, <2>3, <2>4 DEF LimitTypes
<1>3. Range(lru) = {} /\ Range(free) = {} /\ IsInjective(lru) /\ IsInjective(free)
  BY <1>1, Nothing
<1>4. Shared(lru, free)
  BY <1>1, <1>3 DEF Shared
<1>5. Chained(bucket, lru, key)
  BY <1>1, <1>3 DEF Chained
<1>6. Linked
  BY <1>2, <1>3, <1>4, <1>5, LinkedIs
<1>7. \A k \in Key : Found(k) = {}
  BY <1>2, <1>3, <1>5, FoundIs
<1> QED
  BY <1>1, <1>2, <1>3, <1>6, <1>7 DEF OwnMeter


LEMMA PassesStep == ASSUME OwnMeter, NEW k \in Key, Passes(k) PROVE OwnMeter'
<1>1. PICK n \in Found(k) :
        /\ meter[n] < Burst /\ meter' = [meter EXCEPT ![n] = @ + 1]
        /\ due' = [j \in Key |-> IF Alike(j, k) /\ due[j] < Burst THEN due[j] + 1 ELSE due[j]]
        /\ UNCHANGED <<bucket, lru, free, used, key, evicted, refused>>
  BY DEF Passes, Answered
<1>2. LimitTypes /\ n \in Range(lru) /\ n \in Node /\ Alike(key[n], k)
  BY <1>1, OwnIs, LimitTyped
<1>3. /\ \A m \in Node : key[m] \in Key /\ meter[m] \in Nat /\ meter[m] <= Burst
      /\ \A x \in Key : due[x] \in Nat /\ due[x] <= Burst
      /\ Burst \in Nat /\ Range(lru) \subseteq Node
  BY <1>2, LimitTyped, LimitReqAssumption
<1>4. /\ meter' \in [Node -> 0 .. Burst] /\ due' \in [Key -> 0 .. Burst]
      /\ meter'[n] = meter[n] + 1 /\ \A m \in Node : m # n => meter'[m] = meter[m]
      /\ \A x \in Key : due'[x] = IF Alike(x, k) /\ due[x] < Burst THEN due[x] + 1 ELSE due[x]
  <2>1. meter \in [Node -> 0 .. Burst] /\ due \in [Key -> 0 .. Burst]
    BY <1>2 DEF LimitTypes
  <2>2. /\ meter[n] + 1 \in 0 .. Burst
        /\ \A j \in Key :
             (IF Alike(j, k) /\ due[j] < Burst THEN due[j] + 1 ELSE due[j]) \in 0 .. Burst
    BY <1>1, <1>2, <1>3
  <2> QED
    BY <1>1, <1>2, <2>1, <2>2
<1>5. LimitTypes'
  BY <1>1, <1>2, <1>4 DEF LimitTypes
<1>6. Shared(lru, free)' /\ Chained(bucket', lru', key') /\ refused' \subseteq {Burst}
  BY <1>1, OwnIs DEF Shared
<1>7. \A l, m \in Range(lru') : Alike(key'[l], key'[m]) => l = m
  BY <1>1, OwnIs
<1>8. ASSUME NEW m \in Range(lru'), NEW x \in Key, Alike(key'[m], x) PROVE meter'[m] <= due'[x]
  <2>1. meter[m] <= due[x] /\ m \in Node
    BY <1>1, <1>2, <1>3, <1>8, OwnIs
  <2>2. m = n => Alike(x, k)
    BY <1>1, <1>2, <1>8, AlikeIs
  <2> QED
    BY <1>1, <1>2, <1>3, <1>4, <2>1, <2>2
<1>9. ASSUME ~evicted', NEW x \in Key
      PROVE  /\ (\A m \in Range(lru') : ~Alike(key'[m], x)) => due'[x] = 0
             /\ \A m \in Range(lru') : Alike(key'[m], x) => due'[x] = meter'[m]
  <2>1. /\ (\A m \in Range(lru) : ~Alike(key[m], x)) => due[x] = 0
        /\ \A m \in Range(lru) : Alike(key[m], x) => due[x] = meter[m]
    BY <1>1, <1>2, <1>9, OwnIs
  <2>2. ASSUME ~Alike(x, k) PROVE due'[x] = due[x] /\ ~Alike(key[n], x)
    BY <1>2, <1>4, <2>2, AlikeIs
  <2>3. ASSUME Alike(x, k) PROVE due'[x] = meter'[n] /\ Alike(key[n], x)
    <3>1. Alike(key[n], x)
      BY <1>2, <2>3, AlikeIs
    <3>2. due[x] = meter[n]
      BY <1>2, <2>1, <3>1
    <3> QED
      BY <1>1, <1>3, <1>4, <2>3, <3>1, <3>2
  <2>4. \A m \in Range(lru) : m \in Node /\ (Alike(key[m], x) /\ Alike(x, k) => m = n)
    <3> SUFFICES ASSUME NEW m \in Range(lru), Alike(key[m], x), Alike(x, k) PROVE m = n
      BY <1>3
    <3>1. Alike(key[m], key[n])
      BY <1>2, AlikeIs
    <3> QED
      BY <1>2, <3>1, OwnIs
  <2>5. CASE Alike(x, k)
    BY <1>1, <1>2, <2>3, <2>4, <2>5
  <2>6. CASE ~Alike(x, k)
    BY <1>1, <1>2, <1>4, <2>1, <2>2, <2>4, <2>6
  <2> QED
    BY <2>5, <2>6
<1> QED
  BY <1>5, <1>6, <1>7, <1>8, <1>9, OwnNext

LEMMA LimitedStep == ASSUME OwnMeter, NEW k \in Key, Limited(k) PROVE OwnMeter'
<1>1. PICK n \in Found(k) :
        /\ meter[n] >= Burst /\ refused' = refused \cup {due[k]}
        /\ UNCHANGED <<table, due, evicted>>
  BY DEF Limited
<1>2. LimitTypes /\ n \in Range(lru) /\ n \in Node /\ Alike(key[n], k) /\ refused \subseteq {Burst}
  BY <1>1, OwnIs, LimitTyped
<1>3. meter[n] <= due[k] /\ due[k] <= Burst /\ due[k] \in Nat /\ meter[n] \in Nat /\ Burst \in Nat
  BY <1>2, OwnIs, LimitTyped, LimitReqAssumption
<1>4. due[k] = Burst
  BY <1>1, <1>3
<1> QED
  BY <1>1, <1>2, <1>4 DEF OwnMeter, LimitTypes, Linked, Found, table

LEMMA TickStep == ASSUME OwnMeter, Tick PROVE OwnMeter'
<1>1. /\ meter' = [n \in Node |-> Less(meter[n])] /\ due' = [k \in Key |-> Less(due[k])]
      /\ UNCHANGED <<bucket, lru, free, used, key, refused, evicted>>
  BY DEF Tick
<1>2. LimitTypes /\ Burst \in Nat /\ Rate \in Nat /\ Range(lru) \subseteq Node
  BY OwnIs, LimitTyped, LimitReqAssumption
<1>3. /\ \A m \in Nat : Less(m) \in Nat /\ Less(m) <= m
      /\ \A l, m \in Nat : l <= m => Less(l) <= Less(m)
      /\ Less(0) = 0
  BY <1>2 DEF Less
<1>4. \A m \in 0 .. Burst : Less(m) \in 0 .. Burst
  BY <1>2, <1>3
<1>5. meter \in [Node -> 0 .. Burst] /\ due \in [Key -> 0 .. Burst]
  BY <1>2 DEF LimitTypes
<1>6. meter' \in [Node -> 0 .. Burst] /\ due' \in [Key -> 0 .. Burst]
  BY <1>1, <1>4, <1>5
<1>7. LimitTypes'
  BY <1>1, <1>2, <1>6 DEF LimitTypes
<1>8. Shared(lru, free)' /\ Chained(bucket', lru', key') /\ refused' \subseteq {Burst}
  BY <1>1, OwnIs DEF Shared
<1>9. \A l, m \in Range(lru') : Alike(key'[l], key'[m]) => l = m
  BY <1>1, OwnIs
<1>10. ASSUME NEW m \in Range(lru'), NEW x \in Key, Alike(key'[m], x) PROVE meter'[m] <= due'[x]
  <2>1. /\ m \in Node /\ meter[m] <= due[x] /\ meter[m] \in Nat /\ due[x] \in Nat
    BY <1>1, <1>2, <1>10, OwnIs, LimitTyped
  <2> QED
    BY <1>1, <1>3, <2>1
<1>11. ASSUME ~evicted', NEW x \in Key
       PROVE  /\ (\A m \in Range(lru') : ~Alike(key'[m], x)) => due'[x] = 0
              /\ \A m \in Range(lru') : Alike(key'[m], x) => due'[x] = meter'[m]
  <2>1. /\ (\A m \in Range(lru) : ~Alike(key[m], x)) => due[x] = 0
        /\ \A m \in Range(lru) : Alike(key[m], x) => due[x] = meter[m]
    BY <1>1, <1>11, OwnIs
  <2> QED
    BY <1>1, <1>2, <1>3, <2>1
<1> QED
  BY <1>7, <1>8, <1>9, <1>10, <1>11, OwnNext


(* A node for a key that has none, whichever phl_limit_req_alloc_node()    *)
(* returns: it is neither in what is left of the list nor free, and in no  *)
(* bucket.                                                                 *)
LEMMA InsertStep ==
  ASSUME OwnMeter, NEW k \in Key, NEW n \in Node, NEW buckets, NEW list \in Seq(Node),
         Found(k) = {}, Insert(k, n, buckets, list),
         Range(list) \subseteq Range(lru), n \notin Range(list) \cup Range(free'),
         buckets \in [Hashes -> [Node -> Nat]], Chained(buckets, list, key),
         free' \in Seq(Node), used' \in 0 .. Nodes,
         IsInjective(list), IsInjective(free'), Range(list) \cap Range(free') = {},
         {n} \cup Range(list) \cup Range(free') = 1 .. used',
         evicted' \in BOOLEAN,
         ~evicted' => ~evicted /\ \A m \in Range(lru) \ Range(list) : meter[m] = 0
  PROVE  OwnMeter'
<1>1. /\ key' = [key EXCEPT ![n] = k] /\ meter' = [meter EXCEPT ![n] = 1]
      /\ bucket' = [buckets EXCEPT ![Bucket[k]][n] = @ + 1]
      /\ lru' = <<n>> \o list
      /\ due' = [j \in Key |-> IF Alike(j, k) /\ due[j] < Burst THEN due[j] + 1 ELSE due[j]]
      /\ refused' = refused
  BY DEF Insert, Answered
<1>2. /\ LimitTypes /\ Range(lru) \subseteq Node /\ Bucket[k] \in Hashes
      /\ \A m \in Node : key[m] \in Key /\ meter[m] \in Nat /\ meter[m] <= Burst
      /\ \A x \in Key : due[x] \in Nat /\ due[x] <= Burst
      /\ Burst \in Nat /\ Burst >= 1
  BY OwnIs, LimitTyped, LimitReqAssumption
<1>3. /\ key \in [Node -> Key] /\ meter \in [Node -> 0 .. Burst] /\ due \in [Key -> 0 .. Burst]
  BY <1>2 DEF LimitTypes
<1>4. /\ lru' \in Seq(Node) /\ IsInjective(lru') /\ Range(lru') = {n} \cup Range(list)
  <2>1. PICK s \in Seq(Node) : s = <<n>> /\ Range(s) = {n} /\ IsInjective(s)
    BY Single
  <2>2. /\ s \o list \in Seq(Node) /\ Range(s \o list) = Range(s) \cup Range(list)
        /\ IsInjective(s \o list) <=>
             IsInjective(s) /\ IsInjective(list) /\ Range(s) \cap Range(list) = {}
    BY Joined
  <2> QED
    BY <1>1, <2>1, <2>2
<1>5. /\ key' \in [Node -> Key] /\ meter' \in [Node -> 0 .. Burst] /\ due' \in [Key -> 0 .. Burst]
      /\ key'[n] = k /\ \A m \in Node : m # n => key'[m] = key[m] /\ meter'[m] = meter[m]
      /\ meter'[n] = 1
      /\ \A x \in Key : due'[x] = IF Alike(x, k) /\ due[x] < Burst THEN due[x] + 1 ELSE due[x]
  <2>1. /\ 1 \in 0 .. Burst
        /\ \A j \in Key :
             (IF Alike(j, k) /\ due[j] < Burst THEN due[j] + 1 ELSE due[j]) \in 0 .. Burst
    BY <1>2
  <2> QED
    BY <1>1, <1>3, <2>1
<1>6. bucket' \in [Hashes -> [Node -> Nat]] /\ Chained(bucket', lru', key')
  <2>1. /\ buckets[Bucket[k]] \in [Node -> Nat] /\ buckets[Bucket[k]][n] \in Nat
        /\ \A b \in Hashes : buckets[b] \in [Node -> Nat]
    BY <1>2
  <2>2. /\ bucket'[Bucket[k]] = [buckets[Bucket[k]] EXCEPT ![n] = @ + 1]
        /\ \A b \in Hashes : b # Bucket[k] => bucket'[b] = buckets[b]
        /\ DOMAIN bucket' = Hashes /\ bucket' = [b \in Hashes |-> bucket'[b]]
    BY <1>1, <1>2
  <2>3. bucket'[Bucket[k]] \in [Node -> Nat]
    BY <2>1, <2>2
  <2>4. \A b \in Hashes : bucket'[b] \in [Node -> Nat]
    BY <2>1, <2>2, <2>3
  <2>5. bucket' \in [Hashes -> [Node -> Nat]]
    BY <2>2, <2>4
  <2>6. ASSUME NEW b \in Hashes, NEW m \in Node
        PROVE  bucket'[b][m] = IF m \in Range(lru') /\ Bucket[key'[m]] = b THEN 1 ELSE 0
    <3>1. buckets[b][m] = IF m \in Range(list) /\ Bucket[key[m]] = b THEN 1 ELSE 0
      BY DEF Chained
    <3>2. CASE m = n /\ b = Bucket[k]
      BY <1>4, <1>5, <2>1, <2>2, <3>1, <3>2
    <3>3. CASE m = n /\ b # Bucket[k]
      BY <1>4, <1>5, <2>2, <3>1, <3>3
    <3>4. CASE m # n
      <4>1. bucket'[b][m] = buckets[b][m]
        BY <2>1, <2>2, <3>4
      <4> QED
        BY <1>4, <1>5, <3>1, <3>4, <4>1
    <3> QED
      BY <3>2, <3>3, <3>4
  <2> QED
    BY <2>5, <2>6 DEF Chained
<1>7. LimitTypes'
  BY <1>4, <1>5, <1>6 DEF LimitTypes
<1>8. Shared(lru, free)'
  BY <1>4 DEF Shared
<1>9. \A m \in Range(list) : m \in Node /\ m # n /\ m \in Range(lru) /\ ~Alike(key[m], k)
  BY <1>2, OwnIs
<1>10. \A l, m \in Range(lru') : Alike(key'[l], key'[m]) => l = m
  <2>1. /\ \A m \in Range(lru') : m = n \/ m \in Range(list)
        /\ \A m \in Range(list) : key'[m] = key[m] /\ m \in Range(lru) /\ ~Alike(key[m], k)
        /\ key'[n] = k
    BY <1>4, <1>5, <1>9
  <2>2. \A l, m \in Range(list) : Alike(key[l], key[m]) => l = m
    BY <2>1, OwnIs
  <2> SUFFICES ASSUME NEW l \in Range(lru'), NEW m \in Range(lru'), Alike(key'[l], key'[m])
               PROVE  l = m
    OBVIOUS
  <2>3. CASE l = n
    BY <2>1, <2>3, AlikeIs
  <2>4. CASE m = n
    BY <2>1, <2>4, AlikeIs
  <2>5. CASE l # n /\ m # n
    BY <2>1, <2>2, <2>5
  <2> QED
    BY <2>3, <2>4, <2>5
<1>11. ASSUME NEW m \in Range(lru'), NEW x \in Key, Alike(key'[m], x) PROVE meter'[m] <= due'[x]
  <2>1. CASE m = n
    <3>1. Alike(x, k)
      BY <1>5, <1>11, <2>1, AlikeIs
    <3>2. due'[x] = IF due[x] < Burst THEN due[x] + 1 ELSE due[x]
      BY <1>5, <1>11, <3>1
    <3>3. due[x] \in Nat /\ Burst \in Nat /\ Burst >= 1 /\ meter'[m] = 1
      BY <1>2, <1>5, <1>11, <2>1
    <3> QED
      BY <3>2, <3>3
  <2>2. CASE m \in Range(list)
    <3>1. meter[m] <= due[x] /\ meter[m] \in Nat
      BY <1>2, <1>5, <1>9, <1>11, <2>2, OwnIs
    <3>2. /\ due'[x] = due[x] \/ due'[x] = due[x] + 1
          /\ meter'[m] = meter[m] /\ due[x] \in Nat
      BY <1>2, <1>5, <1>9, <1>11, <2>2
    <3> QED
      BY <3>1, <3>2
  <2> QED
    BY <1>4, <2>1, <2>2
<1>12. refused' \subseteq {Burst}
  BY <1>1, OwnIs
<1>13. ASSUME ~evicted', NEW x \in Key
       PROVE  /\ (\A m \in Range(lru') : ~Alike(key'[m], x)) => due'[x] = 0
              /\ \A m \in Range(lru') : Alike(key'[m], x) => due'[x] = meter'[m]
  <2>1. /\ \A y \in Key : (\A m \in Range(lru) : ~Alike(key[m], y)) => due[y] = 0
        /\ \A y \in Key : \A m \in Range(lru) : Alike(key[m], y) => due[y] = meter[m]
        /\ \A m \in Range(lru) : ~Alike(key[m], k)
    BY <1>13, OwnIs
  <2>2. /\ \A m \in Range(lru') : m = n \/ m \in Range(list)
        /\ \A m \in Range(list) : key'[m] = key[m] /\ meter'[m] = meter[m]
        /\ n \in Range(lru') /\ key'[n] = k /\ meter'[n] = 1
        /\ \A m \in Range(list) : m \in Range(lru')
    BY <1>4, <1>5, <1>9
  <2>3. CASE Alike(x, k)
    <3>1. \A m \in Range(lru) : ~Alike(key[m], x)
      BY <2>1, <2>3, AlikeIs
    <3>2. due[x] = 0
      BY <2>1, <3>1
    <3>3. due'[x] = 1
      <4>1. due'[x] = IF due[x] < Burst THEN due[x] + 1 ELSE due[x]
        BY <1>5, <1>13, <2>3
      <4> QED
        BY <1>2, <3>2, <4>1
    <3>4. Alike(key'[n], x) /\ \A m \in Range(list) : ~Alike(key'[m], x)
      BY <1>9, <2>2, <2>3, <3>1, AlikeIs
    <3> QED
      BY <2>2, <3>3, <3>4
  <2>4. CASE ~Alike(x, k)
    <3>1. due'[x] = due[x] /\ \A m \in Range(lru) \ Range(list) : meter[m] = 0
      BY <1>5, <1>13, <2>4
    <3>2. ASSUME \A m \in Range(lru') : ~Alike(key'[m], x) PROVE due[x] = 0
      <4>1. \A m \in Range(list) : ~Alike(key[m], x)
        BY <2>2, <3>2
      <4> QED
        BY <2>1, <3>1, <4>1
    <3>3. ASSUME NEW m \in Range(lru'), Alike(key'[m], x) PROVE due[x] = meter'[m]
      <4>1. m # n
        BY <2>2, <2>4, <3>3, AlikeIs
      <4>2. m \in Range(list)
        BY <2>2, <3>3, <4>1
      <4>3. m \in Range(lru) /\ Alike(key[m], x) /\ meter'[m] = meter[m]
        BY <1>9, <2>2, <3>3, <4>2
      <4> QED
        BY <2>1, <4>3
    <3> QED
      BY <3>1, <3>2, <3>3
  <2> QED
    BY <2>3, <2>4
<1> QED
  BY <1>6, <1>7, <1>8, <1>10, <1>11, <1>12, <1>13, OwnNext

(* wuy_nop_hlist_delete() of nodes that leave the list                     *)
LEMMA WithoutIs ==
  ASSUME OwnMeter, NEW nodes, NEW list, Range(list) = Range(lru) \ nodes
  PROVE  Without(nodes) \in [Hashes -> [Node -> Nat]] /\ Chained(Without(nodes), list, key)
<1>1. bucket \in [Hashes -> [Node -> Nat]] /\ Chained(bucket, lru, key)
  BY OwnIs, LimitTyped
<1>2. Without(nodes) \in [Hashes -> [Node -> Nat]]
  BY <1>1 DEF Without
<1>3. \A b \in Hashes : \A n \in Node : Without(nodes)[b][n] = IF n \in nodes THEN 0 ELSE bucket[b][n]
  BY DEF Without
<1>4. Chained(Without(nodes), list, key)
  BY <1>1, <1>3 DEF Chained
<1> QED
  BY <1>2, <1>4

LEMMA FromUnusedStep == ASSUME OwnMeter, NEW k \in Key, FromUnused(k) PROVE OwnMeter'
<1>1. /\ Found(k) = {} /\ used < Nodes /\ used' = used + 1 /\ Insert(k, used + 1, bucket, lru)
      /\ free = <<>> /\ UNCHANGED <<free, evicted>>
  BY DEF FromUnused
<1>2. /\ LimitTypes /\ used \in Nat /\ Nodes \in Nat /\ lru \in Seq(Node) /\ free \in Seq(Node)
      /\ bucket \in [Hashes -> [Node -> Nat]] /\ evicted \in BOOLEAN
      /\ Shared(lru, free) /\ Chained(bucket, lru, key)
  BY OwnIs, LimitTyped, LimitReqAssumption
<1>3. used + 1 \in Node /\ used' \in 0 .. Nodes
  BY <1>1, <1>2 DEF Node
<1>4. used + 1 \notin 1 .. used /\ {used + 1} \cup (1 .. used) = 1 .. used'
  BY <1>1, <1>2
<1>5. /\ IsInjective(lru) /\ IsInjective(free') /\ Range(lru) \cap Range(free') = {}
      /\ Range(lru) \cup Range(free') = 1 .. used
  BY <1>1, <1>2 DEF Shared
<1> QED
  BY <1>1, <1>2, <1>3, <1>4, <1>5, InsertStep

LEMMA FromListStep == ASSUME OwnMeter, NEW k \in Key, FromList(k) PROVE OwnMeter'
<1>1. /\ Found(k) = {} /\ free = <<>> /\ used = Nodes /\ evicted' = TRUE
      /\ Insert(k, Head(lru), Without({Head(lru)}), Tail(lru))
      /\ UNCHANGED <<free, used>>
  BY DEF FromList
<1>2. /\ LimitTypes /\ used \in Nat /\ Nodes \in Nat \ {0} /\ lru \in Seq(Node) /\ free \in Seq(Node)
      /\ Shared(lru, free)
  BY OwnIs, LimitTyped, LimitReqAssumption
<1>3. Range(free) = {}
  BY <1>1, Nothing
<1>4. lru # <<>>
  <2>1. 1 \in Range(lru)
    BY <1>1, <1>2, <1>3 DEF Shared
  <2> QED
    BY <2>1, Nothing
<1>5. PICK n \in Node, list \in Seq(Node) : 
        /\ n = Head(lru) /\ list = Tail(lru) /\ Range(lru) = {n} \cup Range(list)
        /\ IsInjective(list) /\ n \notin Range(list)
  BY <1>2, <1>4, Taken DEF Shared
<1>6. Without({n}) \in [Hashes -> [Node -> Nat]] /\ Chained(Without({n}), list, key)
  <2>1. Range(list) = Range(lru) \ {n}
    BY <1>5
  <2> QED
    BY <2>1, WithoutIs
<1>7. /\ free' = free /\ used' = used /\ used' \in 0 .. Nodes
      /\ IsInjective(free') /\ Range(list) \cap Range(free') = {}
      /\ {n} \cup Range(list) \cup Range(free') = 1 .. used'
      /\ n \notin Range(list) \cup Range(free')
  BY <1>1, <1>2, <1>3, <1>5 DEF Shared
<1>8. Insert(k, n, Without({n}), list)
  BY <1>1, <1>5
<1> QED
  BY <1>1, <1>2, <1>5, <1>6, <1>7, <1>8, InsertStep

LEMMA FromFreeStep == ASSUME OwnMeter, NEW k \in Key, FromFree(k) PROVE OwnMeter'
<1>1. PICK last \in 0 .. Len(lru) :
        LET freed == SubSeq(lru, 1, last)
            list == SubSeq(lru, last + 1, Len(lru)) IN
        /\ Found(k) = {} /\ Expires(last) /\ free \o freed # <<>>
        /\ free' = Tail(free \o freed)
        /\ Insert(k, Head(free \o freed), Without(Range(freed)), list)
        /\ UNCHANGED <<used, evicted>>
  BY DEF FromFree
<1>2. /\ LimitTypes /\ used \in 0 .. Nodes /\ lru \in Seq(Node) /\ free \in Seq(Node)
      /\ Shared(lru, free) /\ evicted \in BOOLEAN
  BY OwnIs, LimitTyped DEF LimitTypes
<1>3. PICK freed \in Seq(Node), list \in Seq(Node) :
        /\ freed = SubSeq(lru, 1, last) /\ list = SubSeq(lru, last + 1, Len(lru))
        /\ lru = freed \o list /\ \A m \in Range(freed) : \E i \in 1 .. last : lru[i] = m
  BY <1>2, Parts
<1>4. PICK s \in Seq(Node) :
        /\ s = free \o freed /\ Range(s) = Range(free) \cup Range(freed)
        /\ IsInjective(s) <=>
             IsInjective(free) /\ IsInjective(freed) /\ Range(free) \cap Range(freed) = {}
  <2>1. free \in Seq(Node)
    BY <1>2
  <2>2. /\ free \o freed \in Seq(Node) /\ Range(free \o freed) = Range(free) \cup Range(freed)
        /\ IsInjective(free \o freed) <=>
             IsInjective(free) /\ IsInjective(freed) /\ Range(free) \cap Range(freed) = {}
    BY <2>1, Joined, Zenon
  <2> QED
    BY <2>2, Zenon
<1>5. /\ Found(k) = {} /\ Expires(last) /\ s # <<>> /\ free' = Tail(s)
      /\ Insert(k, Head(s), Without(Range(freed)), list) /\ UNCHANGED <<used, evicted>>
  BY <1>1, <1>3, <1>4
<1>6. /\ Range(lru) = Range(freed) \cup Range(list)
      /\ IsInjective(freed) /\ IsInjective(list) /\ Range(freed) \cap Range(list) = {}
  <2>1. /\ Range(freed \o list) = Range(freed) \cup Range(list)
        /\ IsInjective(freed \o list) =>
             IsInjective(freed) /\ IsInjective(list) /\ Range(freed) \cap Range(list) = {}
    BY Joined, Zenon
  <2> QED
    BY <1>2, <1>3, <2>1 DEF Shared
<1>7. IsInjective(s)
  BY <1>2, <1>4, <1>6 DEF Shared
<1>8. PICK n \in Node, rest \in Seq(Node) :
        /\ n = Head(s) /\ rest = Tail(s) /\ Range(s) = {n} \cup Range(rest)
        /\ IsInjective(rest) /\ n \notin Range(rest)
  BY <1>5, <1>7, Taken
<1>9. Without(Range(freed)) \in [Hashes -> [Node -> Nat]] /\ Chained(Without(Range(freed)), list, key)
  <2>1. Range(list) = Range(lru) \ Range(freed)
    BY <1>6
  <2> QED
    BY <2>1, WithoutIs
<1>10. /\ Range(free) \cap Range(list) = {} /\ Range(free) \cup Range(lru) = 1 .. used
  BY <1>2, <1>6 DEF Shared
<1>11. /\ free' = rest /\ free' \in Seq(Node) /\ IsInjective(free')
       /\ Range(list) \cap Range(free') = {} /\ n \notin Range(list) \cup Range(free')
       /\ {n} \cup Range(list) \cup Range(free') = 1 .. used
  BY <1>4, <1>5, <1>6, <1>8, <1>10
<1>12. \A m \in Range(lru) \ Range(list) : meter[m] = 0
  BY <1>3, <1>5, <1>6 DEF Expires
<1>13. /\ Insert(k, n, Without(Range(freed)), list) /\ used' = used /\ evicted' = evicted
       /\ Range(list) \subseteq Range(lru)
  BY <1>5, <1>6, <1>8
<1>14. PICK buckets : buckets = Without(Range(freed))
  OBVIOUS
<1>15. /\ Found(k) = {} /\ Insert(k, n, buckets, list) /\ IsInjective(list)
       /\ buckets \in [Hashes -> [Node -> Nat]] /\ Chained(buckets, list, key)
       /\ used' \in 0 .. Nodes /\ evicted' \in BOOLEAN
       /\ {n} \cup Range(list) \cup Range(free') = 1 .. used'
       /\ ~evicted' => ~evicted /\ \A m \in Range(lru) \ Range(list) : meter[m] = 0
  BY <1>2, <1>5, <1>6, <1>9, <1>11, <1>12, <1>13, <1>14
<1> QED
  BY <1>11, <1>13, <1>15, InsertStep

(* Whatever the table is short of, phl_limit_req_process_headers() limits  *)
(* no request for what others than those that share its meter did: those   *)
(* with its key or with one of its bucket that is equal up to the first    *)
(* zero byte.  Until it takes a node from keys that need it, it limits     *)
(* these exactly as one meter would.                                       *)
THEOREM OwnMeterHolds == LimitSpec => []OwnMeter
<1>1. ASSUME OwnMeter, UNCHANGED <<table, due, refused, evicted>> PROVE OwnMeter'
  BY <1>1 DEF OwnMeter, LimitTypes, Linked, Found, table
<1>2. ASSUME OwnMeter, NEW k \in Key, Asks(k) PROVE OwnMeter'
  BY <1>2, PassesStep, LimitedStep, FromFreeStep, FromUnusedStep, FromListStep DEF Asks
<1>3. ASSUME OwnMeter, NEW k \in Key, Spoils(k) PROVE OwnMeter'
  BY <1>1, <1>3 DEF Spoils
<1>4. OwnMeter /\ [LimitNext]_limitvars => OwnMeter'
  BY <1>1, <1>2, <1>3, TickStep DEF LimitNext, limitvars
<1> QED
  BY <1>4, InitLimit, PTL DEF LimitSpec
=============================================================================
