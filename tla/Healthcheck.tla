----------------------------- MODULE Healthcheck -----------------------------
(***************************************************************************)
(* The active healthcheck of one address,                                  *)
(* src/src/phl_upstream_healthcheck.c: a timer starts a check, which       *)
(* connects, sends the configured request and compares the response.       *)
(***************************************************************************)
EXTENDS Integers, FailureMark

VARIABLES
    request,    (* conf: "set" or "unset"; never changes                   *)
    address,    (* "used", or "freed" after resolving dropped it           *)
    mark,       (* address->healthcheck: down_time, fails, passes          *)
    stream,     (* address->healthcheck.stream                             *)
    history     (* results of the latest checks, newest first              *)

vars == <<request, address, mark, stream, history>>

(* "connecting": nothing sent yet.  "blocked": connected, but sending      *)
(* would block.  "waiting": the request is sent.                           *)
Stream == {"none", "connecting", "blocked", "waiting"}

(* The history is longer than the runs of results that matter.             *)
Age == 1 .. FailLimit + PassLimit + 1
Results == {"none", "pass", "fail"}

Init ==
    /\ request \in {"set", "unset"}
    /\ address = "used"
    /\ mark = FreshMark
    /\ stream = "none"
    /\ history = [i \in Age |-> "none"]

(* phl_upstream_healthcheck_done()                                         *)
Done(pass) ==
    /\ stream' = "none"
    /\ mark' = IF pass THEN AfterPass(mark) ELSE AfterFail(mark)
    /\ history' = [i \in Age |-> IF i > 1 THEN history[i - 1]
                                 ELSE IF pass THEN "pass" ELSE "fail"]
    /\ UNCHANGED <<request, address>>

(* The timer, when the last check is finished: connecting fails at once,   *)
Begins == address = "used" /\ stream = "none"

ConnectFails == Begins /\ Done(FALSE)

(* or, with no request to send, on_writable() reports a pass right away,   *)
(* before the connection is made,                                          *)
PassUnconnected == Begins /\ request = "unset" /\ Done(TRUE)

(* or on_writable() finds that it has to wait for the connection.          *)
Connect ==
    /\ Begins
    /\ request = "set"
    /\ stream' = "connecting"
    /\ UNCHANGED <<request, address, mark, history>>

(* on_writable(): all of the request is sent, or nothing, or a part.       *)
Writable == stream \in {"connecting", "blocked"}

Send ==
    /\ Writable
    /\ stream' = "waiting"
    /\ UNCHANGED <<request, address, mark, history>>

SendBlocks ==
    /\ stream = "connecting"
    /\ stream' = "blocked"
    /\ UNCHANGED <<request, address, mark, history>>

SendPart == Writable /\ Done(FALSE)

(* on_read(): the response decides.  One that is shorter than the expected *)
(* one is waited for, which changes nothing.                               *)
Read(pass) ==
    /\ stream \in {"blocked", "waiting"}
    /\ Done(pass)

(* on_close(): the peer closes, connecting fails, or the timeout is over.  *)
CloseUncounted ==  (* slip: a timeout is not a failure *)
    /\ stream # "none"
    /\ stream' = "none"
    /\ UNCHANGED <<request, address, mark, history>>

Close ==
    /\ stream # "none"
    /\ Done(FALSE)

(* phl_upstream_healthcheck_stop(), when the address is freed; and         *)
(* phl_upstream_healthcheck_start() for one that resolving adds.           *)
StopForgetsStream ==  (* slip: the running check is not closed *)
    /\ address = "used"
    /\ address' = "freed"
    /\ UNCHANGED <<request, mark, stream, history>>

Stop ==
    /\ address = "used"
    /\ address' = "freed"
    /\ stream' = "none"
    /\ UNCHANGED <<request, mark, history>>

Start ==
    /\ address = "freed"
    /\ address' = "used"
    /\ mark' = FreshMark
    /\ stream' = "none"
    /\ history' = [i \in Age |-> "none"]
    /\ UNCHANGED request

Next ==
    \/ ConnectFails \/ PassUnconnected \/ Connect
    \/ Send \/ SendBlocks \/ SendPart
    \/ \E pass \in BOOLEAN : Read(pass)
    \/ Close
    \/ Stop \/ Start

Spec == Init /\ [][Next]_vars

(* The timer runs again and again, and each wait is limited by a timeout,  *)
(* set when connecting and by on_writable().                               *)
FairSpec ==
    /\ Spec
    /\ WF_vars(ConnectFails \/ PassUnconnected \/ Connect)
    /\ WF_vars(Close)

-----------------------------------------------------------------------------
(* Types of the variables.                                                 *)
TypeOK ==
    /\ request \in {"set", "unset"}
    /\ address \in {"used", "freed"}
    /\ mark \in Mark
    /\ mark.down # "due"
    /\ stream \in Stream
    /\ history \in [Age -> Results]

(* "Mark an address as failure if it fails this times continuously."       *)
(* (phl_upstream_healthcheck.c:173) and "Recover an address if it          *)
(* responses well this times continuously." (:180), of the checks that     *)
(* really happened: at once when the run is complete, ...                  *)
FailRun(h) == \A i \in 1 .. FailLimit : h[i] = "fail"
PassRun(h) == \A i \in 1 .. PassLimit : h[i] = "pass"

Prompt ==
    /\ FailLimit > 0 /\ FailRun(history) => mark.down = "yes"
    /\ PassRun(history) => mark.down = "no"

(* ... and not before.                                                     *)
Continuous ==
    [][address' = address =>
         /\ mark.down = "no" /\ mark'.down # "no" => FailRun(history')
         /\ mark.down # "no" /\ mark'.down = "no" => PassRun(history')]_vars

(* No check goes on for an address that was freed: its handlers would use  *)
(* the freed memory.                                                       *)
NoCheckOnFreed == address = "freed" => stream = "none"

(* What phl_upstream_healthcheck_stop() and the callbacks leave behind.    *)
Consistent == TypeOK /\ NoCheckOnFreed

(* An address whose checks never pass any more is taken out of use, though *)
(* it may not even answer.                                                 *)
DeadGoesDown ==
    <>[](address = "used" /\ history[1] # "pass") => <>[](mark.down = "yes")

(* One whose checks never fail any more comes back.                        *)
HealthyComesUp ==
    <>[](address = "used" /\ history[1] # "fail") => <>[](mark.down = "no")

(* In the long run the mark is what the checks say (the timer and the      *)
(* callbacks of phl_upstream_healthcheck.c).                               *)
MarkFollows == DeadGoesDown /\ HealthyComesUp
=============================================================================
