-------------------------- MODULE HealthcheckProofs --------------------------
(***************************************************************************)
(* Proofs about Healthcheck, for all limits.                               *)
(*                                                                         *)
(* What the module's properties say of the history of checks follows once  *)
(* it is known that the counters measure the current run of equal results: *)
(* this is Counters, the invariant that is added to make the others        *)
(* inductive.                                                              *)
(***************************************************************************)
EXTENDS Healthcheck, TLAPS

(* Exactly the latest `n` results are `result`, or, with n cut at the limit *)
(* plus one, at least these.                                               *)
RunIs(result, n, limit) ==
    /\ \A i \in 1 .. n : history[i] = result
    /\ n <= limit => history[n + 1] # result

Counters ==
    /\ RunIs("fail", mark.fails, FailLimit)
    /\ RunIs("pass", mark.passes, PassLimit)

IInv == TypeOK /\ NoCheckOnFreed /\ Counters /\ MarkOK(mark)

USE FailLimitAssumption, PassLimitAssumption

(* The properties at stake in a state follow from IInv.                    *)
LEMMA InvImpliesPrompt == IInv => Prompt
  <1> SUFFICES ASSUME IInv PROVE Prompt
    OBVIOUS
  <1>1. mark.fails \in 0 .. FailLimit + 1 /\ mark.passes \in 0 .. PassLimit + 1
    BY DEF IInv, TypeOK, Mark
  <1>2. mark.down \in {"no", "yes"}
    BY DEF IInv, TypeOK, Mark
  <1>3. ASSUME FailLimit > 0, FailRun(history) PROVE mark.down = "yes"
    <2>1. mark.fails >= FailLimit
      BY <1>1, <1>3 DEF IInv, Counters, RunIs, FailRun
    <2> QED BY <1>1, <1>2, <1>3, <2>1 DEF IInv, MarkOK
  <1>4. ASSUME PassRun(history) PROVE mark.down = "no"
    <2>1. mark.passes >= PassLimit
      BY <1>1, <1>4 DEF IInv, Counters, RunIs, PassRun
    <2> QED BY <1>1, <1>2, <2>1 DEF IInv, MarkOK
  <1> QED BY <1>3, <1>4 DEF Prompt

(* The end of a check keeps the invariant, and turns the mark only at the  *)
(* end of a run.                                                           *)
LEMMA DoneStep ==
    ASSUME IInv, NEW pass \in BOOLEAN, Done(pass), address = "used"
    PROVE  /\ IInv'
           /\ mark.down = "no" /\ mark'.down # "no" => FailRun(history')
           /\ mark.down # "no" /\ mark'.down = "no" => PassRun(history')
  <1> DEFINE F == mark.fails
             P == mark.passes
  <1>1. /\ F \in 0 .. FailLimit + 1
        /\ P \in 0 .. PassLimit + 1
        /\ mark.down \in {"no", "yes"}
        /\ mark = [down |-> mark.down, fails |-> F, passes |-> P]
    BY DEF IInv, TypeOK, Mark
  <1>2. /\ history \in [Age -> Results]
        /\ Age = 1 .. FailLimit + PassLimit + 1
    BY DEF IInv, TypeOK, Age
  <1>3. CASE pass = TRUE
    <2>1. mark' = [down |-> IF mark.down # "no" /\ Counted(P, PassLimit) = PassLimit
                            THEN "no" ELSE mark.down,
                   fails |-> 0, passes |-> Counted(P, PassLimit)]
      BY <1>3 DEF Done, AfterPass
    <2>2. /\ history' \in [Age -> Results]
          /\ history'[1] = "pass"
          /\ \A i \in Age : i > 1 => history'[i] = history[i - 1]
      BY <1>2, <1>3 DEF Done, Results
    <2>3. /\ Counted(P, PassLimit) \in 1 .. PassLimit + 1
          /\ P <= PassLimit => Counted(P, PassLimit) = P + 1
          /\ P > PassLimit => Counted(P, PassLimit) = P
      BY <1>1 DEF Counted
    <2>4. /\ \A i \in 1 .. P : history[i] = "pass"
          /\ P <= PassLimit => history[P + 1] # "pass"
      BY DEF IInv, Counters, RunIs
    <2>5. \A i \in 1 .. Counted(P, PassLimit) : history'[i] = "pass"
      <3> SUFFICES ASSUME NEW i \in 1 .. Counted(P, PassLimit) PROVE history'[i] = "pass"
        OBVIOUS
      <3>1. i \in Age
        BY <1>1, <1>2, <2>3
      <3>2. CASE i = 1
        BY <2>2, <3>2
      <3>3. CASE i # 1
        <4>1. i - 1 \in 1 .. P
          BY <1>1, <2>3, <3>3
        <4> QED BY <2>2, <2>4, <3>1, <3>3, <4>1
      <3> QED BY <3>2, <3>3
    <2>6. Counted(P, PassLimit) <= PassLimit => history'[Counted(P, PassLimit) + 1] # "pass"
      <3> SUFFICES ASSUME Counted(P, PassLimit) <= PassLimit
                   PROVE  history'[Counted(P, PassLimit) + 1] # "pass"
        OBVIOUS
      <3>1. P <= PassLimit /\ Counted(P, PassLimit) = P + 1
        BY <1>1, <2>3
      <3>2. P + 2 \in Age /\ P + 2 > 1 /\ (P + 2) - 1 = P + 1
        BY <1>1, <1>2, <2>3, <3>1
      <3>3. history'[P + 2] = history[P + 1]
        BY <2>2, <3>2
      <3> QED BY <1>1, <2>4, <3>1, <3>3
    <2>7. Counters'
      BY <2>1, <2>2, <2>5, <2>6 DEF Counters, RunIs
    <2>8. TypeOK'
      BY <1>1, <2>1, <2>2, <2>3 DEF IInv, TypeOK, Mark, Done, Stream
    <2>9. MarkOK(mark)'
      BY <1>1, <2>1, <2>3 DEF IInv, MarkOK
    <2>10. NoCheckOnFreed'
      BY DEF NoCheckOnFreed, Done
    <2>11. mark'.down = "no" \/ mark'.down = mark.down
      BY <2>1
    <2>12. mark.down # "no" /\ mark'.down = "no" => PassRun(history')
      BY <2>1, <2>5 DEF PassRun
    <2> QED BY <2>7, <2>8, <2>9, <2>10, <2>11, <2>12 DEF IInv
  <1>4. CASE pass = FALSE
    <2>1. mark' = [down |-> IF mark.down = "no" /\ Counted(F, FailLimit) = FailLimit
                            THEN "yes" ELSE mark.down,
                   fails |-> Counted(F, FailLimit), passes |-> 0]
      BY <1>4 DEF Done, AfterFail
    <2>2. /\ history' \in [Age -> Results]
          /\ history'[1] = "fail"
          /\ \A i \in Age : i > 1 => history'[i] = history[i - 1]
      BY <1>2, <1>4 DEF Done, Results
    <2>3. /\ Counted(F, FailLimit) \in 1 .. FailLimit + 1
          /\ F <= FailLimit => Counted(F, FailLimit) = F + 1
          /\ F > FailLimit => Counted(F, FailLimit) = F
      BY <1>1 DEF Counted
    <2>4. /\ \A i \in 1 .. F : history[i] = "fail"
          /\ F <= FailLimit => history[F + 1] # "fail"
      BY DEF IInv, Counters, RunIs
    <2>5. \A i \in 1 .. Counted(F, FailLimit) : history'[i] = "fail"
      <3> SUFFICES ASSUME NEW i \in 1 .. Counted(F, FailLimit) PROVE history'[i] = "fail"
        OBVIOUS
      <3>1. i \in Age
        BY <1>1, <1>2, <2>3
      <3>2. CASE i = 1
        BY <2>2, <3>2
      <3>3. CASE i # 1
        <4>1. i - 1 \in 1 .. F
          BY <1>1, <2>3, <3>3
        <4> QED BY <2>2, <2>4, <3>1, <3>3, <4>1
      <3> QED BY <3>2, <3>3
    <2>6. Counted(F, FailLimit) <= FailLimit => history'[Counted(F, FailLimit) + 1] # "fail"
      <3> SUFFICES ASSUME Counted(F, FailLimit) <= FailLimit
                   PROVE  history'[Counted(F, FailLimit) + 1] # "fail"
        OBVIOUS
      <3>1. F <= FailLimit /\ Counted(F, FailLimit) = F + 1
        BY <1>1, <2>3
      <3>2. F + 2 \in Age /\ F + 2 > 1 /\ (F + 2) - 1 = F + 1
        BY <1>1, <1>2, <2>3, <3>1
      <3>3. history'[F + 2] = history[F + 1]
        BY <2>2, <3>2
      <3> QED BY <1>1, <2>4, <3>1, <3>3
    <2>7. Counters'
      BY <2>1, <2>2, <2>5, <2>6 DEF Counters, RunIs
    <2>8. TypeOK'
      BY <1>1, <2>1, <2>2, <2>3 DEF IInv, TypeOK, Mark, Done, Stream
    <2>9. MarkOK(mark)'
      BY <1>1, <2>1, <2>3 DEF IInv, MarkOK
    <2>10. NoCheckOnFreed'
      BY DEF NoCheckOnFreed, Done
    <2>11. mark.down # "no" => mark'.down # "no"
      BY <2>1
    <2>12. mark.down = "no" /\ mark'.down # "no" => FailRun(history')
      BY <2>1, <2>5 DEF FailRun
    <2> QED BY <2>7, <2>8, <2>9, <2>10, <2>11, <2>12 DEF IInv
  <1> QED BY <1>3, <1>4

LEMMA InitInv == Init => IInv
  <1> SUFFICES ASSUME Init PROVE IInv
    OBVIOUS
  <1>1. TypeOK /\ NoCheckOnFreed /\ MarkOK(mark)
    BY DEF Init, TypeOK, NoCheckOnFreed, MarkOK, Mark, FreshMark, Stream, Results
  <1>2. Counters
    BY DEF Init, Counters, RunIs, FreshMark, Age
  <1> QED BY <1>1, <1>2 DEF IInv

ContinuousStep ==
    address' = address =>
        /\ mark.down = "no" /\ mark'.down # "no" => FailRun(history')
        /\ mark.down # "no" /\ mark'.down = "no" => PassRun(history')

LEMMA NextInv == IInv /\ [Next]_vars => IInv' /\ ContinuousStep
  <1> SUFFICES ASSUME IInv, [Next]_vars PROVE IInv' /\ ContinuousStep
    OBVIOUS
  <1>1. ASSUME NEW pass \in BOOLEAN, Done(pass), address = "used"
        PROVE  IInv' /\ ContinuousStep
    BY <1>1, DoneStep DEF ContinuousStep
  <1>2. stream # "none" => address = "used"
    BY DEF IInv, NoCheckOnFreed, TypeOK
  <1>3. CASE ConnectFails \/ PassUnconnected
    BY <1>1, <1>3 DEF ConnectFails, PassUnconnected, Begins
  <1>4. CASE SendPart \/ (\E pass \in BOOLEAN : Read(pass)) \/ Close
    BY <1>1, <1>2, <1>4 DEF SendPart, Writable, Read, Close
  <1>5. CASE Connect \/ Send \/ SendBlocks \/ Stop \/ UNCHANGED vars
    <2>1. UNCHANGED <<mark, history>>
      BY <1>5 DEF Connect, Send, SendBlocks, Stop, vars
    <2>2. TypeOK' /\ NoCheckOnFreed'
      BY <1>2, <1>5 DEF IInv, TypeOK, NoCheckOnFreed, Connect, Begins, Send, SendBlocks,
                        Writable, Stop, vars, Stream
    <2>3. Counters' /\ MarkOK(mark)'
      BY <2>1 DEF IInv, Counters, RunIs, MarkOK
    <2> QED BY <2>1, <2>2, <2>3 DEF IInv, ContinuousStep
  <1>6. CASE Start
    <2>1. TypeOK' /\ NoCheckOnFreed' /\ MarkOK(mark)'
      BY <1>6 DEF Start, IInv, TypeOK, NoCheckOnFreed, MarkOK, Mark, FreshMark, Stream, Results
    <2>2. Counters'
      BY <1>6 DEF Start, Counters, RunIs, FreshMark, Age
    <2>3. ContinuousStep
      BY <1>6 DEF Start, ContinuousStep
    <2> QED BY <2>1, <2>2, <2>3 DEF IInv
  <1> QED BY <1>3, <1>4, <1>5, <1>6 DEF Next

LEMMA Invariance == Spec => []IInv
  BY InitInv, NextInv, PTL DEF Spec

(* phl_upstream_healthcheck_stop() leaves no check running on an address   *)
(* that is freed.                                                          *)
THEOREM ChecksStop == Spec => []Consistent
  <1>1. IInv => Consistent
    BY DEF IInv, Consistent
  <1> QED BY Invariance, <1>1, PTL

(* The mark is moved at once when a run of results is long enough,         *)
(* whichever callbacks the results came from.                              *)
THEOREM MarksPromptly == Spec => []Prompt
  BY Invariance, InvImpliesPrompt, PTL

(* ... and only by such runs.                                              *)
THEOREM MarksContinuously == Spec => Continuous
  <1>1. Continuous <=> [][ContinuousStep]_vars
    BY DEF Continuous, ContinuousStep
  <1> QED BY Invariance, NextInv, <1>1, PTL DEF Spec
=============================================================================
