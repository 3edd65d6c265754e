----------------------------- MODULE FailureMark -----------------------------
(***************************************************************************)
(* The mark that takes an address out of use after failures in a row and   *)
(* puts it back after passes in a row.  An address has two: one moved by   *)
(* the outcome of requests (address->failure, in                           *)
(* phl_upstream_release_connection()), one by the active check             *)
(* (address->healthcheck, in phl_upstream_healthcheck_done()).             *)
(*                                                                         *)
(* The C counters are compared with the limits by `==` only, so that every *)
(* value above a limit acts the same: they are cut at the limit plus one.  *)
(***************************************************************************)
EXTENDS Naturals

CONSTANTS
    FailLimit,  (* conf `fails`; 0 never marks the address down            *)
    PassLimit   (* conf `passes`                                           *)

ASSUME FailLimitAssumption == FailLimit \in Nat
ASSUME PassLimitAssumption == PassLimit \in Nat \ {0}

(* `down`: "no" is down_time = 0; "yes" is down, the timeout is running;   *)
(* "due" is down, but the timeout is over.                                 *)
Mark == [down : {"no", "yes", "due"}, fails : 0 .. FailLimit + 1, passes : 0 .. PassLimit + 1]

FreshMark == [down |-> "no", fails |-> 0, passes |-> 0]

Counted(n, limit) == IF n < limit THEN n + 1 ELSE IF n = limit THEN limit + 1 ELSE n

AfterPassKeepsFails(m) ==  (* slip: fails are not reset *)
    LET n == Counted(m.passes, PassLimit)
    IN  [down |-> IF m.down # "no" /\ n = PassLimit THEN "no" ELSE m.down,
         fails |-> m.fails,
         passes |-> n]

AfterPass(m) ==
    LET n == Counted(m.passes, PassLimit)
    IN  [down |-> IF m.down # "no" /\ n = PassLimit THEN "no" ELSE m.down,
         fails |-> 0,
         passes |-> n]

AfterFailLate(m) ==  (* slip: compared before counting *)
    [down |-> IF m.down = "no" /\ m.fails = FailLimit THEN "yes" ELSE m.down,
     fails |-> Counted(m.fails, FailLimit),
     passes |-> 0]

AfterFailKeepsPasses(m) ==  (* slip: passes are not reset *)
    LET n == Counted(m.fails, FailLimit)
    IN  [down |-> IF m.down = "no" /\ n = FailLimit THEN "yes" ELSE m.down,
         fails |-> n,
         passes |-> m.passes]

AfterFail(m) ==
    LET n == Counted(m.fails, FailLimit)
    IN  [down |-> IF m.down = "no" /\ n = FailLimit THEN "yes" ELSE m.down,
         fails |-> n,
         passes |-> 0]

(* In use, the address is short of the failures that mark it down; marked, *)
(* it is short of the passes that would recover it.                        *)
MarkOK(m) ==
    /\ m.down = "no" /\ FailLimit > 0 => m.fails < FailLimit
    /\ m.down # "no" => m.passes < PassLimit
    /\ m.fails = 0 \/ m.passes = 0
=============================================================================
