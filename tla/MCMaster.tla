------------------------------- MODULE MCMaster -------------------------------
(* Two workers, and processes enough for a reload while old ones quit.     *)
EXTENDS Master

FourPids == 1 .. 4
TwoPids == 1 .. 2

(* Pids are only compared, so that it does not matter which of those that  *)
(* no process has a new one is given.  Here it is the least, also in the   *)
(* initial state.                                                          *)
Usable(p) ==
    worker[p] = "none" /\ \A i \in 1 .. Num : workers[i] = p => pc = "respawn" /\ i = died
LeastPid ==
    \A p \in Pid : worker[p] = "none" /\ worker'[p] = "starting" =>
                      \A q \in Pid : q < p => ~Usable(q)

(* After a fork() that failed there is no second one, and no more crashes  *)
(* or reloads.                                                             *)
OneFork ==
    short =>
        /\ ~ForkFails /\ ~(pc = "respawn" /\ workers'[died] = End)
        /\ reload' => reload
        /\ \A p \in Pid : worker'[p] = "killed" => worker[p] = "killed"

FirstInit == Init /\ \A i \in 1 .. Num : workers[i] = i
FirstFairSpec == FirstInit /\ [][Next]_vars /\ Fairness
=============================================================================
