-------------------------------- MODULE Master --------------------------------
(***************************************************************************)
(* The master process and its workers, src/src/phl_main.c: starting,       *)
(* reloading, replacing workers that die, quitting.                        *)
(*                                                                         *)
(* A signal handler runs between any two steps of the master.  SIGHUP only *)
(* sets a flag, SIGQUIT is passed on at once, SIGCHLD does nothing but end *)
(* a pause().                                                              *)
(***************************************************************************)
EXTENDS Integers, Sequences, FiniteSets

CONSTANTS
    Pid,            (* process ids; bounds the workers alive at a time     *)
    Num             (* conf `worker.num`, the same in each configuration   *)

(* What fork() returns then, and what marks the end of phl_workers.        *)
End == -1

ASSUME PidAssumption == IsFiniteSet(Pid) /\ End \notin Pid
ASSUME NumAssumption == Num \in Nat \ {0} /\ Cardinality(Pid) > Num

VARIABLES
    pc,         (* where the master is                                     *)
    reload,     (* sig_reload_conf                                         *)
    workers,    (* phl_workers, without the end mark                       *)
    forked,     (* `workers` of phl_run(), as far as it is filled          *)
    died,       (* the index of the worker that is being replaced          *)
    worker,     (* what each process does                                  *)
    told,       (* the processes that SIGQUIT was sent to and that did not *)
                (* ignore it                                               *)
    lost,       (* history: the processes that a SIGQUIT came to before    *)
                (* they had their own handler                              *)
    quitting,   (* history: SIGQUIT was passed on to the current workers   *)
    short       (* history: a fork() failed, and its -1 may end a list     *)
                (* before other workers                                    *)

vars == <<pc, reload, workers, forked, died, worker, told, quitting, short, lost>>

(* "loop": about to call pause().  "woken": a signal ended it.  "fork": in *)
(* phl_run().  "check": in phl_worker_check(), and "respawn" there between *)
(* waitpid() and fork().                                                   *)
PC == {"loop", "paused", "woken", "fork", "check", "respawn", "exit"}

(* "starting": the handlers of the master are still in place.  "exited"    *)
(* and "killed", by a signal, are not waited for yet.                      *)
Worker == {"none", "starting", "running", "exited", "killed"}

Alive == {p \in Pid : worker[p] \in {"starting", "running"}}

(* The pids that a walk through an array finds before the end mark.        *)
Listed(list) ==
    {list[i] : i \in {j \in DOMAIN list : \A k \in 1 .. j : list[k] # End}}

(* After the first phl_run(): before that the pid file is not written, and *)
(* nobody can know whom to send a signal to.                               *)
Init ==
    /\ pc = "loop"
    /\ reload = FALSE
    /\ workers \in {l \in [1 .. Num -> Pid] : Cardinality(Listed(l)) = Num}
    /\ forked = <<>>
    /\ died = 0
    /\ worker = [p \in Pid |-> IF p \in Listed(workers) THEN "running" ELSE "none"]
    /\ told = {}
    /\ lost = {}
    /\ quitting = FALSE
    /\ short = FALSE

-----------------------------------------------------------------------------
(***************************************************************************)
(* The loop of main(), and phl_run().                                      *)
(***************************************************************************)
Pause ==
    /\ pc = "loop"
    /\ pc' = "paused"
    /\ UNCHANGED <<reload, workers, forked, died, worker, told, quitting, short, lost>>

NoReload ==
    /\ pc = "woken"
    /\ ~reload
    /\ pc' = "check"
    /\ UNCHANGED <<reload, workers, forked, died, worker, told, quitting, short, lost>>

(* Pids are not reused as long as phl_workers names them.                  *)
Free == {p \in Pid : worker[p] = "none" /\ p \notin Listed(workers)}

Reload ==
    /\ pc = "woken"
    /\ reload
    /\ reload' = FALSE
    /\ \/ Cardinality(Free) >= Num /\ pc' = "fork"
       \/ pc' = "check"         (* phl_conf_parse() refuses the file *)
    /\ UNCHANGED <<workers, forked, died, worker, told, quitting, short, lost>>

Fork(p) ==
    /\ pc = "fork"
    /\ Len(forked) < Num
    /\ p \in Free
    /\ forked' = Append(forked, p)
    /\ worker' = [worker EXCEPT ![p] = "starting"]
    /\ UNCHANGED <<pc, reload, workers, died, told, quitting, short, lost>>

ForkFails ==
    /\ pc = "fork"
    /\ Len(forked) < Num
    /\ forked' = Append(forked, End)
    /\ short' = TRUE
    /\ UNCHANGED <<pc, reload, workers, died, worker, told, quitting, lost>>

(* "sleep 10 ms to wait new workers start": or less, as each signal ends   *)
(* the usleep().  The workers listed so far, and the new ones, may or may  *)
(* not have started.                                                       *)
Install ==
    /\ pc = "fork"
    /\ Len(forked) = Num
    /\ told' = told \cup (Listed(workers) \cap Alive)
    /\ workers' = forked
    /\ forked' = <<>>
    /\ pc' = "check"
    /\ quitting' = FALSE
    /\ UNCHANGED <<reload, died, worker, short, lost>>

-----------------------------------------------------------------------------
(***************************************************************************)
(* phl_worker_check(): one waitpid() after another.                        *)
(***************************************************************************)
NoChildIgnored ==  (* slip: ECHILD is taken for "no news" *)
    /\ pc = "check"
    /\ \A p \in Pid : worker[p] = "none"
    /\ pc' = "loop"
    /\ UNCHANGED <<reload, workers, forked, died, worker, told, quitting, short, lost>>

NoChild ==
    /\ pc = "check"
    /\ \A p \in Pid : worker[p] = "none"
    /\ pc' = "exit"
    /\ UNCHANGED <<reload, workers, forked, died, worker, told, quitting, short, lost>>

NoZombie ==
    /\ pc = "check"
    /\ Alive # {}
    /\ \A p \in Pid : worker[p] \notin {"exited", "killed"}
    /\ pc' = "loop"
    /\ UNCHANGED <<reload, workers, forked, died, worker, told, quitting, short, lost>>

Reap(p) ==
    /\ pc = "check"
    /\ worker[p] = "exited" \/ (worker[p] = "killed" /\ p \notin Listed(workers))
    /\ worker' = [worker EXCEPT ![p] = "none"]
    /\ told' = told \ {p}
    /\ UNCHANGED <<pc, reload, workers, forked, died, quitting, short, lost>>

(* Terminated by a signal.                                                 *)
ReapToReplace(i) ==
    /\ pc = "check"
    /\ workers[i] \in Listed(workers)
    /\ worker[workers[i]] = "killed"
    /\ worker' = [worker EXCEPT ![workers[i]] = "none"]
    /\ told' = told \ {workers[i]}
    /\ died' = i
    /\ pc' = "respawn"
    /\ UNCHANGED <<reload, workers, forked, quitting, short, lost>>

RespawnOnce ==  (* slip: after replacing one, back to pause() *)
    /\ pc = "respawn"
    /\ \E p \in Pid :
         /\ worker[p] = "none"
         /\ \A i \in 1 .. Num : workers[i] = p => i = died
         /\ workers' = [workers EXCEPT ![died] = p]
         /\ worker' = [worker EXCEPT ![p] = "starting"]
    /\ died' = 0
    /\ pc' = "loop"
    /\ UNCHANGED <<reload, forked, told, quitting, short, lost>>

RespawnNotStored ==  (* slip: the new pid is not stored *)
    /\ pc = "respawn"
    /\ \E p \in Free : worker' = [worker EXCEPT ![p] = "starting"]
    /\ died' = 0
    /\ pc' = "check"
    /\ UNCHANGED <<reload, workers, forked, told, quitting, short, lost>>

Respawn ==
    /\ pc = "respawn"
    /\ \/ \E p \in Pid :
            /\ worker[p] = "none"
            /\ \A i \in 1 .. Num : workers[i] = p => i = died
            /\ workers' = [workers EXCEPT ![died] = p]
            /\ worker' = [worker EXCEPT ![p] = "starting"]
            /\ UNCHANGED short
       \/ /\ workers' = [workers EXCEPT ![died] = End]
          /\ short' = TRUE
          /\ UNCHANGED worker
    /\ died' = 0
    /\ pc' = "check"
    /\ UNCHANGED <<reload, forked, told, quitting, lost>>

-----------------------------------------------------------------------------
(***************************************************************************)
(* Signals to the master, and the workers.                                 *)
(***************************************************************************)
(* Any signal ends a pause(), but only if it has begun.                    *)
Wake == pc' = IF pc = "paused" THEN "woken" ELSE pc

(* phl_signal_reload_conf()                                                *)
Hup ==
    /\ pc # "exit"
    /\ reload' = TRUE
    /\ Wake
    /\ UNCHANGED <<workers, forked, died, worker, told, quitting, short, lost>>

(* phl_signal_dispatch()                                                   *)
Quit ==
    /\ pc # "exit"
    /\ told' = told \cup (Listed(workers) \cap Alive)
    /\ quitting' = TRUE
    /\ Wake
    /\ UNCHANGED <<reload, workers, forked, died, worker, short, lost>>

(* phl_worker_entry(): from here on SIGQUIT has the worker's own handler.  *)
Start(p) ==
    /\ worker[p] = "starting"
    /\ p \notin told
    /\ worker' = [worker EXCEPT ![p] = "running"]
    /\ UNCHANGED <<pc, reload, workers, forked, died, told, quitting, short, lost>>

(* Before that it is the master's, which does not quit but passes the      *)
(* signal on to the workers of its copy of phl_workers.  These were told   *)
(* before it, or with it, so that it is news to those only that took it    *)
(* too early themselves.                                                   *)
QuitTooEarly(p) ==
    /\ worker[p] = "starting"
    /\ p \in told
    /\ \E again \in SUBSET (lost \ {p}) : told' = (told \ {p}) \cup again
    /\ lost' = lost \cup {p}
    /\ UNCHANGED <<pc, reload, workers, forked, died, worker, quitting, short>>

(* phl_signal_worker_quit() ends the loop.                                 *)
Exit(p) ==
    /\ worker[p] = "running"
    /\ p \in told
    /\ worker' = [worker EXCEPT ![p] = "exited"]
    /\ lost' = lost \ {p}
    /\ Wake
    /\ UNCHANGED <<reload, workers, forked, died, told, quitting, short>>

(* A crash.                                                                *)
Die(p) ==
    /\ p \in Alive
    /\ worker' = [worker EXCEPT ![p] = "killed"]
    /\ lost' = lost \ {p}
    /\ Wake
    /\ UNCHANGED <<reload, workers, forked, died, told, quitting, short>>

-----------------------------------------------------------------------------
Main ==
    \/ Pause \/ NoReload \/ Reload
    \/ (\E p \in Pid : Fork(p)) \/ ForkFails \/ Install
    \/ NoChild \/ NoZombie
    \/ \E p \in Pid : Reap(p)
    \/ \E i \in 1 .. Num : ReapToReplace(i)
    \/ Respawn

Next ==
    \/ Main
    \/ Hup \/ Quit
    \/ \E p \in Pid : Start(p) \/ QuitTooEarly(p) \/ Exit(p) \/ Die(p)
    \/ pc = "exit" /\ UNCHANGED vars

Spec == Init /\ [][Next]_vars

(* Processes run: the master until it pauses, workers until they have      *)
(* started, and until they have quit when told to.                         *)
Fairness ==
    /\ WF_vars(Main)
    /\ \A p \in Pid : WF_vars(Start(p) \/ QuitTooEarly(p)) /\ WF_vars(Exit(p))

FairSpec == Spec /\ Fairness

-----------------------------------------------------------------------------
(* Types of the variables.                                                 *)
TypeOK ==
    /\ pc \in PC
    /\ reload \in BOOLEAN
    /\ workers \in [1 .. Num -> Pid \cup {End}]
    /\ forked \in Seq(Pid \cup {End})
    /\ died \in 0 .. Num
    /\ worker \in [Pid -> Worker]
    /\ told \in SUBSET Pid
    /\ lost \in SUBSET Pid
    /\ quitting \in BOOLEAN
    /\ short \in BOOLEAN

(* "stop old workers" (phl_main.c:201): whatever reloads and crashes come  *)
(* together, and as long as no fork() fails, a worker is in the list that  *)
(* signals go to, or is being put there, or was told to quit; or else the  *)
(* SIGQUIT came before it had its handler, and it goes on for ever.        *)
NoStray ==
    ~short => \A p \in Alive :
                  p \in told \/ p \in Listed(workers) \/ p \in Listed(forked) \/ p \in lost

(* Reloads, with good files or bad ones, and crashes never reduce the      *)
(* service: without SIGQUIT each place in the list has a worker that may   *)
(* go on, or one that died and will be replaced, unless a fork() failed.   *)
FullService ==
    ~quitting /\ ~short =>
        \A i \in 1 .. Num :
            \/ pc = "respawn" /\ died = i
            \/ workers[i] \in Pid /\ (\/ worker[workers[i]] = "killed"
                                     \/ workers[i] \in Alive \ told)

(* No place is without a worker, and no worker without a place but those   *)
(* that took a SIGQUIT too lost (phl_worker_check(), and the reload in    *)
(* phl_run()).                                                             *)
Service == TypeOK /\ NoStray /\ FullService

(* Once all workers are told to quit for good, the master ends or waits in *)
(* pause() for a signal: it does not go round for ever.                    *)
QuitSettles == <>[](Alive \subseteq told) => <>[](pc \in {"paused", "exit"})

(* A SIGHUP or the end of a worker that comes just before pause() waits    *)
(* for the next signal, whatever that is, and no longer: it stays unheeded *)
(* for ever only if the master pauses for ever, or always finds yet        *)
(* another worker to wait for, or (a SIGHUP) ends.                         *)
Unreaped == \E p \in Pid : worker[p] \in {"exited", "killed"}

SignalsHeeded ==
    /\ <>[]reload =>
         <>[](pc = "exit") \/ <>[](pc = "paused") \/ <>[](pc \in {"check", "respawn"})
    /\ <>[]Unreaped => <>[](pc = "paused") \/ <>[](pc \in {"check", "respawn"})

(* "Kill `SIGQUIT` to stop Phorklift" (doc/2.operate.md:20), if no fork()   *)
(* failed.                                                                 *)
QuitStops == <>[](quitting /\ ~short) => <>(pc = "exit")
=============================================================================
