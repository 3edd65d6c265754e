----------------------------- MODULE MasterProofs -----------------------------
(***************************************************************************)
(* Theorems about Master, for any number of workers and pids: reloads,     *)
(* signals and crashes leave no place empty, and lose no worker but those  *)
(* that were told to quit too early.  Then one about Listen, for any files *)
(* and descriptors: as long as no Listen failed half-way and none named an *)
(* address twice, no reload, whether it succeeds or fails, loses the       *)
(* socket of an address or leaves one open.                                *)
(***************************************************************************)
EXTENDS Master, Listen, FiniteSetTheorems, TLAPS

(***************************************************************************)
(* The inductive invariant, for the time before a fork() fails             *)
(***************************************************************************)
(* The list has no gap and names no pid twice.                             *)
Lists == workers \in [1 .. Num -> Pid] /\ IsInjective(workers)

(* The new workers of a reload have not been told to quit, and are others  *)
(* than those listed.                                                      *)
Forked ==
    /\ forked \in Seq(Pid) /\ IsInjective(forked)
    /\ \A i \in DOMAIN forked :
         /\ worker[forked[i]] \in {"starting", "running", "killed"}
         /\ forked[i] \notin told \cup lost /\ forked[i] \notin Range(workers)

(* A pid that is told to quit is that of a process, and one that lost a    *)
(* SIGQUIT goes on.                                                        *)
ToldLive == (\A p \in told : worker[p] # "none") /\ lost \subseteq Alive

NoneStrays == \A p \in Alive : p \in told \cup Range(workers) \cup Range(forked) \cup lost

Replacing == pc = "respawn" => died \in 1 .. Num /\ worker[workers[died]] = "none"

Served(i) ==
    \/ pc = "respawn" /\ died = i
    \/ worker[workers[i]] = "killed" \/ workers[i] \in Alive \ (told \cup lost)
AllServed == ~quitting => \A i \in 1 .. Num : Served(i)

Whole ==
    /\ Lists /\ Forked /\ ToldLive /\ NoneStrays
    /\ Replacing /\ AllServed

MasterInv ==
    /\ TypeOK
    /\ pc # "fork" => forked = <<>>
    /\ ~short => Whole

(***************************************************************************)
(* Lists                                                                   *)
(***************************************************************************)
(* Without an end mark in it, all of an array is found.                    *)
LEMMA AllListed ==
  ASSUME NEW list, NEW n \in Nat, DOMAIN list = 1 .. n, \A i \in 1 .. n : list[i] \in Pid
  PROVE  Listed(list) = Range(list)
<1>1. \A i \in 1 .. n : \A k \in 1 .. i : list[k] # End
  BY PidAssumption
<1> QED
  BY <1>1 DEF Listed, Range

LEMMA Both ==
  ASSUME Whole
  PROVE  Listed(workers) = Range(workers) /\ Listed(forked) = Range(forked)
<1>1. DOMAIN workers = 1 .. Num /\ Num \in Nat /\ \A i \in 1 .. Num : workers[i] \in Pid
  BY NumAssumption DEF Whole, Lists
<1>2. DOMAIN forked = 1 .. Len(forked) /\ Len(forked) \in Nat
      /\ \A i \in 1 .. Len(forked) : forked[i] \in Pid
  BY DEF Whole, Forked
<1> QED
  BY <1>1, <1>2, AllListed

(* As many pids as places: none is there twice.                            *)
LEMMA InitLists ==
  ASSUME NEW l \in [1 .. Num -> Pid], Cardinality(Listed(l)) = Num
  PROVE  IsInjective(l) /\ Listed(l) = Range(l)
<1>1. Num \in Nat /\ IsFiniteSet(1 .. Num) /\ Cardinality(1 .. Num) = Num
  BY NumAssumption, FS_Interval
<1>2. Listed(l) = Range(l)
  BY <1>1, AllListed
<1>3. l \in Surjection(1 .. Num, Range(l))
  BY DEF Surjection, Range
<1>4. l \in Injection(1 .. Num, Range(l))
  BY <1>1, <1>2, <1>3, FS_Surjection
<1> QED
  BY <1>2, <1>4 DEF Injection

LEMMA InitMaster == Init => MasterInv
<1> SUFFICES ASSUME Init PROVE MasterInv
  OBVIOUS
<1>1. workers \in [1 .. Num -> Pid] /\ IsInjective(workers) /\ Listed(workers) = Range(workers)
  BY InitLists DEF Init
<1>2. worker = [p \in Pid |-> IF p \in Range(workers) THEN "running" ELSE "none"]
  BY <1>1 DEF Init
<1>3. TypeOK
  <2>1. worker \in [Pid -> Worker]
    BY <1>2 DEF Worker
  <2>2. workers \in [1 .. Num -> Pid \cup {End}]
    BY <1>1
  <2>3. died \in 0 .. Num /\ forked \in Seq(Pid \cup {End})
    BY NumAssumption DEF Init
  <2> QED
    BY <2>1, <2>2, <2>3 DEF Init, TypeOK, PC
<1>4. Lists /\ ToldLive /\ Replacing
  BY <1>1 DEF Init, Lists, ToldLive, Replacing
<1>5. Forked
  BY DEF Init, Forked, IsInjective
<1>6. NoneStrays
  BY <1>2 DEF NoneStrays, Alive
<1>7. AllServed
  <2>1. ASSUME NEW i \in 1 .. Num PROVE workers[i] \in Pid /\ workers[i] \in Range(workers)
    BY <1>1 DEF Range
  <2> QED
    BY <1>2, <2>1 DEF Init, AllServed, Served, Alive
<1> QED
  BY <1>3, <1>4, <1>5, <1>6, <1>7 DEF Init, MasterInv, Whole

(***************************************************************************)
(* Steps                                                                   *)
(***************************************************************************)
LEMMA Types ==
  ASSUME TypeOK
  PROVE  /\ pc \in PC /\ died \in 0 .. Num /\ workers \in [1 .. Num -> Pid \cup {End}]
         /\ forked \in Seq(Pid \cup {End}) /\ worker \in [Pid -> Worker] /\ told \in SUBSET Pid
         /\ reload \in BOOLEAN /\ quitting \in BOOLEAN /\ short \in BOOLEAN
         /\ lost \in SUBSET Pid
  BY DEF TypeOK

(* The master goes on without touching a list or a process.                *)
LEMMA PcStep ==
  ASSUME MasterInv, pc' \in PC, pc' # "respawn", pc # "respawn",
         pc # "fork", reload' \in BOOLEAN,
         UNCHANGED <<workers, forked, died, worker, told, quitting, short, lost>>
  PROVE  MasterInv'
<1>1. TypeOK' /\ forked' = <<>>
  BY DEF MasterInv, TypeOK
<1>2. Whole => Whole'
  BY DEF Whole, Lists, Forked, ToldLive, NoneStrays, Replacing, AllServed,
         Served, Alive
<1> QED
  BY <1>1, <1>2 DEF MasterInv

LEMMA ForkStep ==
  ASSUME MasterInv, NEW p \in Pid, Fork(p)
  PROVE  MasterInv'
<1>1. /\ pc = "fork" /\ pc' = "fork" /\ worker[p] = "none" /\ p \notin Listed(workers)
      /\ forked' = Append(forked, p) /\ worker' = [worker EXCEPT ![p] = "starting"]
      /\ UNCHANGED <<reload, workers, died, told, quitting, short, lost>>
  BY DEF Fork, Free
<1>2. TypeOK /\ TypeOK'
  BY <1>1 DEF MasterInv, TypeOK, Worker
<1>3. ASSUME Whole PROVE Whole'
  <2>1. Lists /\ p \notin Range(workers) /\ p \notin told \cup lost /\ worker \in [Pid -> Worker]
    BY <1>1, <1>2, <1>3, Both, Types DEF Whole, ToldLive, Alive
  <2>2. /\ forked \in Seq(Pid) /\ forked' \in Seq(Pid) /\ Len(forked) \in Nat
        /\ DOMAIN forked = 1 .. Len(forked) /\ DOMAIN forked' = 1 .. Len(forked) + 1
        /\ forked'[Len(forked) + 1] = p
        /\ \A i \in 1 .. Len(forked) : forked'[i] = forked[i] /\ forked[i] \in Pid
    BY <1>1, <1>3 DEF Whole, Forked
  <2>3. \A i \in 1 .. Len(forked) : forked[i] # p
    BY <1>1, <1>3, <2>2 DEF Whole, Forked
  <2>4. Forked'
    <3>1. IsInjective(forked')
      BY <1>3, <2>2, <2>3 DEF Whole, Forked, IsInjective
    <3>2. ASSUME NEW i \in DOMAIN forked'
          PROVE  /\ worker'[forked'[i]] \in {"starting", "running", "killed"}
                 /\ forked'[i] \notin told' \cup lost' /\ forked'[i] \notin Range(workers)'
      BY <1>1, <1>3, <2>1, <2>2 DEF Whole, Forked
    <3> QED
      BY <2>2, <3>1, <3>2 DEF Forked
  <2>5. Range(forked') = Range(forked) \cup {p}
    BY <2>2 DEF Range
  <2>6. \A q \in Pid : q # p => worker'[q] = worker[q]
    BY <1>1, <2>1
  <2>7. NoneStrays'
    BY <1>1, <1>3, <2>1, <2>5, <2>6 DEF Whole, NoneStrays, Alive
  <2>8. ToldLive' /\ Replacing'
    BY <1>1, <1>2, <1>3, <2>1, <2>6, Types DEF Whole, ToldLive, Replacing, Alive
  <2>9. AllServed'
    <3>1. \A i \in 1 .. Num : workers[i] \in Pid /\ workers[i] # p
      BY <2>1 DEF Lists, Range
    <3> QED
      BY <1>1, <1>3, <2>6, <3>1 DEF Whole, AllServed, Served, Alive
  <2> QED
    BY <1>1, <2>1, <2>4, <2>7, <2>8, <2>9 DEF Whole, Lists
<1> QED
  BY <1>1, <1>2, <1>3 DEF MasterInv

LEMMA ForkFailsStep ==
  ASSUME MasterInv, ForkFails
  PROVE  MasterInv'
  BY DEF MasterInv, TypeOK, ForkFails

LEMMA InstallStep ==
  ASSUME MasterInv, Install
  PROVE  MasterInv'
<1>1. /\ pc = "fork" /\ pc' = "check" /\ Len(forked) = Num /\ workers' = forked /\ forked' = <<>>
      /\ told' = told \cup (Listed(workers) \cap Alive) /\ quitting' = FALSE
      /\ UNCHANGED <<reload, died, worker, short, lost>>
  BY DEF Install
<1>2. TypeOK /\ TypeOK'
  <2>1. TypeOK
    BY DEF MasterInv
  <2>2. workers' \in [1 .. Num -> Pid \cup {End}]
    BY <1>1, <2>1, Types
  <2>3. told' \in SUBSET Pid
    BY <1>1, <2>1, Types DEF Alive
  <2>4. forked' \in Seq(Pid \cup {End}) /\ died' \in 0 .. Num /\ worker' \in [Pid -> Worker]
    BY <1>1, <2>1, Types
  <2>5. reload' \in BOOLEAN /\ quitting' \in BOOLEAN /\ short' \in BOOLEAN
    BY <1>1, <2>1, Types
  <2> QED
    BY <1>1, <2>1, <2>2, <2>3, <2>4, <2>5 DEF TypeOK, PC
<1>3. ASSUME Whole PROVE Whole'
  <2>1. Listed(workers) = Range(workers) /\ forked \in Seq(Pid) /\ DOMAIN forked = 1 .. Num
    BY <1>1, <1>3, Both DEF Whole, Forked
  <2>2. Lists'
    BY <1>1, <1>3, <2>1 DEF Lists, Whole, Forked
  <2>3. Forked' /\ Replacing'
    BY <1>1 DEF Forked, IsInjective, Replacing
  <2>4. ToldLive'
    BY <1>1, <1>3 DEF Whole, ToldLive, Alive
  <2>5. NoneStrays'
    BY <1>1, <1>3, <2>1 DEF Whole, NoneStrays, Alive
  <2>6. AllServed'
    <3>1. ASSUME NEW i \in 1 .. Num
          PROVE  /\ forked[i] \in Pid /\ worker[forked[i]] \in {"starting", "running", "killed"}
                 /\ forked[i] \notin told' \cup lost
      BY <1>1, <1>3, <2>1 DEF Whole, Forked
    <3> QED
      BY <1>1, <3>1 DEF AllServed, Served, Alive
  <2> QED
    BY <2>2, <2>3, <2>4, <2>5, <2>6 DEF Whole
<1> QED
  BY <1>1, <1>2, <1>3 DEF MasterInv

(* phl_worker_check() waits for a worker that is not to be replaced.       *)
LEMMA ReapStep ==
  ASSUME MasterInv, NEW p \in Pid, Reap(p)
  PROVE  MasterInv'
<1>1. /\ pc = "check"
      /\ worker[p] = "exited" \/ (worker[p] = "killed" /\ p \notin Listed(workers))
      /\ worker' = [worker EXCEPT ![p] = "none"] /\ told' = told \ {p}
      /\ UNCHANGED <<pc, reload, workers, forked, died, quitting, short, lost>>
  BY DEF Reap
<1>2. TypeOK /\ TypeOK' /\ forked = <<>>
  <2>1. TypeOK /\ forked = <<>>
    BY <1>1 DEF MasterInv
  <2>2. worker' \in [Pid -> Worker] /\ told' \in SUBSET Pid
    BY <1>1, <2>1, Types DEF Worker
  <2> QED
    BY <1>1, <2>1, <2>2 DEF TypeOK
<1>3. ASSUME Whole PROVE Whole'
  <2>1. Listed(workers) = Range(workers)
    BY <1>3, Both
  <2>2. worker'[p] = "none" /\ \A q \in Pid : q # p => worker'[q] = worker[q]
    BY <1>1, <1>2, Types
  <2>3. \A q \in told' : q \in Pid /\ q # p /\ q \in told
    BY <1>1, <1>2, Types
  <2>4. Lists' /\ Forked' /\ ToldLive' /\ Replacing'
    BY <1>1, <1>2, <1>3, <2>2, <2>3 DEF Whole, Lists, Forked, ToldLive, Replacing, Alive
  <2>5. NoneStrays'
    BY <1>1, <1>3, <2>2 DEF Whole, NoneStrays, Alive
  <2>6. ASSUME ~quitting PROVE \A i \in 1 .. Num : Served(i)'
    <3>1. \A i \in 1 .. Num : workers[i] \in Pid /\ workers[i] \in Range(workers)
      BY <1>3 DEF Whole, Lists, Range
    <3>2. \A i \in 1 .. Num : workers[i] # p
      BY <1>1, <1>3, <2>1, <2>6, <3>1 DEF Whole, AllServed, Served, Alive
    <3> QED
      BY <1>1, <1>3, <2>2, <2>3, <2>6, <3>1, <3>2 DEF Whole, AllServed, Served, Alive
  <2> QED
    BY <1>1, <2>4, <2>5, <2>6 DEF Whole, AllServed
<1> QED
  BY <1>1, <1>2, <1>3 DEF MasterInv

LEMMA ReapToReplaceStep ==
  ASSUME MasterInv, NEW i \in 1 .. Num, ReapToReplace(i)
  PROVE  MasterInv'
<1> DEFINE p == workers[i]
<1>1. /\ pc = "check" /\ pc' = "respawn" /\ p \in Listed(workers) /\ worker[p] = "killed"
      /\ worker' = [worker EXCEPT ![p] = "none"] /\ told' = told \ {p} /\ died' = i
      /\ UNCHANGED <<reload, workers, forked, quitting, short, lost>>
  BY DEF ReapToReplace
<1>2. TypeOK /\ TypeOK' /\ forked = <<>>
  <2>1. i \in 0 .. Num
    BY NumAssumption
  <2> QED
    BY <1>1, <2>1 DEF MasterInv, TypeOK, PC, Worker
<1>3. ASSUME Whole PROVE Whole'
  <2>1. p \in Pid /\ \A j \in 1 .. Num : workers[j] \in Pid /\ (workers[j] = p => j = i)
    BY <1>3 DEF Whole, Lists, IsInjective
  <2>2. worker'[p] = "none" /\ \A q \in Pid : q # p => worker'[q] = worker[q]
    BY <1>1, <1>2, <2>1, Types
  <2>3. \A q \in told' : q \in Pid /\ q # p /\ q \in told
    BY <1>1, <1>2, Types
  <2>4. Lists' /\ Forked' /\ ToldLive' /\ Replacing'
    BY <1>1, <1>2, <1>3, <2>2, <2>3 DEF Whole, Lists, Forked, ToldLive, Replacing, Alive
  <2>5. NoneStrays'
    BY <1>1, <1>3, <2>2 DEF Whole, NoneStrays, Alive
  <2>6. AllServed'
    BY <1>1, <1>3, <2>1, <2>2, <2>3 DEF Whole, AllServed, Served, Alive
  <2> QED
    BY <2>4, <2>5, <2>6 DEF Whole
<1> QED
  BY <1>1, <1>2, <1>3 DEF MasterInv

LEMMA Stored ==
  ASSUME NEW list \in [1 .. Num -> Pid \cup {End}], NEW i, NEW p \in Pid \cup {End}
  PROVE  [list EXCEPT ![i] = p] \in [1 .. Num -> Pid \cup {End}]
  OBVIOUS

LEMMA RespawnStep ==
  ASSUME MasterInv, Respawn
  PROVE  MasterInv'
<1>1. pc = "respawn" /\ died' = 0 /\ pc' = "check" /\ UNCHANGED <<reload, forked, told, quitting, lost>>
  BY DEF Respawn
<1>2. TypeOK /\ forked = <<>> /\ died' \in 0 .. Num
  BY <1>1, NumAssumption DEF MasterInv
<1>3. CASE workers' = [workers EXCEPT ![died] = End] /\ short' = TRUE /\ UNCHANGED worker
  <2>1. workers' \in [1 .. Num -> Pid \cup {End}]
    BY <1>2, <1>3, Types, Stored
  <2> QED
    BY <1>1, <1>2, <1>3, <2>1 DEF MasterInv, TypeOK, PC
<1>4. ASSUME NEW p \in Pid, worker[p] = "none", \A i \in 1 .. Num : workers[i] = p => i = died,
             workers' = [workers EXCEPT ![died] = p],
             worker' = [worker EXCEPT ![p] = "starting"], short' = short
      PROVE  MasterInv'
  <2>1. TypeOK'
    <3>1. workers' \in [1 .. Num -> Pid \cup {End}]
      BY <1>2, <1>4, Types, Stored
    <3>2. worker' \in [Pid -> Worker]
      BY <1>2, <1>4, Types DEF Worker
    <3> QED
      BY <1>1, <1>2, <1>4, <3>1, <3>2 DEF TypeOK, PC
  <2>2. ASSUME Whole PROVE Whole'
    <3>1. /\ died \in 1 .. Num /\ worker[workers[died]] = "none"
          /\ workers \in [1 .. Num -> Pid] /\ IsInjective(workers)
      BY <1>1, <2>2 DEF Whole, Replacing, Lists
    <3>2. /\ workers' \in [1 .. Num -> Pid] /\ workers'[died] = p
          /\ \A i \in 1 .. Num : i # died => workers'[i] = workers[i] /\ workers'[i] # p
      BY <1>4, <3>1
    <3>3. worker'[p] = "starting" /\ \A q \in Pid : q # p => worker'[q] = worker[q]
      BY <1>2, <1>4, Types
    <3>4. p \notin told \cup lost
      BY <1>4, <2>2 DEF Whole, ToldLive, Alive
    <3>5. Lists'
      BY <3>1, <3>2 DEF Lists, IsInjective
    <3>6. Forked' /\ Replacing'
      BY <1>1, <1>2 DEF Forked, IsInjective, Replacing
    <3>7. ToldLive'
      BY <1>1, <1>2, <2>2, <3>3, <3>4, Types DEF Whole, ToldLive, Alive
    <3>8. p \in Range(workers')
      BY <3>1, <3>2 DEF Range
    <3>9. \A q \in Range(workers) : worker[q] # "none" => q \in Range(workers')
      BY <3>1, <3>2 DEF Range
    <3>10. NoneStrays'
      BY <1>1, <2>2, <3>3, <3>8, <3>9 DEF Whole, NoneStrays, Alive
    <3>11. AllServed'
      <4>1. ASSUME ~quitting, NEW i \in 1 .. Num PROVE Served(i)'
        <5>1. CASE i = died
          BY <1>1, <3>2, <3>3, <3>4, <5>1 DEF Served, Alive
        <5>2. CASE i # died
          BY <1>1, <2>2, <3>2, <3>3, <4>1, <5>2 DEF Whole, AllServed, Served, Alive
        <5> QED
          BY <5>1, <5>2
      <4> QED
        BY <1>1, <4>1 DEF AllServed
    <3> QED
      BY <3>5, <3>6, <3>7, <3>10, <3>11 DEF Whole
  <2> QED
    BY <1>1, <1>2, <1>4, <2>1, <2>2 DEF MasterInv
<1> QED
  BY <1>3, <1>4 DEF Respawn

LEMMA WakeIs == Wake /\ TypeOK => /\ pc' \in PC /\ (pc' = "fork" <=> pc = "fork")
                                  /\ (pc' = "respawn" <=> pc = "respawn")
  BY DEF Wake, TypeOK, PC

LEMMA HupStep ==
  ASSUME MasterInv, Hup
  PROVE  MasterInv'
<1>1. TypeOK /\ TypeOK' /\ UNCHANGED <<workers, forked, died, worker, told, quitting, short, lost>>
  BY WakeIs DEF MasterInv, TypeOK, Hup
<1>2. (pc' = "fork" <=> pc = "fork") /\ (pc' = "respawn" <=> pc = "respawn")
  BY <1>1, WakeIs DEF Hup
<1> QED
  BY <1>1, <1>2 DEF MasterInv, Whole, Lists, Forked, ToldLive, NoneStrays,
                    Replacing, AllServed, Served, Alive

LEMMA QuitStep ==
  ASSUME MasterInv, Quit
  PROVE  MasterInv'
<1>1. /\ told' = told \cup (Listed(workers) \cap Alive) /\ quitting' = TRUE /\ Wake
      /\ UNCHANGED <<reload, workers, forked, died, worker, short, lost>>
  BY DEF Quit
<1>2. TypeOK /\ (pc' = "fork" <=> pc = "fork") /\ (pc' = "respawn" <=> pc = "respawn")
  BY <1>1, WakeIs DEF MasterInv
<1>3. TypeOK'
  BY <1>1, <1>2, WakeIs DEF TypeOK, Alive
<1>4. ASSUME Whole PROVE Whole'
  <2>1. Listed(workers) = Range(workers)
    BY <1>4, Both
  <2>2. Forked'
    BY <1>1, <1>4, <2>1 DEF Whole, Forked
  <2>3. ToldLive' /\ NoneStrays'
    BY <1>1, <1>4 DEF Whole, ToldLive, NoneStrays, Alive
  <2> QED
    BY <1>1, <1>2, <1>4, <2>2, <2>3 DEF Whole, Lists, Replacing, AllServed
<1> QED
  BY <1>1, <1>2, <1>3, <1>4 DEF MasterInv

(* A worker sets its handlers, ends or dies.                               *)
LEMMA ProcessStep ==
  ASSUME MasterInv, NEW p \in Pid, NEW what \in {"running", "exited", "killed"},
         worker' = [worker EXCEPT ![p] = what],
         worker[p] \in {"starting", "running"},
         what = "exited" => p \in told,
         pc' \in PC, pc' = "fork" <=> pc = "fork", pc' = "respawn" <=> pc = "respawn",
         lost' = (IF what = "running" THEN lost ELSE lost \ {p}),
         UNCHANGED <<reload, workers, forked, died, told, quitting, short>>
  PROVE  MasterInv'
<1>1. TypeOK /\ TypeOK'
  BY DEF MasterInv, TypeOK, Worker
<1>2. worker'[p] = what /\ \A q \in Pid : q # p => worker'[q] = worker[q]
  BY <1>1, Types
<1>3. ASSUME Whole PROVE Whole'
  <2>1. \A i \in 1 .. Num : workers[i] \in Pid
    BY <1>3 DEF Whole, Lists
  <2>2. \A q \in told : q \in Pid
    BY <1>1, Types
  <2>3. Forked'
    <3>1. \A i \in DOMAIN forked : forked[i] \in Pid
      BY <1>3 DEF Whole, Forked
    <3> QED
      BY <1>2, <1>3, <3>1 DEF Whole, Forked
  <2>4. ToldLive' /\ NoneStrays'
    BY <1>2, <1>3, <2>2 DEF Whole, ToldLive, NoneStrays, Alive
  <2>5. Replacing'
    BY <1>2, <1>3, <2>1 DEF Whole, Replacing
  <2>6. AllServed'
    BY <1>2, <1>3, <2>1 DEF Whole, AllServed, Served, Alive
  <2> QED
    BY <1>3, <2>3, <2>4, <2>5, <2>6 DEF Whole, Lists
<1> QED
  BY <1>1, <1>3 DEF MasterInv

(* A SIGQUIT that the master's handler takes in the new worker             *)
LEMMA QuitTooEarlyStep ==
  ASSUME MasterInv, NEW p \in Pid, QuitTooEarly(p)
  PROVE  MasterInv'
<1>1. /\ worker[p] = "starting" /\ p \in told /\ lost' = lost \cup {p}
      /\ UNCHANGED <<pc, reload, workers, forked, died, worker, quitting, short>>
  BY DEF QuitTooEarly
<1>2. PICK again \in SUBSET (lost \ {p}) : told' = (told \ {p}) \cup again
  BY DEF QuitTooEarly
<1>3. TypeOK /\ TypeOK'
  BY <1>1, <1>2 DEF MasterInv, TypeOK
<1>4. ASSUME Whole PROVE Whole'
  <2>1. Forked'
    BY <1>1, <1>2, <1>4 DEF Whole, Forked
  <2>2. ToldLive' /\ NoneStrays'
    BY <1>1, <1>2, <1>4 DEF Whole, ToldLive, NoneStrays, Alive
  <2>3. AllServed'
    <3> SUFFICES ASSUME ~quitting, NEW i \in 1 .. Num PROVE Served(i)'
      BY <1>1 DEF AllServed
    <3>1. Served(i) /\ (pc = "respawn" /\ died = i => worker[workers[i]] = "none")
      BY <1>4 DEF Whole, AllServed, Replacing
    <3> QED
      BY <1>1, <1>2, <3>1 DEF Served, Alive
  <2> QED
    BY <1>1, <1>4, <2>1, <2>2, <2>3 DEF Whole, Lists, Replacing
<1> QED
  BY <1>1, <1>3, <1>4 DEF MasterInv

LEMMA NextMaster == MasterInv /\ [Next]_vars => MasterInv'
<1> SUFFICES ASSUME MasterInv, [Next]_vars PROVE MasterInv'
  OBVIOUS
<1>0. TypeOK
  BY DEF MasterInv
<1>1. CASE Pause \/ NoReload \/ NoChild \/ NoZombie
  BY <1>0, <1>1, PcStep DEF Pause, NoReload, NoChild, NoZombie, PC, TypeOK
<1>2. CASE Reload
  <2>1. /\ pc = "woken" /\ pc' \in {"fork", "check"} /\ reload' \in BOOLEAN
        /\ UNCHANGED <<workers, forked, died, worker, told, quitting, short, lost>>
    BY <1>2 DEF Reload
  <2> QED
    BY <2>1, PcStep DEF PC
<1>3. CASE Main /\ ~(Pause \/ NoReload \/ NoChild \/ NoZombie \/ Reload)
  BY <1>3, ForkStep, ForkFailsStep, InstallStep, ReapStep, ReapToReplaceStep, RespawnStep DEF Main
<1>4. ASSUME NEW p \in Pid, Start(p) PROVE MasterInv'
  BY <1>0, <1>4, ProcessStep DEF Start, TypeOK
<1>5. ASSUME NEW p \in Pid, Exit(p) PROVE MasterInv'
  BY <1>0, <1>5, ProcessStep, WakeIs DEF Exit
<1>6. ASSUME NEW p \in Pid, Die(p) PROVE MasterInv'
  BY <1>0, <1>6, ProcessStep, WakeIs DEF Die, Alive
<1>7. CASE UNCHANGED vars
  BY <1>7 DEF MasterInv, TypeOK, Whole, Lists, Forked, ToldLive, NoneStrays,
              Replacing, AllServed, Served, Alive, vars
<1> QED
  BY <1>1, <1>2, <1>3, <1>4, <1>5, <1>6, <1>7, HupStep, QuitStep, QuitTooEarlyStep DEF Next

(***************************************************************************)
(* The theorem                                                             *)
(***************************************************************************)
(* Whatever signals, crashes and reloads come together, and as long as no  *)
(* fork() fails, phl_run() and phl_worker_check() leave no place empty and *)
(* lose no worker but one that a SIGQUIT reaches before phl_worker_entry() *)
(* has set its handler: the 10 ms of phl_run() do not prevent it, as a     *)
(* signal ends the usleep().                                               *)
THEOREM ServiceHolds == Spec => []Service
<1>1. MasterInv => Service
  <2> SUFFICES ASSUME MasterInv PROVE Service
    OBVIOUS
  <2>1. NoStray
    BY Both DEF MasterInv, NoStray, Whole, NoneStrays
  <2>2. FullService
    BY DEF MasterInv, FullService, Whole, Lists, AllServed, Served
  <2> QED
    BY <2>1, <2>2 DEF MasterInv, Service
<1> QED
  BY <1>1, InitMaster, NextMaster, PTL DEF Spec

-----------------------------------------------------------------------------
(***************************************************************************)
(* The listening sockets: the inductive invariant of Sockets               *)
(***************************************************************************)
Same(e, f) == e.fd = f.fd /\ e.address = f.address
Distinct(list) == \A i, j \in DOMAIN list : list[i].address = list[j].address => i = j
InFile(file, x) == \E l \in DOMAIN file : \E i \in DOMAIN file[l] : file[l][i] = x

(* An old entry is marked if and only if it is taken over, and what is new *)
(* and not marked has an address that no old entry has.                    *)
TakenOver ==
    /\ \A e \in Range(listens) \cup Range(new) : e.magic <= count
    /\ ~Parsing => new = <<>> /\ ~posting
    /\ Parsing =>
         /\ count > 0
         /\ \A e \in Range(listens) : e.magic = count => \E f \in Range(new) : Same(e, f)
         /\ \A f \in Range(new) :
               IF f.magic = count
               THEN \E e \in Range(listens) : e.magic = count /\ Same(e, f)
               ELSE Had(f.address) = {}

(* While no file was bad, all entries have their sockets, and each address *)
(* is at one place.                                                        *)
Clean ==
    ~spoiled =>
        /\ \A e \in Range(listens) \cup Range(new) : socket[e.fd] = e.address
        /\ Distinct(listens) /\ Distinct(new)
        /\ Parsing => ~Twice(todo) /\ \A f \in Range(new) : ~InFile(todo, f.address)

ListenInv == ListenTypes /\ TakenOver /\ Clean /\ NoneLeft

(***************************************************************************)
(* Lists of entries, and files                                             *)
(***************************************************************************)
LEMMA AppendEntry ==
  ASSUME NEW s \in Seq(Entry), NEW e \in Entry
  PROVE  /\ Append(s, e) \in Seq(Entry) /\ Range(Append(s, e)) = Range(s) \cup {e}
         /\ Distinct(s) /\ (\A x \in Range(s) : x.address # e.address) => Distinct(Append(s, e))
<1>1. /\ Len(s) \in Nat /\ DOMAIN s = 1 .. Len(s) /\ Append(s, e) \in Seq(Entry)
      /\ DOMAIN Append(s, e) = 1 .. Len(s) + 1 /\ Append(s, e)[Len(s) + 1] = e
      /\ \A i \in 1 .. Len(s) : Append(s, e)[i] = s[i]
  OBVIOUS
<1>2. Range(Append(s, e)) = Range(s) \cup {e}
  BY <1>1 DEF Range
<1>3. ASSUME Distinct(s), \A x \in Range(s) : x.address # e.address PROVE Distinct(Append(s, e))
  <2>1. \A i \in 1 .. Len(s) : s[i].address # e.address
    BY <1>1, <1>3 DEF Range
  <2> QED
    BY <1>1, <1>3, <2>1 DEF Distinct
<1> QED
  BY <1>1, <1>2, <1>3

LEMMA MarkEntry ==
  ASSUME NEW s \in Seq(Entry), NEW i \in DOMAIN s, NEW c \in Nat,
         NEW t, t = [s EXCEPT ![i].magic = c]
  PROVE  /\ t \in Seq(Entry) /\ DOMAIN t = DOMAIN s /\ t[i].magic = c
         /\ \A j \in DOMAIN s : Same(t[j], s[j]) /\ (j # i => t[j] = s[j])
<1>1. /\ Len(s) \in Nat /\ DOMAIN s = 1 .. Len(s) /\ \A j \in DOMAIN s : s[j] \in Entry
      /\ DOMAIN t = DOMAIN s /\ t[i] = [s[i] EXCEPT !.magic = c]
      /\ \A j \in DOMAIN s : j # i => t[j] = s[j]
  OBVIOUS
<1>2. t[i] \in Entry /\ Same(t[i], s[i]) /\ t[i].magic = c
  BY <1>1 DEF Entry, Same
<1>3. t \in Seq(Entry)
  BY <1>1, <1>2
<1> QED
  BY <1>1, <1>2, <1>3 DEF Same

LEMMA Once ==
  ASSUME NEW file, \A l, m \in DOMAIN file : \A i \in DOMAIN file[l] : \A j \in DOMAIN file[m] :
                      file[l][i] = file[m][j] => l = m /\ i = j
  PROVE  ~Twice(file)
  BY DEF Twice

(* A file without its first address; this is where i of it was.            *)
From(l, i) == IF l = 1 THEN i + 1 ELSE i

IsRest(rest, file) ==
    \A l \in DOMAIN rest : \A i \in DOMAIN rest[l] :
        /\ l \in DOMAIN file /\ (l = 1 => i \in Nat /\ i >= 1)
        /\ From(l, i) \in DOMAIN file[l] /\ rest[l][i] = file[l][From(l, i)]

LEMMA Shorter ==
  ASSUME NEW file, NEW rest, 1 \in DOMAIN file, 1 \in DOMAIN file[1], IsRest(rest, file)
  PROVE  /\ InFile(file, file[1][1])
         /\ \A x : InFile(rest, x) => InFile(file, x)
         /\ ~Twice(file) => ~Twice(rest) /\ ~InFile(rest, file[1][1])
<1>1. InFile(file, file[1][1]) /\ \A x : InFile(rest, x) => InFile(file, x)
  BY DEF InFile, IsRest
<1>2. ASSUME ~Twice(file) PROVE ~Twice(rest) /\ ~InFile(rest, file[1][1])
  <2>1. \A l, m \in DOMAIN file : \A i \in DOMAIN file[l] : \A j \in DOMAIN file[m] :
            file[l][i] = file[m][j] => l = m /\ i = j
    BY <1>2 DEF Twice
  <2>2. ASSUME NEW l \in DOMAIN rest, NEW m \in DOMAIN rest,
               NEW i \in DOMAIN rest[l], NEW j \in DOMAIN rest[m], rest[l][i] = rest[m][j]
        PROVE  l = m /\ i = j
    <3>1. l = m /\ From(l, i) = From(m, j)
      BY <2>1, <2>2 DEF IsRest
    <3> QED
      BY <2>2, <3>1 DEF From, IsRest
  <2>3. ASSUME NEW l \in DOMAIN rest, NEW i \in DOMAIN rest[l], rest[l][i] = file[1][1]
        PROVE  FALSE
    <3>1. l = 1 /\ From(l, i) = 1
      BY <2>1, <2>3 DEF IsRest
    <3> QED
      BY <2>3, <3>1 DEF From, IsRest
  <2> QED
    BY <2>2, <2>3, Once DEF InFile
<1> QED
  BY <1>1, <1>2

LEMMA NextAddress ==
  ASSUME NEW file \in Seq(Seq(Address)), file # <<>>, Head(file) # <<>>
  PROVE  LET rest == <<Tail(Head(file))>> \o Tail(file)
         IN  /\ rest \in Seq(Seq(Address)) /\ rest # <<>>
             /\ Head(Head(file)) \in Address /\ InFile(file, Head(Head(file)))
             /\ \A x : InFile(rest, x) => InFile(file, x)
             /\ ~Twice(file) => ~Twice(rest) /\ ~InFile(rest, Head(Head(file)))
<1> DEFINE rest == <<Tail(Head(file))>> \o Tail(file)
<1>1. /\ Len(file) \in Nat /\ Len(file) >= 1 /\ DOMAIN file = 1 .. Len(file)
      /\ \A l \in DOMAIN file : file[l] \in Seq(Address)
      /\ Head(file) = file[1]
  OBVIOUS
<1>2. PICK first \in Seq(Address) : first = file[1] /\ first # <<>> /\ first = Head(file)
  BY <1>1
<1>3. /\ Len(first) \in Nat /\ Len(first) >= 1 /\ DOMAIN first = 1 .. Len(first)
      /\ Tail(first) \in Seq(Address) /\ DOMAIN Tail(first) = 1 .. Len(first) - 1
      /\ \A i \in DOMAIN Tail(first) : Tail(first)[i] = first[i + 1] /\ i + 1 \in DOMAIN first
      /\ Head(first) = first[1] /\ first[1] \in Address
  BY <1>2
<1>4. /\ rest \in Seq(Seq(Address)) /\ rest # <<>> /\ DOMAIN rest = DOMAIN file
      /\ rest[1] = Tail(first) /\ \A l \in DOMAIN file : l # 1 => rest[l] = file[l]
  BY <1>1, <1>2, <1>3
<1> HIDE DEF rest
<1>5. ASSUME NEW l \in DOMAIN rest, NEW i \in DOMAIN rest[l]
      PROVE  /\ l \in DOMAIN file /\ (l = 1 => i \in Nat /\ i >= 1)
             /\ From(l, i) \in DOMAIN file[l] /\ rest[l][i] = file[l][From(l, i)]
  <2>1. CASE l = 1
    <3>1. rest[l] = Tail(first) /\ file[l] = first /\ i \in DOMAIN Tail(first)
      BY <1>2, <1>4, <2>1
    <3> QED
      BY <1>3, <1>4, <2>1, <3>1 DEF From
  <2>2. CASE l # 1
    BY <1>4, <2>2 DEF From
  <2> QED
    BY <2>1, <2>2
<1>6. 1 \in DOMAIN file /\ 1 \in DOMAIN file[1] /\ file[1][1] = Head(Head(file))
  BY <1>1, <1>2, <1>3
<1>7. /\ InFile(file, file[1][1]) /\ \A x : InFile(rest, x) => InFile(file, x)
      /\ ~Twice(file) => ~Twice(rest) /\ ~InFile(rest, file[1][1])
  <2>1. IsRest(rest, file)
    BY <1>5 DEF IsRest
  <2> QED
    BY <1>6, <2>1, Shorter
<1> QED
  BY <1>2, <1>3, <1>4, <1>6, <1>7, Zenon DEF rest

(* A file without its first Listen.                                        *)
LEMMA NextListen ==
  ASSUME NEW file \in Seq(Seq(Address)), file # <<>>
  PROVE  /\ Tail(file) \in Seq(Seq(Address))
         /\ \A x : InFile(Tail(file), x) => InFile(file, x)
         /\ ~Twice(file) => ~Twice(Tail(file))
<1>1. /\ Tail(file) \in Seq(Seq(Address))
      /\ \A l \in DOMAIN Tail(file) :
            l \in Nat /\ l + 1 \in DOMAIN file /\ Tail(file)[l] = file[l + 1]
  OBVIOUS
<1>2. \A x : InFile(Tail(file), x) => InFile(file, x)
  BY <1>1 DEF InFile
<1>3. ASSUME ~Twice(file),
             NEW l \in DOMAIN Tail(file), NEW m \in DOMAIN Tail(file),
             NEW i \in DOMAIN Tail(file)[l], NEW j \in DOMAIN Tail(file)[m],
             Tail(file)[l][i] = Tail(file)[m][j]
      PROVE  l = m /\ i = j
  <2>1. \A k, n \in DOMAIN file : \A p \in DOMAIN file[k], q \in DOMAIN file[n] :
            file[k][p] = file[n][q] => k = n /\ p = q
    BY <1>3 DEF Twice
  <2>2. l + 1 = m + 1 /\ i = j
    BY <1>1, <1>3, <2>1
  <2> QED
    BY <1>1, <2>2
<1> QED
  BY <1>1, <1>2, <1>3 DEF Twice


(***************************************************************************)
(* Each step                                                               *)
(***************************************************************************)
LEMMA ListenTyped ==
  ASSUME ListenTypes
  PROVE  /\ socket \in [Fd -> Address \cup {Closed, Other}]
         /\ listens \in Seq(Entry) /\ new \in Seq(Entry) /\ count \in Nat
         /\ todo = None \/ todo \in Seq(Seq(Address))
         /\ posting \in BOOLEAN /\ spoiled \in BOOLEAN
         /\ posting => Parsing /\ todo # <<>>
         /\ \A e \in Range(listens) \cup Range(new) :
               e \in Entry /\ e.address \in Address /\ e.fd \in Fd /\ e.magic \in Nat
<1>1. \A s \in Seq(Entry) : \A e \in Range(s) : e \in Entry
  BY DEF Range
<1>2. \A e \in Entry : e.address \in Address /\ e.fd \in Fd /\ e.magic \in Nat
  BY DEF Entry
<1> QED
  BY <1>1, <1>2, ListenAssumption DEF ListenTypes

(* NoneLeft without the concatenation.                                     *)
LEMMA RangeBoth ==
  ASSUME NEW s \in Seq(Entry), NEW t \in Seq(Entry)
  PROVE  Range(s \o t) = Range(s) \cup Range(t)
<1>1. /\ Len(s) \in Nat /\ Len(t) \in Nat /\ DOMAIN s = 1 .. Len(s) /\ DOMAIN t = 1 .. Len(t)
      /\ DOMAIN (s \o t) = 1 .. Len(s) + Len(t)
      /\ \A i \in 1 .. Len(s) : (s \o t)[i] = s[i]
      /\ \A i \in 1 .. Len(t) : (s \o t)[Len(s) + i] = t[i]
  OBVIOUS
<1>2. \A i \in DOMAIN (s \o t) : i \in DOMAIN s \/ (i - Len(s) \in DOMAIN t /\ i = Len(s) + (i - Len(s)))
  BY <1>1
<1>3. \A i \in DOMAIN s : i \in DOMAIN (s \o t)
  BY <1>1
<1>4. \A i \in DOMAIN t : Len(s) + i \in DOMAIN (s \o t)
  BY <1>1
<1>5. ASSUME NEW x \in Range(s \o t) PROVE x \in Range(s) \cup Range(t)
  <2>1. PICK i \in DOMAIN (s \o t) : x = (s \o t)[i]
    BY DEF Range
  <2>2. CASE i \in DOMAIN s
    BY <1>1, <2>1, <2>2 DEF Range
  <2>3. CASE i - Len(s) \in DOMAIN t /\ i = Len(s) + (i - Len(s))
    <3>1. (s \o t)[i] = t[i - Len(s)]
      BY <1>1, <2>3
    <3> QED
      BY <2>1, <2>3, <3>1 DEF Range
  <2> QED
    BY <1>2, <2>2, <2>3
<1>6. ASSUME NEW x \in Range(s) \cup Range(t) PROVE x \in Range(s \o t)
  <2>1. CASE x \in Range(s)
    BY <1>1, <1>3, <2>1 DEF Range
  <2>2. CASE x \in Range(t)
    BY <1>1, <1>4, <2>2 DEF Range
  <2> QED
    BY <2>1, <2>2
<1> QED
  BY <1>5, <1>6

Owned(fd, lists, sockets) ==
    sockets[fd] \in Address => \E e \in lists : e.fd = fd /\ e.address = sockets[fd]

LEMMA NoneLeftIs ==
  ASSUME ListenTypes
  PROVE  NoneLeft <=> \A fd \in Fd : Owned(fd, Range(listens) \cup Range(new), socket)
<1>1. Range(listens \o new) = Range(listens) \cup Range(new)
  BY RangeBoth DEF ListenTypes
<1> QED
  BY <1>1 DEF NoneLeft, Owned

LEMMA NoneLeftNext ==
  ASSUME ListenTypes', \A fd \in Fd : Owned(fd, Range(listens)' \cup Range(new)', socket')
  PROVE  NoneLeft'
<1>1. Range(listens' \o new') = Range(listens') \cup Range(new')
  BY RangeBoth DEF ListenTypes
<1> QED
  BY <1>1 DEF NoneLeft, Owned

LEMMA InitListen == ListenInit => ListenInv
<1> SUFFICES ASSUME ListenInit PROVE ListenInv
  OBVIOUS
<1>1. <<>> \in Seq(Entry) /\ DOMAIN (<<>>) = {} /\ 0 \in 0 .. MaxReloads
  BY ListenAssumption
<1>2. Range(<<>>) = {}
  BY <1>1 DEF Range
<1>3. ListenTypes
  BY <1>1, ListenAssumption DEF ListenInit, ListenTypes, Parsing
<1>4. TakenOver
  BY <1>2 DEF ListenInit, TakenOver, Parsing
<1>5. Clean
  BY <1>1, <1>2 DEF ListenInit, Clean, Distinct, Parsing
<1>6. \A fd \in Fd : socket[fd] \notin Address
  BY ListenAssumption DEF ListenInit
<1>7. NoneLeft
  BY <1>6 DEF NoneLeft
<1> QED
  BY <1>3, <1>4, <1>5, <1>7 DEF ListenInv

LEMMA ParsesStep ==
  ASSUME ListenInv, NEW file \in Files, Parses(file) PROVE ListenInv'
<1>0. /\ ListenTypes /\ count < MaxReloads /\ count' = count + 1 /\ ~Parsing
      /\ todo' = file /\ spoiled' = (spoiled \/ Twice(file))
      /\ UNCHANGED <<socket, listens, new, posting>>
  BY DEF ListenInv, Parses
<1>1. /\ count \in Nat /\ MaxReloads \in Nat /\ count' \in 0 .. MaxReloads /\ count' > 0
      /\ file \in Seq(Seq(Address)) /\ file # None
  BY <1>0, ListenTyped, ListenAssumption
<1>2. new = <<>> /\ ~posting /\ \A e \in Range(listens) \cup Range(new) : e.magic <= count /\ e.magic \in Nat
  BY <1>0, ListenTyped DEF ListenInv, TakenOver
<1>3. Range(new) = {}
  BY <1>2 DEF Range
<1>4. ListenTypes'
  BY <1>0, <1>1, <1>2 DEF ListenTypes, Twice
<1>5. \A e \in Range(listens) \cup Range(new) : e.magic < count'
  BY <1>0, <1>1, <1>2
<1>6. TakenOver'
  BY <1>0, <1>1, <1>2, <1>3, <1>5 DEF TakenOver, Parsing
<1>7. Clean'
  BY <1>0, <1>3 DEF ListenInv, Clean
<1>8. NoneLeft'
  BY <1>0 DEF ListenInv, NoneLeft
<1> QED
  BY <1>4, <1>6, <1>7, <1>8 DEF ListenInv


LEMMA BeginsStep == ASSUME ListenInv, Begins PROVE ListenInv'
<1>0. /\ ListenTypes /\ Parsing /\ todo # <<>> /\ posting' = TRUE
      /\ UNCHANGED <<socket, listens, count, todo, new, spoiled>>
  BY DEF ListenInv, Begins
<1>1. ListenTypes'
  BY <1>0 DEF ListenTypes, Parsing
<1>2. TakenOver'
  BY <1>0 DEF ListenInv, TakenOver, Parsing, Had
<1>3. Clean' /\ NoneLeft'
  BY <1>0 DEF ListenInv, Clean, NoneLeft, Parsing
<1> QED
  BY <1>1, <1>2, <1>3 DEF ListenInv

LEMMA PostedStep == ASSUME ListenInv, Posted PROVE ListenInv'
<1>0. /\ ListenTypes /\ Parsing /\ posting /\ todo' = Tail(todo) /\ posting' = FALSE
      /\ UNCHANGED <<socket, listens, count, new, spoiled>>
  BY DEF ListenInv, Posted
<1>1. todo \in Seq(Seq(Address)) /\ todo # <<>>
  BY <1>0, ListenTyped DEF Parsing
<1>2. /\ todo' \in Seq(Seq(Address))
      /\ \A x : InFile(todo', x) => InFile(todo, x)
      /\ ~Twice(todo) => ~Twice(todo')
  BY <1>0, <1>1, NextListen
<1>3. ListenTypes'
  BY <1>0, <1>2 DEF ListenTypes, Parsing
<1>4. Parsing'
  BY <1>2, ListenAssumption DEF Parsing
<1>5. TakenOver'
  BY <1>0, <1>4 DEF ListenInv, TakenOver, Had
<1>6. Clean'
  BY <1>0, <1>2 DEF ListenInv, Clean
<1>7. NoneLeft'
  BY <1>0 DEF ListenInv, NoneLeft
<1> QED
  BY <1>3, <1>5, <1>6, <1>7 DEF ListenInv

(* What an address that gets its descriptor does to the two lists.         *)
LEMMA GetsIs ==
  ASSUME ListenTypes, NEW a, NEW fd \in Fd, NEW magic \in Nat, Gets(a, fd, magic)
  PROVE  /\ Parsing /\ Parsing' /\ a \in Address /\ InFile(todo, a)
         /\ todo' \in Seq(Seq(Address)) /\ todo' # <<>>
         /\ \A x : InFile(todo', x) => InFile(todo, x)
         /\ ~Twice(todo) => ~Twice(todo') /\ ~InFile(todo', a)
         /\ new' \in Seq(Entry)
         /\ Range(new') = Range(new) \cup {[address |-> a, fd |-> fd, magic |-> magic]}
         /\ Distinct(new) /\ (\A f \in Range(new) : f.address # a) => Distinct(new')
         /\ UNCHANGED <<count, posting, spoiled>>
<1> DEFINE entry == [address |-> a, fd |-> fd, magic |-> magic]
<1>1. /\ Parsing /\ todo # <<>> /\ Head(todo) # <<>> /\ a = Head(Head(todo))
      /\ todo' = <<Tail(Head(todo))>> \o Tail(todo)
      /\ new' = Append(new, entry)
      /\ UNCHANGED <<count, posting, spoiled>>
  BY ListenTyped DEF Gets
<1>2. todo \in Seq(Seq(Address)) /\ new \in Seq(Entry)
  BY <1>1, ListenTyped DEF Parsing
<1>3. /\ a \in Address /\ InFile(todo, a)
      /\ todo' \in Seq(Seq(Address)) /\ todo' # <<>>
      /\ \A x : InFile(todo', x) => InFile(todo, x)
      /\ ~Twice(todo) => ~Twice(todo') /\ ~InFile(todo', a)
  BY <1>1, <1>2, NextAddress
<1>4. Parsing'
  BY <1>3, ListenAssumption DEF Parsing
<1>5. entry \in Entry /\ entry.address = a
  BY <1>3 DEF Entry
<1> HIDE DEF entry
<1>6. /\ new' \in Seq(Entry) /\ Range(new') = Range(new) \cup {entry}
      /\ Distinct(new) /\ (\A f \in Range(new) : f.address # a) => Distinct(new')
  BY <1>1, <1>2, <1>5, AppendEntry
<1> QED
  BY <1>1, <1>3, <1>4, <1>6 DEF entry

LEMMA BindStep == ASSUME ListenInv, NEW a \in Address, Bind(a) PROVE ListenInv'
<1>1. PICK fd \in Fd :
        /\ Had(a) = {} /\ socket[fd] = Closed /\ Gets(a, fd, 0)
        /\ socket' = [socket EXCEPT ![fd] = a] /\ UNCHANGED listens
  BY DEF Bind
<1> DEFINE entry == [address |-> a, fd |-> fd, magic |-> 0]
<1>2. /\ ListenTypes /\ Parsing /\ Parsing' /\ InFile(todo, a)
      /\ todo' \in Seq(Seq(Address)) /\ todo' # <<>>
      /\ \A x : InFile(todo', x) => InFile(todo, x)
      /\ ~Twice(todo) => ~Twice(todo') /\ ~InFile(todo', a)
      /\ new' \in Seq(Entry) /\ Range(new') = Range(new) \cup {entry}
      /\ Distinct(new) /\ (\A f \in Range(new) : f.address # a) => Distinct(new')
      /\ UNCHANGED <<count, posting, spoiled>>
  BY <1>1, GetsIs DEF ListenInv
<1>3. entry.address = a /\ entry.fd = fd /\ entry.magic = 0
  OBVIOUS
<1> HIDE DEF entry
<1>4. /\ socket \in [Fd -> Address \cup {Closed, Other}] /\ Closed \notin Address /\ count \in Nat
      /\ \A e \in Range(listens) \cup Range(new) : e.address \in Address /\ e.fd \in Fd
  BY <1>2, ListenTyped, ListenAssumption
<1>5. ListenTypes'
  BY <1>1, <1>2, <1>4 DEF ListenTypes
<1>6. /\ count > 0
      /\ \A e \in Range(listens) \cup Range(new) : e.magic <= count
      /\ \A e \in Range(listens) : e.magic = count => \E f \in Range(new) : Same(e, f)
      /\ \A f \in Range(new) :
            IF f.magic = count
            THEN \E e \in Range(listens) : e.magic = count /\ Same(e, f)
            ELSE Had(f.address) = {}
  BY <1>2 DEF ListenInv, TakenOver
<1>7. TakenOver'
  <2>1. \A e \in Range(listens)' \cup Range(new)' : e.magic <= count'
    BY <1>1, <1>2, <1>3, <1>4, <1>6
  <2>2. \A e \in Range(listens)' : e.magic = count' => \E f \in Range(new)' : Same(e, f)
    BY <1>1, <1>2, <1>6
  <2>3. ASSUME NEW f \in Range(new)'
        PROVE  IF f.magic = count'
               THEN \E e \in Range(listens)' : e.magic = count' /\ Same(e, f)
               ELSE Had(f.address)' = {}
    <3>1. CASE f = entry
      BY <1>1, <1>2, <1>3, <1>6, <3>1 DEF Had
    <3>2. CASE f \in Range(new)
      BY <1>1, <1>2, <1>6, <3>2 DEF Had
    <3> QED
      BY <1>2, <3>1, <3>2
  <2> QED
    BY <1>2, <1>6, <2>1, <2>2, <2>3 DEF TakenOver
<1>8. Clean'
  <2> SUFFICES ASSUME ~spoiled
      PROVE  /\ \A e \in Range(listens)' \cup Range(new)' : socket'[e.fd] = e.address
             /\ Distinct(listens') /\ Distinct(new')
             /\ ~Twice(todo') /\ \A f \in Range(new)' : ~InFile(todo', f.address)
    BY <1>2 DEF Clean
  <2>1. /\ \A e \in Range(listens) \cup Range(new) : socket[e.fd] = e.address
        /\ Distinct(listens) /\ Distinct(new)
        /\ ~Twice(todo) /\ \A f \in Range(new) : ~InFile(todo, f.address)
    BY <1>2 DEF ListenInv, Clean
  <2>2. \A e \in Range(listens) \cup Range(new) : socket'[e.fd] = e.address
    BY <1>1, <1>4, <2>1
  <2>3. \A f \in Range(new) : f.address # a
    BY <1>2, <2>1
  <2>4. socket'[fd] = a
    BY <1>1, <1>4
  <2> QED
    BY <1>1, <1>2, <1>3, <2>1, <2>2, <2>3, <2>4
<1>9. NoneLeft'
  <2>1. \A d \in Fd : Owned(d, Range(listens) \cup Range(new), socket)
    BY <1>2, NoneLeftIs DEF ListenInv
  <2>2. \A d \in Fd : Owned(d, Range(listens)' \cup Range(new)', socket')
    BY <1>1, <1>2, <1>3, <1>4, <2>1 DEF Owned
  <2> QED
    BY <1>5, <2>2, NoneLeftNext
<1> QED
  BY <1>5, <1>7, <1>8, <1>9 DEF ListenInv


LEMMA ReuseStep == ASSUME ListenInv, NEW a \in Address, Reuse(a) PROVE ListenInv'
<1>1. PICK i \in Had(a) :
        /\ Gets(a, listens[i].fd, count)
        /\ listens' = [listens EXCEPT ![i].magic = count] /\ UNCHANGED socket
  BY DEF Reuse
<1>2. i \in DOMAIN listens /\ listens[i].address = a
  BY <1>1 DEF Had
<1> DEFINE entry == [address |-> a, fd |-> listens[i].fd, magic |-> count]
<1>3. /\ ListenTypes /\ count \in Nat /\ listens \in Seq(Entry) /\ listens[i] \in Range(listens)
      /\ listens[i].fd \in Fd
      /\ \A e \in Range(listens) \cup Range(new) : e.address \in Address /\ e.fd \in Fd
  BY <1>2, ListenTyped DEF ListenInv, Range
<1>4. /\ Parsing /\ Parsing' /\ InFile(todo, a)
      /\ todo' \in Seq(Seq(Address)) /\ todo' # <<>>
      /\ \A x : InFile(todo', x) => InFile(todo, x)
      /\ ~Twice(todo) => ~Twice(todo') /\ ~InFile(todo', a)
      /\ new' \in Seq(Entry) /\ Range(new') = Range(new) \cup {entry}
      /\ Distinct(new) /\ (\A f \in Range(new) : f.address # a) => Distinct(new')
      /\ UNCHANGED <<count, posting, spoiled>>
  BY <1>1, <1>3, GetsIs
<1>5. entry.address = a /\ entry.fd = listens[i].fd /\ entry.magic = count
  OBVIOUS
<1> HIDE DEF entry
<1>6. /\ listens' \in Seq(Entry) /\ DOMAIN listens' = DOMAIN listens /\ listens'[i].magic = count
      /\ \A j \in DOMAIN listens : Same(listens'[j], listens[j]) /\ (j # i => listens'[j] = listens[j])
  BY <1>1, <1>2, <1>3, MarkEntry
<1>7. Same(listens'[i], entry) /\ listens'[i] \in Range(listens)'
  BY <1>2, <1>5, <1>6 DEF Same, Range
(* An entry is the one that is marked, or was there before; and each that  *)
(* was there is there, perhaps with the mark.                              *)
<1>8. \A e \in Range(listens)' : e \in Range(listens) \/ e = listens'[i]
  BY <1>6 DEF Range
<1>9. ASSUME NEW e \in Range(listens), e.magic = count
      PROVE  \E g \in Range(listens)' : g.magic = count /\ Same(g, e)
  <2>1. PICK j \in DOMAIN listens : e = listens[j]
    BY DEF Range
  <2>2. listens'[j] \in Range(listens)' /\ Same(listens'[j], e) /\ listens'[j].magic = count
    BY <1>6, <1>9, <2>1 DEF Range
  <2> QED
    BY <2>2
<1>10. ASSUME NEW e \in Range(listens)
       PROVE  \E g \in Range(listens)' : Same(g, e)
  <2>1. PICK j \in DOMAIN listens : e = listens[j]
    BY DEF Range
  <2>2. listens'[j] \in Range(listens)' /\ Same(listens'[j], e)
    BY <1>6, <2>1 DEF Range
  <2> QED
    BY <2>2
<1>11. \A x : Had(x)' = Had(x)
  BY <1>6 DEF Had, Same
<1>12. ListenTypes'
  BY <1>1, <1>3, <1>4, <1>6 DEF ListenTypes
<1>13. /\ count > 0
       /\ \A e \in Range(listens) \cup Range(new) : e.magic <= count
       /\ \A e \in Range(listens) : e.magic = count => \E f \in Range(new) : Same(e, f)
       /\ \A f \in Range(new) :
             IF f.magic = count
             THEN \E e \in Range(listens) : e.magic = count /\ Same(e, f)
             ELSE Had(f.address) = {}
  BY <1>4 DEF ListenInv, TakenOver
<1>14. TakenOver'
  <2>1. \A e \in Range(listens)' \cup Range(new)' : e.magic <= count'
    BY <1>3, <1>4, <1>5, <1>6, <1>8, <1>13
  <2>2. ASSUME NEW e \in Range(listens)', e.magic = count'
        PROVE  \E f \in Range(new)' : Same(e, f)
    <3>1. CASE e \in Range(listens)
      BY <1>4, <1>13, <2>2, <3>1
    <3>2. CASE e = listens'[i]
      BY <1>4, <1>7, <3>2
    <3> QED
      BY <1>8, <3>1, <3>2
  <2>3. ASSUME NEW f \in Range(new)'
        PROVE  IF f.magic = count'
               THEN \E e \in Range(listens)' : e.magic = count' /\ Same(e, f)
               ELSE Had(f.address)' = {}
    <3>1. CASE f = entry
      BY <1>4, <1>5, <1>6, <1>7, <3>1
    <3>2. CASE f \in Range(new) /\ f.magic = count
      <4>1. PICK e \in Range(listens) : e.magic = count /\ Same(e, f)
        BY <1>13, <3>2
      <4>2. PICK g \in Range(listens)' : g.magic = count /\ Same(g, e)
        BY <1>9, <4>1
      <4> QED
        BY <1>4, <3>2, <4>1, <4>2 DEF Same
    <3>3. CASE f \in Range(new) /\ f.magic # count
      BY <1>4, <1>11, <1>13, <3>3
    <3> QED
      BY <1>4, <3>1, <3>2, <3>3
  <2> QED
    BY <1>4, <1>13, <2>1, <2>2, <2>3 DEF TakenOver
<1>15. Clean'
  <2> SUFFICES ASSUME ~spoiled
      PROVE  /\ \A e \in Range(listens)' \cup Range(new)' : socket'[e.fd] = e.address
             /\ Distinct(listens') /\ Distinct(new')
             /\ ~Twice(todo') /\ \A f \in Range(new)' : ~InFile(todo', f.address)
    BY <1>4 DEF Clean
  <2>1. /\ \A e \in Range(listens) \cup Range(new) : socket[e.fd] = e.address
        /\ Distinct(listens) /\ Distinct(new)
        /\ ~Twice(todo) /\ \A f \in Range(new) : ~InFile(todo, f.address)
    BY <1>4 DEF ListenInv, Clean
  <2>2. socket'[entry.fd] = entry.address /\ socket'[listens'[i].fd] = listens'[i].address
    BY <1>1, <1>2, <1>3, <1>5, <1>7, <2>1 DEF Same
  <2>3. \A f \in Range(new) : f.address # a
    BY <1>4, <2>1
  <2>4. Distinct(listens')
    BY <1>6, <2>1 DEF Distinct, Same
  <2>5. \A e \in Range(listens)' \cup Range(new)' : socket'[e.fd] = e.address
    BY <1>1, <1>4, <1>8, <2>1, <2>2
  <2> QED
    BY <1>4, <1>5, <2>1, <2>3, <2>4, <2>5
<1>16. NoneLeft'
  <2>1. \A d \in Fd : Owned(d, Range(listens) \cup Range(new), socket)
    BY <1>3, NoneLeftIs DEF ListenInv
  <2>2. ASSUME NEW d \in Fd PROVE Owned(d, Range(listens)' \cup Range(new)', socket')
    <3> SUFFICES ASSUME socket[d] \in Address
        PROVE  \E e \in Range(listens)' \cup Range(new)' : e.fd = d /\ e.address = socket[d]
      BY <1>1 DEF Owned
    <3>1. PICK e \in Range(listens) \cup Range(new) : e.fd = d /\ e.address = socket[d]
      BY <2>1 DEF Owned
    <3>2. CASE e \in Range(new)
      BY <1>4, <3>1, <3>2
    <3>3. CASE e \in Range(listens)
      BY <1>10, <3>1, <3>3 DEF Same
    <3> QED
      BY <3>1, <3>2, <3>3
  <2> QED
    BY <1>12, <2>2, NoneLeftNext
<1> QED
  BY <1>12, <1>14, <1>15, <1>16 DEF ListenInv

(* What phl_conf_listen_free() does to the descriptors.                    *)
LEMMA Closes ==
  ASSUME ListenTypes, NEW fds, Close(fds)
  PROVE  /\ socket' \in [Fd -> Address \cup {Closed, Other}]
         /\ \A fd \in Fd : socket'[fd] \in Address => fd \notin fds /\ socket'[fd] = socket[fd]
         /\ \A fd \in Fd : fd \notin fds => socket'[fd] = socket[fd]
  BY ListenTyped, ListenAssumption DEF Close

LEMMA FailsStep == ASSUME ListenInv, Fails PROVE ListenInv'
<1>1. PICK unset : 
        /\ Parsing /\ Close(Dropped(new) \cup unset) /\ spoiled' = (spoiled \/ unset # {})
        /\ todo' = None /\ new' = <<>> /\ posting' = FALSE /\ UNCHANGED <<listens, count>>
  BY DEF Fails
<1>2. /\ ListenTypes /\ count \in Nat /\ spoiled \in BOOLEAN
      /\ \A e \in Range(listens) \cup Range(new) :
            e.address \in Address /\ e.fd \in Fd /\ e.magic \in Nat
  BY ListenTyped DEF ListenInv
<1>3. /\ socket' \in [Fd -> Address \cup {Closed, Other}]
      /\ \A fd \in Fd : socket'[fd] \in Address =>
            fd \notin Dropped(new) \cup unset /\ socket'[fd] = socket[fd]
      /\ \A fd \in Fd : fd \notin Dropped(new) \cup unset => socket'[fd] = socket[fd]
  BY <1>1, <1>2, Closes
<1>4. new' \in Seq(Entry) /\ Range(new') = {} /\ DOMAIN new' = {} /\ ~Parsing'
  BY <1>1 DEF Range, Parsing
<1>5. /\ \A e \in Range(listens) \cup Range(new) : e.magic <= count
      /\ \A f \in Range(new) :
            IF f.magic = count
            THEN \E e \in Range(listens) : e.magic = count /\ Same(e, f)
            ELSE Had(f.address) = {}
  BY <1>1 DEF ListenInv, TakenOver
<1>6. ListenTypes'
  BY <1>1, <1>2, <1>3, <1>4 DEF ListenTypes
<1>7. TakenOver'
  BY <1>1, <1>4, <1>5 DEF TakenOver
(* What is closed is of an address that no listens entry has.              *)
<1>8. Clean'
  <2> SUFFICES ASSUME ~spoiled, unset = {}
      PROVE  Distinct(listens) /\ \A e \in Range(listens) : socket'[e.fd] = e.address
    BY <1>1, <1>2, <1>4 DEF Clean, Distinct
  <2>1. Distinct(listens) /\ \A e \in Range(listens) \cup Range(new) : socket[e.fd] = e.address
    BY DEF ListenInv, Clean
  <2>2. ASSUME NEW e \in Range(listens), e.fd \in Dropped(new) PROVE FALSE
    <3>1. PICK f \in Range(new) : f.magic < count /\ f.fd = e.fd
      BY <2>2 DEF Dropped
    <3>2. f.address = e.address /\ Had(f.address) = {}
      BY <1>2, <1>5, <2>1, <3>1
    <3>3. PICK i \in DOMAIN listens : e = listens[i]
      BY DEF Range
    <3> QED
      BY <3>2, <3>3 DEF Had
  <2> QED
    BY <1>2, <1>3, <2>1, <2>2
<1>9. NoneLeft'
  <2>1. \A d \in Fd : Owned(d, Range(listens) \cup Range(new), socket)
    BY <1>2, NoneLeftIs DEF ListenInv
  <2>2. ASSUME NEW d \in Fd, socket'[d] \in Address
        PROVE  \E e \in Range(listens) : e.fd = d /\ e.address = socket'[d]
    <3>1. PICK e \in Range(listens) \cup Range(new) : e.fd = d /\ e.address = socket'[d]
      BY <1>3, <2>1, <2>2 DEF Owned
    <3>2. CASE e \in Range(new)
      <4>1. ~(e.magic < count)
        BY <1>3, <2>2, <3>1, <3>2 DEF Dropped
      <4>2. e.magic = count
        BY <1>2, <1>5, <3>2, <4>1
      <4> QED
        BY <1>5, <3>1, <3>2, <4>2 DEF Same
    <3> QED
      BY <3>1, <3>2
  <2>3. \A d \in Fd : Owned(d, Range(listens)' \cup Range(new)', socket')
    BY <1>1, <2>2 DEF Owned
  <2> QED
    BY <1>6, <2>3, NoneLeftNext
<1> QED
  BY <1>6, <1>7, <1>8, <1>9 DEF ListenInv

LEMMA DoneStep == ASSUME ListenInv, Done PROVE ListenInv'
<1>1. /\ Parsing /\ todo = <<>> /\ listens' = new /\ Close(Dropped(listens))
      /\ todo' = None /\ new' = <<>> /\ UNCHANGED <<count, posting, spoiled>>
  BY DEF Done
<1>2. /\ ListenTypes /\ count \in Nat /\ ~posting /\ new \in Seq(Entry)
      /\ \A e \in Range(listens) \cup Range(new) :
            e.address \in Address /\ e.fd \in Fd /\ e.magic \in Nat
  BY <1>1, ListenTyped DEF ListenInv
<1>3. /\ socket' \in [Fd -> Address \cup {Closed, Other}]
      /\ \A fd \in Fd : socket'[fd] \in Address =>
            fd \notin Dropped(listens) /\ socket'[fd] = socket[fd]
      /\ \A fd \in Fd : fd \notin Dropped(listens) => socket'[fd] = socket[fd]
  BY <1>1, <1>2, Closes
<1>4. new' \in Seq(Entry) /\ Range(new') = {} /\ DOMAIN new' = {} /\ ~Parsing'
  BY <1>1 DEF Range, Parsing
<1>5. /\ \A e \in Range(listens) \cup Range(new) : e.magic <= count
      /\ \A e \in Range(listens) : e.magic = count => \E f \in Range(new) : Same(e, f)
      /\ \A f \in Range(new) :
            IF f.magic = count
            THEN \E e \in Range(listens) : e.magic = count /\ Same(e, f)
            ELSE Had(f.address) = {}
  BY <1>1 DEF ListenInv, TakenOver
<1>6. ListenTypes'
  BY <1>1, <1>2, <1>3, <1>4 DEF ListenTypes
<1>7. TakenOver'
  BY <1>1, <1>2, <1>4, <1>5 DEF TakenOver
(* The entry that is closed would have the address of a new one.           *)
<1>8. Clean'
  <2> SUFFICES ASSUME ~spoiled
      PROVE  Distinct(new) /\ \A f \in Range(new) : socket'[f.fd] = f.address
    BY <1>1, <1>4 DEF Clean, Distinct
  <2>1. /\ Distinct(new) /\ Distinct(listens)
        /\ \A e \in Range(listens) \cup Range(new) : socket[e.fd] = e.address
    BY DEF ListenInv, Clean
  <2>2. ASSUME NEW f \in Range(new), f.fd \in Dropped(listens) PROVE FALSE
    <3>1. PICK g \in Range(listens) : g.magic < count /\ g.fd = f.fd
      BY <2>2 DEF Dropped
    <3>2. PICK i \in DOMAIN listens : g = listens[i]
      BY DEF Range
    <3>3. i \in Had(f.address)
      BY <2>1, <3>1, <3>2 DEF Had
    <3>4. PICK e \in Range(listens) : e.magic = count /\ e.address = f.address
      BY <1>5, <3>3 DEF Same
    <3>5. PICK j \in DOMAIN listens : e = listens[j]
      BY DEF Range
    <3>6. i = j
      BY <2>1, <3>2, <3>3, <3>4, <3>5 DEF Distinct, Had
    <3> QED
      BY <1>2, <3>1, <3>2, <3>4, <3>5, <3>6
  <2> QED
    BY <1>2, <1>3, <2>1, <2>2
<1>9. NoneLeft'
  <2>1. \A d \in Fd : Owned(d, Range(listens) \cup Range(new), socket)
    BY <1>2, NoneLeftIs DEF ListenInv
  <2>2. ASSUME NEW d \in Fd, socket'[d] \in Address
        PROVE  \E f \in Range(new) : f.fd = d /\ f.address = socket'[d]
    <3>1. PICK e \in Range(listens) \cup Range(new) : e.fd = d /\ e.address = socket'[d]
      BY <1>3, <2>1, <2>2 DEF Owned
    <3>2. CASE e \in Range(listens)
      <4>1. ~(e.magic < count)
        BY <1>3, <2>2, <3>1, <3>2 DEF Dropped
      <4>2. e.magic = count
        BY <1>2, <1>5, <3>2, <4>1
      <4> QED
        BY <1>5, <3>1, <3>2, <4>2 DEF Same
    <3> QED
      BY <3>1, <3>2
  <2>3. \A d \in Fd : Owned(d, Range(listens)' \cup Range(new)', socket')
    BY <1>1, <2>2 DEF Owned
  <2> QED
    BY <1>6, <2>3, NoneLeftNext
<1> QED
  BY <1>6, <1>7, <1>8, <1>9 DEF ListenInv

LEMMA NextListens == ListenInv /\ [ListenNext]_lvars => ListenInv'
<1>1. ASSUME ListenInv, UNCHANGED lvars PROVE ListenInv'
  BY <1>1 DEF ListenInv, ListenTypes, TakenOver, Clean, NoneLeft, Parsing, Had, lvars
<1> QED
  BY <1>1, ParsesStep, BeginsStep, ReuseStep, BindStep, PostedStep, FailsStep, DoneStep
  DEF ListenNext

(* phl_conf_parse() closes every socket that no configuration has, however *)
(* its reloads end; and it leaves each address of the configuration its    *)
(* socket as long as no Listen failed between two of its addresses and no  *)
(* file named an address twice.                                            *)
THEOREM SocketsHold == ListenSpec => []Sockets
<1>1. ListenInv => Sockets
  BY DEF ListenInv, Sockets, Listening, Clean
<1> QED
  BY <1>1, InitListen, NextListens, PTL DEF ListenSpec
=============================================================================
