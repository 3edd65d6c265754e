------------------------------ MODULE FileCache ------------------------------
(***************************************************************************)
(* The filter file_cache, src/src/modules/phl_file_cache.c: the workers    *)
(* keep the responses of one path in files below one directory, without a  *)
(* lock.  Files live in directories P_<seconds>, of which a worker uses    *)
(* two, the current and the last one.  Each worker makes a new one every   *)
(* `inactive` seconds; a file that is used is moved from the last to the   *)
(* current one.                                                            *)
(*                                                                         *)
(* The model has one key, so that a directory holds at most one file.  A   *)
(* request creates at most one file, which is named after it.  A handler   *)
(* of one worker is not interrupted by another one of that worker, but by  *)
(* the other workers between any two of its system calls on shared names.  *)
(***************************************************************************)
EXTENDS Naturals, Sequences

CONSTANTS
    Worker,
    Request,
    Home,       (* the worker of each request                              *)
    Old,        (* a file from before the start                            *)
    None,       (* no file, no descriptor                                  *)
    Body,       (* how many pieces a response body is written in           *)
    Age,        (* the lifetimes that responses ask for                    *)
    Inactive,   (* conf->inactive                                          *)
    Start,      (* when the configuration is loaded                        *)
    MaxTime,    (* bounds the clock                                        *)
    MaxCrashes  (* bounds the workers that are killed                      *)

ASSUME CacheAssumption ==
    /\ Worker # {} /\ Home \in [Request -> Worker]
    /\ Old \notin Request /\ None \notin Request \cup {Old} /\ Old # None
    /\ Body \in Nat \ {0} /\ Age \subseteq Nat \ {0} /\ Inactive \in Nat \ {0}
    /\ Start \in 1 .. MaxTime /\ MaxTime \in Nat /\ MaxCrashes \in Nat

File == Request \cup {Old}
Dir == 1 .. MaxTime     (* P_1, P_2, ..., and 0 for a descriptor not open  *)

VARIABLES
    now,        (* time(NULL)                                              *)
    dirs,       (* the directories on disk                                 *)
    entry,      (* the file that the name of the key stands for in each    *)
    file,       (* the files, see NoFile                                   *)
    listed,     (* the directories that readdir() has listed               *)
    boot,       (* what the master's memory, copied by fork(), has of      *)
                (* current_dirfd, last_dirfd and the timer                 *)
    cur, last,  (* conf->current_dirfd and last_dirfd of each worker       *)
    due,        (* when its timer runs                                     *)
    at,         (* where each request is                                   *)
    fd,         (* ctx->fd                                                 *)
    open,       (* history: descriptors opened and not closed, by request  *)
    crashes

vars == <<now, dirs, entry, file, listed, boot, cur, last, due, at, fd, open, crashes>>
worker == <<listed, boot, cur, last, due>>

(* mark: item.content_length, missing or the initial one while the file is *)
(* written, the length in the end; or "unmarked", still the initial one    *)
(* since writing the length failed.  expire: item.expire_at.  data: who    *)
(* wrote each piece of the body.  History: failed, the content handler     *)
(* failed, or a part of the headers was not written; and blind, the        *)
(* requests that did not see the finished file: they were on their way to  *)
(* remove or to make one already, or could not open it.                    *)
NoFile == [mark |-> "none", expire |-> 0, data |-> <<>>, failed |-> FALSE, blind |-> {}]

(* "last", "move", "read", "purge": inside process_headers, before the     *)
(* open() of the last directory, renameat(), read() and unlinkat().        *)
(* "hit": the response comes from the file.  "miss": new_filename is set,  *)
(* "store": its file is made, "stored": and finished.  "error": reading    *)
(* failed.  "over": ctx is NULL, the filter has nothing left to do.        *)
Place == {"new", "last", "move", "read", "purge", "hit", "error", "miss",
          "store", "stored", "over"}
Inside == {"last", "move", "read", "purge"}

Idle(w) == \A r \in Request : Home[r] = w => at[r] \notin Inside

(* The system frees a file without a name and without a descriptor.        *)
Linked(files, names, descriptors) ==
    [f \in File |-> IF (\E d \in Dir : names[d] = f) \/ (\E r \in Request : descriptors[r] = f)
                    THEN files[f] ELSE NoFile]

(* What an earlier run may have left: an unfinished file, one just         *)
(* expired, and one about to expire.                                       *)
Left ==
    LET whole == [NoFile EXCEPT !.mark = "finished", !.data = [p \in 1 .. Body |-> Old]] IN
    {[NoFile EXCEPT !.mark = "writing"],
     [whole EXCEPT !.expire = Start - 1], [whole EXCEPT !.expire = Start]}

Init ==
    /\ now = Start
    /\ dirs \in SUBSET (1 .. Start - 1)
    /\ \/ entry = [d \in Dir |-> None] /\ file = [f \in File |-> NoFile]
       \/ \E d \in dirs, old \in Left :
            /\ entry = [e \in Dir |-> IF e = d THEN Old ELSE None]
            /\ file = [f \in File |-> IF f = Old THEN old ELSE NoFile]
    /\ listed = {}
    /\ boot = [cur |-> 0, last |-> 0, due |-> 0]
    /\ cur = [w \in Worker |-> 0]
    /\ last = [w \in Worker |-> 0]
    /\ due = [w \in Worker |-> 0]
    /\ at = [r \in Request |-> "new"]
    /\ fd = [r \in Request |-> None]
    /\ open = [r \in Request |-> 0]
    /\ crashes = 0

(***************************************************************************)
(* phl_file_cache_conf_post()                                              *)
(***************************************************************************)
Started == \A w \in Worker : cur[w] # 0

(* slip: an older directory that is listed after the newest is overlooked  *)
NewestOnce(ts) ==
    IF ts > boot.cur THEN [boot EXCEPT !.cur = ts, !.last = boot.cur] ELSE boot

Newest(ts) ==
    IF ts > boot.cur THEN [boot EXCEPT !.cur = ts, !.last = boot.cur]
    ELSE IF ts > boot.last THEN [boot EXCEPT !.last = ts]
    ELSE boot

(* readdir() lists the directories in any order.                           *)
Scan(ts) ==
    /\ ~Started /\ ts \in dirs \ listed
    /\ listed' = listed \cup {ts}
    /\ boot' = Newest(ts)
    /\ UNCHANGED <<now, dirs, entry, file, cur, last, due, at, fd, open, crashes>>

(* A new directory, if there was none, and the timer.  The master forks    *)
(* the workers.                                                            *)
Boot ==
    /\ ~Started /\ listed = dirs
    /\ boot' = [boot EXCEPT !.cur = IF @ = 0 THEN now ELSE @,
                            !.due = (now \div Inactive + 1) * Inactive]
    /\ dirs' = dirs \cup {boot'.cur}
    /\ listed' = dirs'
    /\ cur' = [w \in Worker |-> boot'.cur]
    /\ last' = [w \in Worker |-> boot'.last]
    /\ due' = [w \in Worker |-> boot'.due]
    /\ UNCHANGED <<now, entry, file, at, fd, open, crashes>>

(***************************************************************************)
(* phl_file_cache_filter_process_headers()                                 *)
(***************************************************************************)
(* openat(), if there is the file.  It may fail all the same, with         *)
(* another error than ENOENT, which is not looked at.                      *)
OpensIn(r, d) ==
    /\ d # 0 /\ entry[d] # None
    /\ fd' = [fd EXCEPT ![r] = entry[d]]
    /\ open' = [open EXCEPT ![r] = @ + 1]

Overlook(r, d) ==
    [f \in File |-> IF f = entry[d] /\ file[f].mark = "finished" /\ f # Old
                    THEN [file[f] EXCEPT !.blind = @ \cup {r}] ELSE file[f]]

(* close(ctx->fd)                                                          *)
Closes(r) ==
    /\ fd' = [fd EXCEPT ![r] = None]
    /\ open' = [open EXCEPT ![r] = @ - 1]

LookUp(r) ==
    LET w == Home[r] IN
    /\ at[r] = "new" /\ Started /\ Idle(w)
    /\ \/ OpensIn(r, cur[w]) /\ UNCHANGED file /\ at' = [at EXCEPT ![r] = "read"]
       \/ /\ UNCHANGED <<fd, open>>
          /\ file' = Overlook(r, cur[w])
          /\ at' = [at EXCEPT ![r] = IF last[w] > 0 THEN "last" ELSE "miss"]
    /\ UNCHANGED <<now, dirs, entry, crashes, worker>>

LookUpLast(r) ==
    LET w == Home[r] IN
    /\ at[r] = "last"
    /\ \/ OpensIn(r, last[w]) /\ at' = [at EXCEPT ![r] = "move"]
       \/ UNCHANGED <<fd, open>> /\ at' = [at EXCEPT ![r] = "miss"]
    /\ UNCHANGED <<now, dirs, entry, file, crashes, worker>>

(* phl_file_cache_rename_file(): whatever has the name in the last         *)
(* directory by now takes it over in the current one, or nothing does.     *)
Move(r) ==
    LET w == Home[r] IN
    /\ at[r] = "move"
    /\ at' = [at EXCEPT ![r] = "read"]
    /\ \/ /\ entry[last[w]] # None
          /\ entry' = [entry EXCEPT ![last[w]] = None, ![cur[w]] = entry[last[w]]]
       \/ UNCHANGED entry
    /\ file' = Linked(file, entry', fd)
    /\ UNCHANGED <<now, dirs, fd, open, crashes, worker>>

Unfinished(r) == file[fd[r]].mark # "finished"
Expired(r) == file[fd[r]].mark = "finished" /\ file[fd[r]].expire < now
(* slip: the mark is not looked at                                         *)
HitUnmarked(r) == file[fd[r]].mark # "none" /\ file[fd[r]].expire >= now

Hit(r) == file[fd[r]].mark = "finished" /\ file[fd[r]].expire >= now

Read(r) ==
    /\ at[r] = "read"
    /\ \/ (* phl_file_cache_abort()                                        *)
          Unfinished(r) /\ Closes(r) /\ at' = [at EXCEPT ![r] = "over"]
       \/ Expired(r) /\ Closes(r) /\ at' = [at EXCEPT ![r] = "purge"]
       \/ Hit(r) /\ UNCHANGED <<fd, open>> /\ at' = [at EXCEPT ![r] = "hit"]
       \/ (* read() fails                                                  *)
          UNCHANGED <<fd, open>> /\ at' = [at EXCEPT ![r] = "error"]
    /\ file' = Linked(file, entry, fd')
    /\ UNCHANGED <<now, dirs, entry, crashes, worker>>

(* unlinkat() removes the name, whatever file has it by now.               *)
Unlink(w) == entry' = [entry EXCEPT ![cur[w]] = None]

Purge(r) ==
    /\ at[r] = "purge"
    /\ Unlink(Home[r])
    /\ at' = [at EXCEPT ![r] = "miss"]
    /\ file' = Linked(file, entry', fd)
    /\ UNCHANGED <<now, dirs, fd, open, crashes, worker>>

(***************************************************************************)
(* The filters for the response, and the end                               *)
(***************************************************************************)
(* slip: the file is closed by nobody                                      *)
AbortOpen(r) ==
    /\ fd' = [fd EXCEPT ![r] = None]
    /\ IF at[r] \in {"miss", "store"} THEN Unlink(Home[r]) ELSE UNCHANGED entry
    /\ at' = [at EXCEPT ![r] = "over"]
    /\ file' = Linked(file, entry', fd')
    /\ UNCHANGED <<now, dirs, open, crashes, worker>>

(* slip: new_filename is looked at only as long as nothing is written      *)
AbortLeaves(r) ==
    /\ IF fd[r] # None THEN Closes(r) ELSE UNCHANGED <<fd, open>>
    /\ IF at[r] = "miss" THEN Unlink(Home[r]) ELSE UNCHANGED entry
    /\ at' = [at EXCEPT ![r] = "over"]
    /\ file' = Linked(file, entry', fd')
    /\ UNCHANGED <<now, dirs, crashes, worker>>

(* phl_file_cache_ctx_free(), and ctx = NULL                               *)
Abort(r) ==
    /\ IF fd[r] # None THEN Closes(r) ELSE UNCHANGED <<fd, open>>
    /\ IF at[r] \in {"miss", "store"} THEN Unlink(Home[r]) ELSE UNCHANGED entry
    /\ at' = [at EXCEPT ![r] = "over"]
    /\ file' = Linked(file, entry', fd')
    /\ UNCHANGED <<now, dirs, crashes, worker>>

(* phl_file_cache_filter_response_headers(): the response must not be      *)
(* stored, or open(O_EXCL) or write() fails.  A write() of a part of the   *)
(* headers does not fail.                                                  *)
Ignore(r) == at[r] = "miss" /\ Idle(Home[r]) /\ Abort(r)

Create(r) ==
    LET w == Home[r] IN
    /\ at[r] = "miss" /\ Idle(w)
    /\ entry[cur[w]] = None
    /\ entry' = [entry EXCEPT ![cur[w]] = r]
    /\ \E age \in Age, part \in BOOLEAN :
         file' = [file EXCEPT ![r] = [NoFile EXCEPT !.mark = "writing", !.expire = now + age,
                                                   !.failed = part]]
    /\ fd' = [fd EXCEPT ![r] = r]
    /\ open' = [open EXCEPT ![r] = @ + 1]
    /\ at' = [at EXCEPT ![r] = "store"]
    /\ UNCHANGED <<now, dirs, crashes, worker>>

(* slip: new_filename stays                                                *)
FinishNamed(r) == UNCHANGED at

(* The last call: new_filename = NULL, and before that the length over the *)
(* mark, unless this write() fails, which is logged only.                  *)
Finish(r) == at' = [at EXCEPT ![r] = "stored"]

Finished(f, r) ==
    {[f EXCEPT !.mark = "finished",
               !.blind = {q \in Request \ {r} : at[q] \in Inside \cup {"miss", "store"}}],
     [f EXCEPT !.mark = "unmarked"]}

(* phl_file_cache_filter_response_body()                                   *)
Write(r) ==
    /\ at[r] = "store" /\ Idle(Home[r])
    /\ LET more == [file[fd[r]] EXCEPT !.data = Append(@, r)] IN
       \/ /\ Len(more.data) < Body
          /\ file' = [file EXCEPT ![fd[r]] = more]
          /\ UNCHANGED at
       \/ /\ Len(more.data) >= Body
          /\ \E end \in Finished(more, r) : file' = [file EXCEPT ![fd[r]] = end]
          /\ Finish(r)
    /\ UNCHANGED <<now, dirs, entry, fd, open, crashes, worker>>

WriteFails(r) == at[r] = "store" /\ Idle(Home[r]) /\ Abort(r)

(* The content handler fails: phl_request_run() takes the status of the    *)
(* response, 200, for a response without body, and calls the filters with  *)
(* an empty last piece.                                                    *)
ContentFails(r) ==
    /\ at[r] = "store" /\ Idle(Home[r])
    /\ \E end \in Finished([file[fd[r]] EXCEPT !.failed = TRUE], r) :
         file' = [file EXCEPT ![fd[r]] = end]
    /\ Finish(r)
    /\ UNCHANGED <<now, dirs, entry, fd, open, crashes, worker>>

(* The request is freed, at its end or because the client has gone.        *)
End(r) == at[r] \notin {"new", "over"} /\ Idle(Home[r]) /\ Abort(r)

(***************************************************************************)
(* Time                                                                    *)
(***************************************************************************)
(* phl_file_cache_renew_period() and _new_dir().  libloop counts the next  *)
(* period from when the timer was due or from when it runs.                *)
Renew(w) ==
    /\ Started /\ due[w] <= now /\ Idle(w)
    /\ \E base \in {due[w], now} : due' = [due EXCEPT ![w] = base + Inactive]
    /\ \/ /\ dirs' = dirs \cup {now}
          /\ cur' = [cur EXCEPT ![w] = now]
          /\ last' = [last EXCEPT ![w] = cur[w]]
       \/ (* mkdirat() or openat() fails                                   *)
          UNCHANGED <<dirs, cur, last>>
    /\ UNCHANGED <<now, entry, file, listed, boot, at, fd, open, crashes>>

(* A timer runs within the second after it is due.                         *)
Tick ==
    /\ Started /\ now < MaxTime
    /\ \A w \in Worker : due[w] >= now
    /\ now' = now + 1
    /\ UNCHANGED <<dirs, entry, file, at, fd, open, crashes, worker>>

(* A worker dies with its requests; the master forks another one.          *)
Crash(w) ==
    /\ Started /\ crashes < MaxCrashes
    /\ crashes' = crashes + 1
    /\ LET lost == {r \in Request : Home[r] = w /\ at[r] # "new"} IN
       /\ at' = [r \in Request |-> IF r \in lost THEN "over" ELSE at[r]]
       /\ fd' = [r \in Request |-> IF r \in lost THEN None ELSE fd[r]]
       /\ open' = [r \in Request |-> IF r \in lost THEN 0 ELSE open[r]]
    /\ file' = Linked(file, entry, fd')
    /\ cur' = [cur EXCEPT ![w] = boot.cur]
    /\ last' = [last EXCEPT ![w] = boot.last]
    /\ due' = [due EXCEPT ![w] = boot.due]
    /\ UNCHANGED <<now, dirs, entry, listed, boot>>

Next ==
    \/ \E r \in Request :
        \/ LookUp(r) \/ LookUpLast(r) \/ Move(r) \/ Read(r) \/ Purge(r)
        \/ Ignore(r) \/ Create(r) \/ Write(r) \/ WriteFails(r) \/ ContentFails(r) \/ End(r)
    \/ \E w \in Worker : Renew(w) \/ Crash(w)
    \/ Tick
    \/ (\E ts \in dirs : Scan(ts)) \/ Boot

Spec == Init /\ [][Next]_vars

(***************************************************************************)
(* Properties                                                              *)
(***************************************************************************)
TypeOK ==
    /\ now \in Start .. MaxTime /\ dirs \subseteq Dir
    /\ entry \in [Dir -> File \cup {None}]
    /\ file \in [File -> [mark : {"none", "writing", "unmarked", "finished"}, expire : Nat,
                         data : Seq(File), failed : BOOLEAN, blind : SUBSET Request]]
    /\ listed \subseteq dirs
    /\ boot \in [cur : Dir \cup {0}, last : Dir \cup {0}, due : Nat]
    /\ cur \in [Worker -> Dir \cup {0}] /\ last \in [Worker -> Dir \cup {0}]
    /\ due \in [Worker -> Nat]
    /\ at \in [Request -> Place] /\ fd \in [Request -> File \cup {None}]
    /\ open \in [Request -> Nat]
    /\ crashes \in 0 .. MaxCrashes

(* Descriptors: whatever way a request takes, each descriptor is closed    *)
(* once, and a file under construction is written by one request.          *)
Closed ==
    \A r \in Request :
        /\ open[r] = IF fd[r] = None THEN 0 ELSE 1
        /\ at[r] \in {"new", "miss", "purge", "over"} => fd[r] = None
OneWriter ==
    \A q, r \in Request : at[q] = "store" /\ at[r] = "store" /\ fd[q] = fd[r] => q = r
Descriptors == TypeOK /\ Closed /\ OneWriter

(* A response from the cache is a whole one, written by one request, also  *)
(* while other requests and workers move, remove and replace the file;     *)
(* unless its content handler failed, or its headers were written in part. *)
Whole(f) == \E w \in File : file[f].data = [p \in 1 .. Body |-> w]
HitsWhole ==
    \A r \in Request : at[r] = "hit" =>
        file[fd[r]].mark = "finished" /\ (Whole(fd[r]) \/ file[fd[r]].failed)

(* As written, "mark finished" is set on whole files alone.                *)
MarkedWhole == \A f \in File : file[f].mark = "finished" => Whole(f)

(* In whatever order readdir() lists them, the two newest directories on   *)
(* disk are found, also if one of them is the first or the last listed.    *)
NewestTwo ==
    LET older == listed \ {boot.cur} IN
    /\ IF listed = {} THEN boot.cur = 0
       ELSE boot.cur \in listed /\ \A d \in listed : d <= boot.cur
    /\ IF older = {} THEN boot.last = 0
       ELSE boot.last \in older /\ \A d \in older : d <= boot.last
    /\ Started => \A d \in dirs \ listed : d >= Start

(* Until a worker dies or directories are renewed, an unfinished file in   *)
(* a directory belongs to a request that still writes it, or writing its   *)
(* mark failed: no other is left over, which would keep the key out of the *)
(* cache.                                                                  *)
Calm == crashes = 0 /\ \A w \in Worker : cur[w] = boot.cur /\ last[w] = boot.last
NoneLeftOver ==
    Calm => \A d \in Dir : entry[d] \in Request /\ file[entry[d]].mark = "writing"
                              => at[entry[d]] = "store"

(* A finished file loses its place before its time only to a request that  *)
(* was under way when it was finished, or could not open it: other later   *)
(* requests keep it, and so does the one that wrote it.                    *)
Kept ==
    [][\A f \in Request : \A d \in Dir :
          (/\ Calm /\ entry[d] = f /\ file[f].mark = "finished" /\ file[f].expire >= now
           /\ \A e \in Dir : entry'[e] # f)
          => \E r \in file[f].blind : at[r] \in {"move", "purge", "miss", "store"} /\ at'[r] # at[r]]_vars
===============================================================================
