------------------------------- MODULE Dynamic -------------------------------
(***************************************************************************)
(* Sub-configurations made on request, src/src/phl_dynamic.c: a name is    *)
(* turned into a configuration by the Lua function get_conf(), which may   *)
(* take its time.  Meanwhile a "holder" takes the place of the             *)
(* configuration, and other requests for the name wait for it.             *)
(*                                                                         *)
(* One worker, one dynamic configuration.  Each action is what one call of *)
(* phl_dynamic_get(), or of a timer, does.                                 *)
(***************************************************************************)
EXTENDS Integers, Sequences, FiniteSets

CONSTANTS
    Name,       (* what get_name() returns                                 *)
    Request,    (* requests at a time                                      *)
    Sub,        (* sub-configurations and holders; bounds the memory       *)
    None,       (* a NULL pointer                                          *)
    SubMax,     (* conf `sub_max`                                          *)
    Checks,     (* whether conf `check_interval` is set                    *)
    Nesting     (* whether sub-configurations are dynamic themselves       *)

ASSUME NullAssumption == None \notin Sub
ASSUME ConfAssumption ==
    /\ SubMax \in Nat /\ Checks \in BOOLEAN /\ Nesting \in BOOLEAN
    /\ IsFiniteSet(Sub)

VARIABLES
    dict,       (* sub_dict: for each name, newest first, as wuy_dict_get()*)
                (* finds them                                              *)
    kind,       (* of a sub: is_just_holder, or a parsed configuration     *)
    error,      (* sub_dyn->error_ret                                      *)
    nested,     (* the subs whose own sub_dict is not empty                *)
    waiting,    (* sub_dyn->holder_wait_head                               *)
    state,      (* of a request                                            *)
    name,       (* what get_name() returns for it                          *)
    using,      (* the sub-configuration it was given, None if none yet    *)
    torn        (* history: a list_node was appended to a list of waiting  *)
                (* requests while it was in a list already                 *)

subs == <<dict, kind, error, nested, waiting, torn>>
vars == <<subs, state, name, using>>

Kind == {"none", "holder", "conf"}
Error == {"no", "404", "500"}

(* "calling": its Lua thread is in get_conf().  "waiting": in the list of  *)
(* a holder.                                                               *)
State == {"none", "calling", "waiting", "using"}

Init ==
    /\ dict = [n \in Name |-> <<>>]
    /\ kind = [s \in Sub |-> "none"]
    /\ error = [s \in Sub |-> "no"]
    /\ nested = {}
    /\ waiting = [s \in Sub |-> <<>>]
    /\ state = [r \in Request |-> "none"]
    /\ name \in [Request -> Name]
    /\ using = [r \in Request |-> None]
    /\ torn = FALSE

InDict == {s \in Sub : kind[s] # "none"}
Full == Cardinality(InDict) >= SubMax

(* Memory that is not used, not even by a pointer into freed memory.       *)
Unused == {s \in Sub : kind[s] = "none" /\ \A r \in Request : using[r] # s}

-----------------------------------------------------------------------------
(***************************************************************************)
(* What a call of phl_dynamic_get() leads to.                              *)
(***************************************************************************)
(* An error is answered, or the request starts, goes on, or is over.       *)
Become(r, what, sub) ==
    /\ state' = [state EXCEPT ![r] = what]
    /\ using' = [using EXCEPT ![r] = sub]

NewHolder(n, s) ==
    /\ s \in Unused
    /\ dict' = [dict EXCEPT ![n] = <<s>>]
    /\ kind' = [kind EXCEPT ![s] = "holder"]
    /\ UNCHANGED <<error, nested, waiting, torn>>

(* A list without its i-th element.                                        *)
Without(list, i) == [j \in 1 .. Len(list) - 1 |-> IF j < i THEN list[j] ELSE list[j + 1]]

(* phl_dynamic_delete() for the i-th sub of a name, after `new`, if not    *)
(* None, was put in front of it for the requests R.  Those that wait are   *)
(* woken, and find `new` or, in the dying holder, an error.  Of a torn     *)
(* list any part may be found; the others stay as they are, in no list.    *)
Woken(s) == {waiting[s][i] : i \in DOMAIN waiting[s]}

Serve(R, new) ==
    /\ state' = [r \in Request |-> IF r \notin R THEN state[r]
                                   ELSE IF new = None THEN "none" ELSE "using"]
    /\ using' = [r \in Request |-> IF r \in R THEN new ELSE using[r]]

Delete(n, i, new, R) ==
    LET s == dict[n][i]
        keeps == s \in nested
        rest == IF keeps THEN dict[n] ELSE Without(dict[n], i)
    IN  /\ dict' = [dict EXCEPT ![n] = IF new = None THEN rest ELSE <<new>> \o rest]
        /\ kind' = [t \in Sub |-> IF t = new THEN "conf"
                                  ELSE IF t = s /\ ~keeps THEN "none" ELSE kind[t]]
        /\ error' = IF keeps THEN error ELSE [error EXCEPT ![s] = "no"]
        /\ waiting' = [waiting EXCEPT ![s] = <<>>]
        /\ \E W \in SUBSET Woken(s) : (torn \/ W = Woken(s)) /\ Serve(W \cup R, new)
        /\ UNCHANGED <<nested, name, torn>>

-----------------------------------------------------------------------------
(***************************************************************************)
(* A request comes, for the name n.  Or it waits already, and its client   *)
(* sends something: phl_request_run() comes here again, with the same name.*)
(***************************************************************************)
Comes(r, n) ==
    /\ state[r] = "none" \/ (state[r] = "waiting" /\ n = name[r])
    /\ name' = [name EXCEPT ![r] = n]

(* It is refused, or misses and calls get_conf().                          *)
Miss(r, n) ==
    /\ Comes(r, n)
    /\ dict[n] = <<>>
    /\ ~Full
    /\ \E s \in Sub : NewHolder(n, s)
    /\ Become(r, "calling", None)

(* There is a holder, without an error yet.  Nobody looks whether the      *)
(* request's list_node is in a list: in this one, as it waits already, or  *)
(* in its father's, as it is a subrequest.  Appending it then tears both.  *)
(* Those that wait are "what may still be found" from then on.  (If there  *)
(* is an error, a request that waits already is answered: see Ends.)       *)
Wait(r, n) ==
    /\ Comes(r, n)
    /\ dict[n] # <<>>
    /\ LET s == Head(dict[n])
       IN  /\ kind[s] = "holder"
           /\ error[s] = "no"
           /\ waiting' = IF r \in Woken(s) THEN waiting ELSE [waiting EXCEPT ![s] = Append(@, r)]
    /\ torn' \in {torn \/ state[r] = "waiting", TRUE}
    /\ Become(r, "waiting", None)
    /\ UNCHANGED <<dict, kind, error, nested>>

(* There is a configuration, ...                                           *)
Finds(r, n) ==
    /\ Comes(r, n)
    /\ dict[n] # <<>>
    /\ kind[Head(dict[n])] = "conf"
    /\ error[Head(dict[n])] = "no"
    /\ UNCHANGED subs

Hit(r, n) == Finds(r, n) /\ Become(r, "using", Head(dict[n]))

(* ... which is to be checked, by calling get_conf() again.                *)
Check(r, n) == Checks /\ Finds(r, n) /\ Become(r, "calling", None)

-----------------------------------------------------------------------------
(***************************************************************************)
(* A request whose Lua thread is in get_conf() is run again.  What is in   *)
(* the dictionary by now, `s`, need not be what was there when it began.   *)
(***************************************************************************)
Resumes(r, s) ==
    /\ state[r] = "calling"
    /\ dict[name[r]] # <<>>
    /\ s = Head(dict[name[r]])
    /\ UNCHANGED name

(* There is nothing any more: the end, or a new holder.                    *)
ResumeRefused(r) ==
    /\ state[r] = "calling"
    /\ dict[name[r]] = <<>>
    /\ Full
    /\ Become(r, "none", None)
    /\ UNCHANGED <<subs, name>>

ResumeHoldsAgain(r) ==  (* slip: what is there by now is not looked up *)
    /\ state[r] = "calling"
    /\ \A i \in DOMAIN dict[name[r]] : kind[dict[name[r]][i]] = "conf"
    /\ \E s \in Sub : NewHolder(name[r], s)
    /\ UNCHANGED <<state, name, using>>

ResumeHolds(r) ==
    /\ state[r] = "calling"
    /\ dict[name[r]] = <<>>
    /\ ~Full
    /\ \E s \in Sub : NewHolder(name[r], s)
    /\ UNCHANGED <<state, name, using>>

(* An error in Lua, or a value of a wrong type.                            *)
ReturnsError(r) ==
    /\ \E s \in Sub : Resumes(r, s)
    /\ Become(r, "none", None)
    /\ UNCHANGED subs

(* 304, another status, or a configuration that is unchanged or cannot be  *)
(* parsed: the one that is there is used, if any.                          *)
ReturnsNothingNew(r) ==
    /\ \E s \in Sub :
         /\ Resumes(r, s)
         /\ IF kind[s] = "conf" THEN Become(r, "using", s) ELSE Become(r, "none", None)
    /\ UNCHANGED subs

Returns404(r) ==
    /\ \E s \in Sub :
         /\ Resumes(r, s)
         /\ error' = [error EXCEPT ![s] = "404"]
    /\ Become(r, "none", None)
    /\ UNCHANGED <<dict, kind, nested, waiting, torn>>

(* A new configuration, which takes the place of what is there.            *)
ReturnsConfLate(r) ==  (* slip: it is added after the old one is deleted *)
    \E s \in Sub, new \in Unused :
        /\ Resumes(r, s)
        /\ s \notin nested
        /\ dict' = [dict EXCEPT ![name[r]] = <<new>>]
        /\ kind' = [kind EXCEPT ![s] = "none", ![new] = "conf"]
        /\ error' = [error EXCEPT ![s] = "no"]
        /\ waiting' = [waiting EXCEPT ![s] = <<>>]
        /\ state' = [q \in Request |-> IF q = r THEN "using"
                                       ELSE IF q \in Woken(s) THEN "none" ELSE state[q]]
        /\ using' = [using EXCEPT ![r] = new]
        /\ UNCHANGED <<nested, torn>>

ReturnsConf(r) ==
    \E s \in Sub, new \in Unused :
        /\ Resumes(r, s)
        /\ Delete(name[r], 1, new, {r})

-----------------------------------------------------------------------------
(***************************************************************************)
(* Timers, and the end of a request.                                       *)
(***************************************************************************)
TimeoutResults(s) ==  (* slip: no timer before get_conf() brings something *)
    \E n \in Name : \E i \in DOMAIN dict[n] :
        /\ kind[s] = "conf" \/ error[s] # "no"
        /\ dict[n][i] = s
        /\ Delete(n, i, None, {})

(* phl_dynamic_timeout_handler(): a configuration was not used for its     *)
(* idle time or was removed, or nothing came of a holder.                  *)
Timeout(s) ==
    \E n \in Name : \E i \in DOMAIN dict[n] : dict[n][i] = s /\ Delete(n, i, None, {})

(* The request is answered, or aborted: phl_request_clear_stuff().         *)
Ends(r) ==
    /\ state[r] # "none"
    /\ Become(r, "none", None)
    /\ \/ \E s \in Sub : \E i \in DOMAIN waiting[s] :
            waiting[s][i] = r /\ waiting' = [waiting EXCEPT ![s] = Without(@, i)]
       \/ (\A s \in Sub : r \notin Woken(s)) /\ UNCHANGED waiting
    /\ UNCHANGED <<dict, kind, error, nested, name, torn>>

(* A sub-configuration gets its first sub, or its last one goes.           *)
Nests(s) ==
    /\ Nesting
    /\ kind[s] = "conf"
    /\ nested' = IF s \in nested THEN nested \ {s} ELSE nested \cup {s}
    /\ UNCHANGED <<dict, kind, error, waiting, torn, state, name, using>>

-----------------------------------------------------------------------------
Get(r) ==
    \/ \E n \in Name : Miss(r, n) \/ Wait(r, n) \/ Hit(r, n) \/ Check(r, n)
    \/ ResumeRefused(r) \/ ResumeHolds(r)
    \/ ReturnsError(r) \/ ReturnsNothingNew(r) \/ Returns404(r) \/ ReturnsConf(r)

Next ==
    \/ \E r \in Request : Get(r) \/ Ends(r)
    \/ \E s \in Sub : Timeout(s) \/ Nests(s)

Spec == Init /\ [][Next]_vars

(* The timer of a holder is set once, and by a 404 once more.              *)
FairSpec ==
    /\ Spec
    /\ \A s \in Sub : WF_vars(kind[s] = "holder" /\ Timeout(s))

-----------------------------------------------------------------------------
(* Types of the variables.                                                 *)
TypeOK ==
    /\ dict \in [Name -> Seq(Sub)]
    /\ kind \in [Sub -> Kind]
    /\ error \in [Sub -> Error]
    /\ nested \in SUBSET Sub
    /\ waiting \in [Sub -> Seq(Request)]
    /\ state \in [Request -> State]
    /\ name \in [Request -> Name]
    /\ using \in [Request -> Sub \cup {None}]
    /\ torn \in BOOLEAN

(* A request that waits is in the list of one holder, once, and that       *)
(* holder is what its name leads to: it will be woken.                     *)
WaitersHeld ==
    \A r \in Request :
        LET lists == {s \in Sub : r \in Woken(s)}
        IN  IF state[r] = "waiting"
            THEN /\ \E s \in Sub : lists = {s} /\ kind[s] = "holder" /\ dict[name[r]] = <<s>>
                 /\ \A s \in lists : \A i, j \in DOMAIN waiting[s] :
                       waiting[s][i] = r /\ waiting[s][j] = r => i = j
            ELSE lists = {}

(* What the dictionary holds is alive and there once, and a holder never   *)
(* hides a configuration, nor the other way round.                         *)
Dictionary ==
    /\ \A s \in Sub : kind[s] # "none" <=>
           \E n \in Name : \E i \in DOMAIN dict[n] : dict[n][i] = s
    /\ \A n, m \in Name : \A i \in DOMAIN dict[n], j \in DOMAIN dict[m] :
           dict[n][i] = dict[m][j] => n = m /\ i = j
    /\ \A n \in Name : \A i \in DOMAIN dict[n] : kind[dict[n][i]] = "holder" => Len(dict[n]) = 1

(* No more than `sub_max` names have something in the dictionary, however  *)
(* slow get_conf() is and whatever is replaced meanwhile.                  *)
NamesLimited == Cardinality({n \in Name : dict[n] # <<>>}) <= SubMax

(* The dictionary of a dynamic configuration and those who wait            *)
(* (phl_dynamic_get(), phl_dynamic_delete()), together, as long as no      *)
(* request that waits is run by its client, and no subrequest waits: from  *)
(* then on the lists, and the memory of what was in them, may be damaged.  *)
Holders == TypeOK /\ (~torn => WaitersHeld /\ Dictionary /\ NamesLimited)

(* When get_conf() brings a configuration, all that waited for it use it,  *)
(* if their list is not torn.                                              *)
WaitersServed ==
    [][\A n \in Name :
          ~torn /\ dict[n] # <<>> /\ dict'[n] # <<>> /\ Head(dict'[n]) # Head(dict[n])
            => \A r \in Woken(Head(dict[n])) : using'[r] = Head(dict'[n])]_vars

(* Waiting ends, also if the request that calls get_conf() goes away,      *)
(* unless the lists get torn.                                              *)
WaitingEnds == \A r \in Request : state[r] = "waiting" ~> torn \/ state[r] # "waiting"

(* "created/updated/deleted during running" (README.md:134): while it is   *)
(* used, a sub-configuration is not freed.                                 *)
NotFreedInUse == \A r \in Request : using[r] # None => kind[using[r]] = "conf"
=============================================================================
