------------------------------- MODULE Request -------------------------------
(***************************************************************************)
(* Requests and their subrequests, src/src/phl_request.c, with the two     *)
(* users of subrequests: the filter auth_request and the Lua function      *)
(* phl.subrequest().                                                       *)
(*                                                                         *)
(* One client connection of one worker, and the subrequests below it.      *)
(* phl_request_run() calls itself for fathers and subrequests; `stack` has *)
(* a frame for each call that has something left to do.  An action is one  *)
(* step of the innermost one.  Only when none runs does the event loop     *)
(* call a handler.                                                         *)
(***************************************************************************)
EXTENDS Naturals, Sequences, FiniteSets

CONSTANTS
    Top,        (* the client's request                                    *)
    Sub,        (* subrequests; bounds how many there are at a time        *)
    None,       (* a NULL pointer                                          *)
    Detached    (* PHL_REQUEST_DETACHED_SUBR_FATHER                        *)

Request == Sub \cup {Top}

ASSUME NullAssumption ==
    /\ Top \notin Sub
    /\ None \notin Request /\ Detached \notin Request /\ None # Detached

VARIABLES
    life,       (* "none": not allocated or freed.  "open".  "finished": a *)
                (* subrequest that is `closed`, but not yet by its father. *)
                (* "released": in phl_request_defer_list                   *)
    state,      (* r->state, with is_broken in `broken`                    *)
    broken,
    status,     (* r->resp.status_code                                     *)
    father,     (* r->father                                               *)
    subrs,      (* r->subr_head                                            *)
    guarded,    (* r->conf_path has auth_request                           *)
    passed,     (* filter_indexs[0] is beyond auth_request                 *)
    ctx,        (* the subrequest of auth_request                          *)
    thread,     (* the one that r->L waits for in phl.subrequest()         *)
    unsent,     (* subrequests in phl_connection_defer_list, with a body   *)
    answer,     (* history: the status that auth_request let it pass for     *)
    stack,      (* the calls of phl_request_run()                          *)
    dead        (* freed memory was used, or a list was damaged: nothing   *)
                (* is known of the worker from then on                     *)

vars == <<life, state, broken, status, father, subrs, guarded, passed, ctx,
          thread, unsent, answer, stack, dead>>

(* PHL_REQUEST_STATE_...                                                   *)
ReceiveHeaders == 0
LocateConfHost == 1
LocateConfPath == 2
ReceiveBodySync == 3
ProcessHeaders == 4
ProcessBody == 5
ResponseHeaders1 == 6
ResponseHeaders2 == 7
ResponseHeaders3 == 8
ResponseBody == 9
Done == 10

(* No step tells the status codes other than 200 apart.                    *)
Status == {"none", "200", "other"}

(* "run": about to do a step.  "post": in phl_request_run_post(), with its *)
(* `subr`.  "flush": in phl_connection_make_space().                       *)
Frame == [who : Request, at : {"run", "post", "flush"}, subr : Request \cup {None}]
Run(r) == [who |-> r, at |-> "run", subr |-> None]
Post(r, s) == [who |-> r, at |-> "post", subr |-> s]
Flush(r) == [who |-> r, at |-> "flush", subr |-> None]

Init ==
    /\ life = [r \in Request |-> "none"]
    /\ state = [r \in Request |-> ReceiveHeaders]
    /\ broken = [r \in Request |-> FALSE]
    /\ status = [r \in Request |-> "none"]
    /\ father = [r \in Request |-> None]
    /\ subrs = [r \in Request |-> <<>>]
    /\ guarded = [r \in Request |-> FALSE]
    /\ passed = [r \in Request |-> FALSE]
    /\ ctx = [r \in Request |-> None]
    /\ thread = [r \in Request |-> None]
    /\ unsent = {}
    /\ answer = [r \in Request |-> "none"]
    /\ stack = <<>>
    /\ dead = FALSE

-----------------------------------------------------------------------------
(***************************************************************************)
(* The parts of the steps.                                                 *)
(***************************************************************************)
links == <<father, ctx, thread, unsent>>
auth == <<guarded, passed, answer>>

(* The innermost call is about to do this step, for a request that is not  *)
(* `closed`.                                                               *)
At(r, step) ==
    /\ ~dead
    /\ stack # <<>> /\ Head(stack) = Run(r)
    /\ life[r] = "open"
    /\ state[r] = step

Call(frames) == stack' = frames \o Tail(stack)

(* PHL_OK                                                                  *)
Advance(r) ==
    /\ state' = [state EXCEPT ![r] = @ + 1]
    /\ Call(<<Run(r)>>)

(* PHL_AGAIN                                                               *)
FirstOf(list) == IF list = <<>> THEN None ELSE Head(list)
Block(r) == Call(<<Post(r, FirstOf(subrs[r]))>>)

(* A status code, or PHL_ERROR: then the status is kept, or becomes 500.   *)
(* Once headers are complete there is one.                                 *)
Break(r) ==
    /\ broken' = [broken EXCEPT ![r] = TRUE]
    /\ state' = [state EXCEPT ![r] = ResponseHeaders1]
    /\ Call(<<Run(r)>>)

BreakWith(r, code) == Break(r) /\ status' = [status EXCEPT ![r] = code]

(* phl_request_subr_new() for uri; the new one is not started yet.         *)
Fresh(s, r, f) ==
    /\ s \in Sub
    /\ life[s] = "none"
    /\ life' = [life EXCEPT ![s] = "open"]
    /\ state' = [state EXCEPT ![s] = LocateConfHost]
    /\ status' = [status EXCEPT ![s] = "none"]
    /\ broken' = [broken EXCEPT ![s] = FALSE]
    /\ father' = [father EXCEPT ![s] = f]
    /\ subrs' = [subrs EXCEPT ![r] = <<s>> \o @]
    /\ passed' = [passed EXCEPT ![s] = FALSE]
    /\ guarded' = [guarded EXCEPT ![s] = FALSE]
    /\ answer' = [answer EXCEPT ![s] = "none"]

(* wuy_list_delete(), if it is in the list                                 *)
Place(list, s) == CHOOSE j \in DOMAIN list : list[j] = s

Without(list, s) ==
    IF \A j \in DOMAIN list : list[j] # s THEN list
    ELSE [j \in 1 .. Len(list) - 1 |->
              IF j < Place(list, s) THEN list[j] ELSE list[j + 1]]

(* phl_request_do_close() closes the subrequests in the list, theirs, ...  *)
Family(r) ==
    {x \in Request : \A S \in SUBSET Request :
        r \in S /\ (\A y \in S : \A i \in DOMAIN subrs[y] : subrs[y][i] \in S) => x \in S}

(* ... and only then kills the Lua threads.  The resume handler of one     *)
(* that waits for a subrequest reads and closes it again, though its       *)
(* memory is freed.                                                        *)
KillsWaiting(r) == \E x \in Family(r) : thread[x] # None

ReleaseBut(r, undeferred) ==
    LET gone == Family(r)
    IN  /\ life' = [x \in Request |-> IF x \in gone THEN "released" ELSE life[x]]
        /\ subrs' = [x \in Request |->
                        IF x \in gone THEN <<>> ELSE Without(subrs[x], r)]
        /\ unsent' = unsent \ undeferred

ReleaseDeferred(r) == ReleaseBut(r, {})  (* slip: its connection is still to be flushed *)

Release(r) == ReleaseBut(r, Family(r))

(* What is read then is not defined.  The model takes it for the worker's  *)
(* death, and nothing is promised of what comes after it.                  *)
Die ==
    /\ dead' = TRUE
    /\ UNCHANGED <<life, state, broken, status, subrs, stack>>
    /\ UNCHANGED <<links, auth>>

Close(x, Otherwise) ==
    IF KillsWaiting(x) THEN Die
    ELSE Release(x) /\ Otherwise /\ UNCHANGED <<father, dead>>

-----------------------------------------------------------------------------
(***************************************************************************)
(* Steps that are other handlers' code: they go on, wait for an event of   *)
(* their own, or fail.                                                     *)
(***************************************************************************)
HasOtherHandlers(r, step) ==
    /\ At(r, step)
    /\ step = ProcessHeaders => ~guarded[r] \/ passed[r]
    /\ step = ResponseHeaders1 => ~broken[r] /\ thread[r] = None

(* A subrequest has its father's host and, from the start, its body.  No   *)
(* module has a handler for ProcessBody.                                   *)
Early(r) == IF r = Top THEN {ReceiveHeaders, LocateConfHost, ReceiveBodySync} ELSE {}

Proceeds(r) ==
    /\ \E step \in {ReceiveHeaders, LocateConfHost, ReceiveBodySync, ProcessHeaders,
                    ProcessBody, ResponseHeaders2} : HasOtherHandlers(r, step)
    /\ Advance(r)
    /\ UNCHANGED <<life, broken, status, subrs, dead>>
    /\ UNCHANGED <<links, auth>>

LocatesPath(r) ==
    /\ At(r, LocateConfPath)
    /\ Advance(r)
    /\ \E g \in BOOLEAN : guarded' = [guarded EXCEPT ![r] = g]
    /\ UNCHANGED <<life, broken, status, subrs, passed, answer, dead>>
    /\ UNCHANGED links

Generates(r) ==
    /\ HasOtherHandlers(r, ResponseHeaders1)
    /\ Advance(r)
    /\ \E code \in Status \ {"none"} : status' = [status EXCEPT ![r] = code]
    /\ UNCHANGED <<life, broken, subrs, dead>>
    /\ UNCHANGED <<links, auth>>

Waits(r) ==
    /\ \E step \in (Early(r) \ {LocateConfHost}) \cup {LocateConfPath, ProcessHeaders,
                    ResponseHeaders1, ResponseHeaders2, ResponseBody} : HasOtherHandlers(r, step)
    /\ Block(r)
    /\ UNCHANGED <<life, state, broken, status, subrs, dead>>
    /\ UNCHANGED <<links, auth>>

(* Or it waits for the sub-configuration, of its path or of its upstream,  *)
(* that another request makes: phl_dynamic_get() appends r->list_node to   *)
(* the holder's list, though it is in a list already.  That of a           *)
(* subrequest is in its father's; that of the client's request is in the   *)
(* holder's, if it waited before.  Both lists are damaged.                 *)
WaitsLinked(r) ==
    /\ \E step \in {LocateConfPath, ResponseHeaders1} : HasOtherHandlers(r, step)
    /\ Die

FailsForgetting(r) ==  (* slip: is_broken is not set *)
    /\ \E step \in Early(r) \cup {LocateConfPath, ProcessHeaders, ResponseHeaders1} :
           HasOtherHandlers(r, step)
    /\ state' = [state EXCEPT ![r] = ResponseHeaders1]
    /\ Call(<<Run(r)>>)
    /\ status' = [status EXCEPT ![r] = "other"]
    /\ UNCHANGED <<life, broken, subrs, dead>>
    /\ UNCHANGED <<links, auth>>

Fails(r) ==
    /\ \E step \in Early(r) \cup {LocateConfPath, ProcessHeaders, ResponseHeaders1} :
           HasOtherHandlers(r, step)
    /\ BreakWith(r, "other")
    /\ UNCHANGED <<life, subrs, dead>>
    /\ UNCHANGED <<links, auth>>

(* Also once headers were sent: they are sent again.                       *)
FailsLate(r) ==
    /\ At(r, ResponseHeaders2) \/ At(r, ResponseBody)
    /\ \E code \in {status[r], "other"} : BreakWith(r, code)
    /\ UNCHANGED <<life, subrs, dead>>
    /\ UNCHANGED <<links, auth>>

(* The answer to a request that is broken is made of its status.           *)
AnswersError(r) ==
    /\ At(r, ResponseHeaders1)
    /\ broken[r]
    /\ Advance(r)
    /\ UNCHANGED <<life, broken, status, subrs, dead>>
    /\ UNCHANGED <<links, auth>>

(* phl_request_redirect() clears r->conf_path, through which the next log  *)
(* line of phl_request_run() looks for its file.                           *)
Redirects(r) ==
    /\ At(r, ResponseHeaders2)
    /\ Die

-----------------------------------------------------------------------------
(***************************************************************************)
(* phl_auth_request.c.                                                     *)
(***************************************************************************)
Auth(r) == At(r, ProcessHeaders) /\ guarded[r] /\ ~passed[r]

Asks(r) ==
    /\ Auth(r)
    /\ ctx[r] = None
    /\ \E s \in Sub :
         /\ Fresh(s, r, r)
         /\ ctx' = [ctx EXCEPT ![r] = s]
         /\ Call(<<Post(r, s)>>)
    /\ UNCHANGED <<thread, unsent, dead>>

(* No more memory, of which Sub is the bound: the result of calloc() is    *)
(* not checked.                                                            *)
AsksWithoutMemory(r) ==
    /\ Auth(r)
    /\ ctx[r] = None
    /\ \A s \in Sub : life[s] # "none"
    /\ Die

NotYet(r) ==
    /\ Auth(r)
    /\ ctx[r] # None /\ status[ctx[r]] = "none"
    /\ Block(r)
    /\ UNCHANGED <<life, state, broken, status, subrs, dead>>
    /\ UNCHANGED <<links, auth>>

GrantsWith(r, codes) ==
    /\ Auth(r)
    /\ ctx[r] # None /\ status[ctx[r]] \in codes
    /\ Close(ctx[r], /\ ctx' = [ctx EXCEPT ![r] = None]
                     /\ passed' = [passed EXCEPT ![r] = TRUE]
                     /\ answer' = [answer EXCEPT ![r] = status[ctx[r]]]
                     /\ UNCHANGED <<state, broken, status, guarded, thread, stack>>)

GrantsOther(r) ==  (* slip: any code *)
    GrantsWith(r, {"200", "other"})

Grants(r) == GrantsWith(r, {"200"})

(* The subrequest stays until the request is closed.                       *)
Refuses(r) ==
    /\ Auth(r)
    /\ ctx[r] # None /\ status[ctx[r]] = "other"
    /\ BreakWith(r, "other")
    /\ UNCHANGED <<life, subrs, dead>>
    /\ UNCHANGED <<links, auth>>

-----------------------------------------------------------------------------
(***************************************************************************)
(* A script as the content, phl_script.c, that calls phl.subrequest().     *)
(***************************************************************************)
Subrequests(r) ==
    /\ HasOtherHandlers(r, ResponseHeaders1)
    /\ \E s \in Sub :
         /\ Fresh(s, r, r)
         /\ thread' = [thread EXCEPT ![r] = s]
         /\ Call(<<Post(r, s)>>)
    /\ UNCHANGED <<ctx, unsent, dead>>

(* Whatever the call of phl_request_run() is for.                          *)
Resumes(r) ==
    /\ At(r, ResponseHeaders1)
    /\ ~broken[r]
    /\ thread[r] # None
    /\ Close(thread[r], /\ thread' = [thread EXCEPT ![r] = None]
                        /\ UNCHANGED <<state, broken, status, ctx, stack, auth>>)

(* With the option `detach`, and in phl_save_to.c.                         *)
Detaches(r) ==
    /\ HasOtherHandlers(r, ResponseHeaders1) \/ At(r, ResponseBody)
    /\ \E s \in Sub : Fresh(s, r, Detached)
    /\ UNCHANGED <<ctx, thread, unsent, stack, dead>>

-----------------------------------------------------------------------------
(***************************************************************************)
(* Sending, or for a subrequest keeping, the response.                     *)
(***************************************************************************)
SendsHeaders(r) ==
    /\ At(r, ResponseHeaders3)
    /\ Advance(r)
    /\ UNCHANGED <<life, broken, status, subrs, dead>>
    /\ UNCHANGED <<links, auth>>

(* The connection's buffer is full, ...                                    *)
SendBlocks ==
    /\ At(Top, ResponseHeaders3) \/ At(Top, ResponseBody)
    /\ Block(Top)
    /\ UNCHANGED <<life, state, broken, status, subrs, dead>>
    /\ UNCHANGED <<links, auth>>

(* ... or it is broken: phl_connection_close().                            *)
SendFails ==
    /\ At(Top, ResponseHeaders3) \/ At(Top, ResponseBody)
    /\ Close(Top, stack' = Tail(stack) /\ UNCHANGED <<state, broken, status, ctx, thread, auth>>)

(* The last piece, or one after which the content is waited for.  What a   *)
(* subrequest keeps makes its connection wait for being flushed; that of a *)
(* detached one is dropped, of which nothing here depends.                 *)
KeepsBody(r) ==
    unsent' \in IF father[r] \in Request THEN {unsent, unsent \cup {r}} ELSE {unsent}

EndsBody(r) ==
    /\ At(r, ResponseBody)
    /\ Advance(r)
    /\ KeepsBody(r)
    /\ UNCHANGED <<life, broken, status, father, subrs, ctx, thread, dead>>
    /\ UNCHANGED auth

WaitsForBody(r) ==
    /\ At(r, ResponseBody)
    /\ Block(r)
    /\ KeepsBody(r)
    /\ UNCHANGED <<life, state, broken, status, father, subrs, ctx, thread, dead>>
    /\ UNCHANGED auth

(* The buffer of a subrequest is full: phl_request_subr_flush_connection() *)
(* runs the father.                                                        *)
FlushesBody(r) ==
    /\ r \in Sub
    /\ At(r, ResponseBody)
    /\ father[r] # Detached
    /\ unsent' = unsent \cup {r}
    /\ Call(<<Run(father[r]), Flush(r)>>)
    /\ UNCHANGED <<life, state, broken, status, father, subrs, ctx, thread, dead>>
    /\ UNCHANGED auth

(* Back from the father in phl_connection_make_space().                    *)
Flushed(r) ==
    /\ ~dead
    /\ stack # <<>> /\ Head(stack) = Flush(r)
    /\ IF life[r] = "released"
       THEN Die
       ELSE /\ Block(r)
            /\ UNCHANGED <<life, state, broken, status, subrs, dead>>
            /\ UNCHANGED <<links, auth>>

-----------------------------------------------------------------------------
(***************************************************************************)
(* The end of a request, and of a call.                                    *)
(***************************************************************************)
FinishesSilently(r) ==  (* slip: the father is not run *)
    /\ r \in Sub
    /\ At(r, Done)
    /\ IF father[r] = Detached
       THEN Close(r, Call(<<>>) /\ UNCHANGED <<state, broken, status, ctx, thread, auth>>)
       ELSE /\ life' = [life EXCEPT ![r] = "finished"]
            /\ Call(<<>>)
            /\ UNCHANGED <<state, broken, status, subrs, dead>>
            /\ UNCHANGED <<links, auth>>

(* phl_request_close() of a subrequest, ...                                *)
Finishes(r) ==
    /\ r \in Sub
    /\ At(r, Done)
    /\ IF father[r] = Detached
       THEN Close(r, Call(<<>>) /\ UNCHANGED <<state, broken, status, ctx, thread, auth>>)
       ELSE /\ life' = [life EXCEPT ![r] = "finished"]
            /\ Call(<<Run(father[r])>>)
            /\ UNCHANGED <<state, broken, status, subrs, dead>>
            /\ UNCHANGED <<links, auth>>

(* ... and of the client's request.                                        *)
FinishesTop ==
    /\ At(Top, Done)
    /\ Close(Top, Call(<<>>) /\ UNCHANGED <<state, broken, status, ctx, thread, auth>>)

(* The request is `closed` already.                                        *)
Returns(r) ==
    /\ ~dead
    /\ stack # <<>> /\ Head(stack) = Run(r)
    /\ life[r] = "finished" \/ (r = Top /\ life[r] = "released")
    /\ Call(<<>>)
    /\ UNCHANGED <<life, state, broken, status, subrs, dead>>
    /\ UNCHANGED <<links, auth>>

(* phl_request_run_post(): new subrequests are moved to the end of the     *)
(* list and run.  `subr` may have been closed meanwhile.                   *)
AtPost(r, s) == ~dead /\ stack # <<>> /\ Head(stack) = Post(r, s)

After(list, s) ==
    IF Place(list, s) = Len(list) THEN None ELSE list[Place(list, s) + 1]

PostStarts(r, s) ==
    /\ AtPost(r, s)
    /\ s # None
    /\ state[s] = LocateConfHost
    /\ IF life[s] = "released" THEN Die
       ELSE /\ subrs' = [subrs EXCEPT ![r] = Append(Without(@, s), s)]
            /\ Call(<<Run(s), Post(r, After(subrs[r], s))>>)
            /\ UNCHANGED <<life, state, broken, status, dead>>
            /\ UNCHANGED <<links, auth>>

PostEnds(r, s) ==
    /\ AtPost(r, s)
    /\ s = None \/ (s # None /\ state[s] # LocateConfHost)
    /\ Call(<<>>)
    /\ UNCHANGED <<life, state, broken, status, subrs, dead>>
    /\ UNCHANGED <<links, auth>>

-----------------------------------------------------------------------------
(***************************************************************************)
(* The event loop.                                                         *)
(***************************************************************************)
Idle == ~dead /\ stack = <<>>

(* The subrequest that r, where it is, waits for.                          *)
WaitsFor(r) ==
    IF thread[r] # None THEN thread[r]
    ELSE IF state[r] = ProcessHeaders THEN ctx[r]
    ELSE None

(* The client's connection is readable, for a new request.                 *)
Receives ==
    /\ Idle
    /\ life[Top] = "none"
    /\ life' = [life EXCEPT ![Top] = "open"]
    /\ state' = [state EXCEPT ![Top] = ReceiveHeaders]
    /\ broken' = [broken EXCEPT ![Top] = FALSE]
    /\ status' = [status EXCEPT ![Top] = "none"]
    /\ guarded' = [guarded EXCEPT ![Top] = FALSE]
    /\ passed' = [passed EXCEPT ![Top] = FALSE]
    /\ answer' = [answer EXCEPT ![Top] = "none"]
    /\ stack' = <<Run(Top)>>
    /\ UNCHANGED <<subrs, dead>>
    /\ UNCHANGED links

(* It is readable or writable, or what another handler waits for is there. *)
Event(r) ==
    /\ Idle
    /\ life[r] = "open"
    /\ r = Top \/ WaitsFor(r) = None
    /\ stack' = <<Run(r)>>
    /\ UNCHANGED <<life, state, broken, status, subrs, dead>>
    /\ UNCHANGED <<links, auth>>

(* The client closes the connection, or a timer expires.                   *)
ClientGoes ==
    /\ Idle
    /\ life[Top] = "open"
    /\ Close(Top, UNCHANGED <<state, broken, status, ctx, thread, auth, stack>>)

(* phl_connection_defer_routine()                                          *)
Flushes(s) ==
    /\ Idle
    /\ s \in unsent
    /\ unsent' = unsent \ {s}
    /\ stack' = <<Run(father[s])>>
    /\ UNCHANGED <<life, state, broken, status, father, subrs, ctx, thread, dead>>
    /\ UNCHANGED auth

(* phl_request_defer_free()                                                *)
Frees ==
    /\ Idle
    /\ \E r \in Request : life[r] = "released"
    /\ LET Cleared(f, value) ==
               [r \in Request |-> IF life[r] = "released" THEN value ELSE f[r]]
       IN  /\ life' = Cleared(life, "none")
           /\ state' = Cleared(state, ReceiveHeaders)
           /\ broken' = Cleared(broken, FALSE)
           /\ status' = Cleared(status, "none")
           /\ father' = Cleared(father, None)
           /\ guarded' = Cleared(guarded, FALSE)
           /\ passed' = Cleared(passed, FALSE)
           /\ ctx' = Cleared(ctx, None)
           /\ answer' = Cleared(answer, "none")
    /\ UNCHANGED <<subrs, thread, unsent, stack, dead>>

-----------------------------------------------------------------------------
Step(r) ==
    \/ Proceeds(r) \/ LocatesPath(r) \/ Generates(r) \/ Waits(r) \/ WaitsLinked(r)
    \/ Fails(r) \/ FailsLate(r) \/ AnswersError(r) \/ Redirects(r)
    \/ Asks(r) \/ AsksWithoutMemory(r) \/ NotYet(r) \/ Grants(r) \/ Refuses(r)
    \/ Subrequests(r) \/ Resumes(r) \/ Detaches(r)
    \/ SendsHeaders(r) \/ EndsBody(r) \/ WaitsForBody(r) \/ FlushesBody(r) \/ Flushed(r)
    \/ Finishes(r) \/ Returns(r)
    \/ \E s \in Sub \cup {None} : PostStarts(r, s) \/ PostEnds(r, s)

Next ==
    \/ \E r \in Request : Step(r) \/ Event(r)
    \/ SendBlocks \/ SendFails \/ FinishesTop
    \/ Receives \/ ClientGoes \/ Frees
    \/ \E s \in Sub : Flushes(s)
    \/ dead /\ UNCHANGED vars      (* its successor begins at Init *)

Spec == Init /\ [][Next]_vars

-----------------------------------------------------------------------------
(* Types of the variables.                                                 *)
TypeOK ==
    /\ life \in [Request -> {"none", "open", "finished", "released"}]
    /\ state \in [Request -> ReceiveHeaders .. Done]
    /\ broken \in [Request -> BOOLEAN]
    /\ status \in [Request -> Status]
    /\ father \in [Request -> Request \cup {None, Detached}]
    /\ subrs \in [Request -> Seq(Sub)]
    /\ guarded \in [Request -> BOOLEAN]
    /\ passed \in [Request -> BOOLEAN]
    /\ ctx \in [Request -> Sub \cup {None}]
    /\ thread \in [Request -> Sub \cup {None}]
    /\ unsent \in SUBSET Sub
    /\ answer \in [Request -> Status]
    /\ stack \in Seq(Frame)
    /\ dead \in BOOLEAN

Living == {r \in Request : life[r] \in {"open", "finished"}}

(* A living subrequest is in the list of one living request, which is its  *)
(* father unless it is detached, and there once; lists hold nothing else.  *)
(* So it is closed, and closed once, at the latest with that request.      *)
Linked ==
    /\ \A s \in Living \ {Top} : \E r \in Living :
           \E i \in DOMAIN subrs[r] : subrs[r][i] = s /\ father[s] \in {r, Detached}
    /\ \A r, q \in Request : \A i \in DOMAIN subrs[r], j \in DOMAIN subrs[q] :
           /\ r \in Living /\ subrs[r][i] \in Living
           /\ subrs[r][i] = subrs[q][j] => r = q /\ i = j

(* Whoever's memory is used is not freed: requests that are run, and those *)
(* whose connections are to be flushed.                                    *)
InUse ==
    /\ unsent \subseteq Living
    /\ stack # <<>> /\ Head(stack).at = "run" => Head(stack).who \in Living \cup {Top}

(* The tree of subrequests and the memory of its requests, through nested  *)
(* runs and closes (phl_request_close(), phl_request_defer_routine()),     *)
(* until freed memory is used or phl_dynamic_get() damages the lists.      *)
Tree == TypeOK /\ (~dead => Linked /\ InUse)

(* When all calls have returned, what a request waits for is a subrequest  *)
(* of its own that was started and is not finished: it will run its father *)
(* if what it waits for itself comes.  (Idle says that the worker is not   *)
(* dead.)                                                                  *)
NotForgotten ==
    Idle => \A r \in Request : life[r] = "open" /\ WaitsFor(r) # None =>
        LET s == WaitsFor(r)
        IN  life[s] = "open" /\ father[s] = r /\ state[s] \notin {LocateConfHost, Done}

(* However often and by whom it is run meanwhile, a request gets to the    *)
(* content of a path with auth_request only after a subrequest said 200.   *)
AuthGate ==
    ~dead => \A r \in Living : guarded[r] /\ ~broken[r] /\ state[r] > ProcessHeaders => answer[r] = "200"

(* "phl.subrequest() ... returns after it finishes" (README.md:122).       *)
SubrequestReturns ==
    [][\A r \in Request : thread[r] # None /\ thread'[r] = None /\ ~dead
         => life[thread[r]] = "finished"]_vars
=============================================================================
