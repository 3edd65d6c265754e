-------------------------------- MODULE Listen --------------------------------
(***************************************************************************)
(* Listening sockets over reloads of the configuration, phl_conf_parse()   *)
(* in src/src/phl_conf.c with src/src/phl_conf_listen.c: the master opens  *)
(* a socket for each address of each Listen; a reload takes over those of  *)
(* the configuration before, opens new ones, and, when it succeeds, closes *)
(* what is no longer used.  When it fails, the configuration before stays. *)
(*                                                                         *)
(* phl_conf_parse() runs alone, so that a step is what it does for one     *)
(* address; a worker inherits the descriptors that are open when it is     *)
(* forked, which may be between any two reloads, to replace a dead one.    *)
(***************************************************************************)
EXTENDS Naturals, Sequences, Functions

CONSTANTS
    Address,
    Fd,         (* descriptors of the master, 0 among them                 *)
    Files,      (* configuration files: the addresses of each Listen       *)
    ReusePort,  (* conf `network.reuse_port`                               *)
    Closed,     (* of a descriptor: not open                               *)
    Other,      (* of a descriptor: stdin, or /dev/null                    *)
    None,       (* no file                                                 *)
    MaxReloads  (* a bound on phl_conf_reload_count                        *)

ASSUME ListenAssumption ==
    /\ 0 \in Fd /\ Fd \subseteq Nat /\ Closed # Other /\ {Closed, Other} \cap Address = {}
    /\ Files \subseteq Seq(Seq(Address)) /\ None \notin Seq(Seq(Address))
    /\ ReusePort \in BOOLEAN /\ MaxReloads \in Nat

VARIABLES
    socket,     (* what each descriptor of the master is                   *)
    listens,    (* phl_conf_listens: addresses, fds and reuse_magics of    *)
                (* all its Listens in their order                          *)
    count,      (* phl_conf_reload_count                                   *)
    todo,       (* what is left of the file that is read: of the first     *)
                (* Listen there the addresses without a descriptor yet     *)
    new,        (* new_listens, as far as they are made                    *)
    posting,    (* whether phl_conf_listen_post() runs for that Listen     *)
    spoiled     (* an address was named twice, or a Listen failed between  *)
                (* its addresses; only properties look at it               *)

lvars == <<socket, listens, count, todo, new, posting, spoiled>>

Entry == [address : Address, fd : Fd, magic : Nat]
Parsing == todo # None

ListenInit ==
    /\ socket = [fd \in Fd |-> IF fd = 0 THEN Other ELSE Closed]
    /\ listens = <<>>
    /\ count = 0
    /\ todo = None
    /\ new = <<>>
    /\ posting = FALSE
    /\ spoiled = FALSE

-----------------------------------------------------------------------------
(***************************************************************************)
(* phl_conf_listen_free()                                                  *)
(***************************************************************************)
(* The descriptors that are closed with these entries: those not taken     *)
(* over by the configuration that is read.                                 *)
Dropped(entries) == {e.fd : e \in {x \in Range(entries) : x.magic < count}}

Close(fds) == socket' = [fd \in Fd |-> IF fd \in fds THEN Closed ELSE socket[fd]]

-----------------------------------------------------------------------------
(***************************************************************************)
(* phl_conf_listen_post(), for the next address of a Listen                *)
(***************************************************************************)
Twice(file) ==
    \E l, m \in DOMAIN file : \E i \in DOMAIN file[l] : \E j \in DOMAIN file[m] :
        /\ l # m \/ i # j
        /\ file[l][i] = file[m][j]

Had(a) == {i \in DOMAIN listens : listens[i].address = a}

Gets(a, fd, magic) ==
    /\ Parsing /\ posting /\ Head(todo) # <<>>
    /\ a = Head(Head(todo))
    /\ todo' = <<Tail(Head(todo))>> \o Tail(todo)
    /\ new' = Append(new, [address |-> a, fd |-> fd, magic |-> magic])
    /\ UNCHANGED <<count, posting, spoiled>>

ReuseUnmarked(a) ==  (* slip: the old entry is not marked *)
    \E i \in Had(a) :
        /\ Gets(a, listens[i].fd, count)
        /\ UNCHANGED <<listens, socket>>

(* phl_conf_listen_reuse_fd(): the first entry with the address            *)
Reuse(a) ==
    \E i \in Had(a) :
        /\ \A j \in Had(a) : i <= j
        /\ Gets(a, listens[i].fd, count)
        /\ listens' = [listens EXCEPT ![i].magic = count]
        /\ UNCHANGED socket

(* A new socket, at any free descriptor since other files come and go.     *)
(* The reuse_magics of a new Listen are zero.                              *)
Bind(a) ==
    \E fd \in Fd :
        /\ Had(a) = {}
        /\ socket[fd] = Closed
        /\ ReusePort \/ \A other \in Fd : socket[other] # a
        /\ Gets(a, fd, 0)
        /\ socket' = [socket EXCEPT ![fd] = a]
        /\ UNCHANGED listens

-----------------------------------------------------------------------------
(***************************************************************************)
(* phl_conf_parse()                                                        *)
(***************************************************************************)
(* At the start, or a reload; a master that did not start is gone.         *)
Parses(file) ==
    /\ ~Parsing
    /\ count < MaxReloads
    /\ count = 0 \/ listens # <<>>
    /\ count' = count + 1
    /\ todo' = file
    /\ spoiled' = (spoiled \/ Twice(file))
    /\ UNCHANGED <<socket, listens, new, posting>>

Begins ==
    /\ Parsing /\ ~posting /\ todo # <<>>
    /\ posting' = TRUE
    /\ UNCHANGED <<socket, listens, count, todo, new, spoiled>>

(* A Listen has all its sockets, and its hosts are good.                   *)
Posted ==
    /\ Parsing /\ posting /\ Head(todo) = <<>>
    /\ todo' = Tail(todo)
    /\ posting' = FALSE
    /\ UNCHANGED <<socket, listens, count, new, spoiled>>

(* Anything is wrong, before any Listen, between its addresses or after    *)
(* them, or there is none.  The descriptors of a Listen that are not       *)
(* opened yet are zero in its memory.                                      *)
Fails ==
    /\ Parsing
    /\ todo # <<>> \/ new = <<>>
    /\ LET unset == IF posting /\ Head(todo) # <<>> THEN {0} ELSE {}
       IN  /\ Close(Dropped(new) \cup unset)
           /\ spoiled' = (spoiled \/ unset # {})
    /\ todo' = None /\ new' = <<>> /\ posting' = FALSE
    /\ UNCHANGED <<listens, count>>

(* The new configuration takes the place of the old one.                   *)
Done ==
    /\ Parsing /\ todo = <<>> /\ new # <<>>
    /\ listens' = new
    /\ Close(Dropped(listens))
    /\ todo' = None /\ new' = <<>>
    /\ UNCHANGED <<count, posting, spoiled>>

-----------------------------------------------------------------------------
ListenNext ==
    \/ \E file \in Files : Parses(file)
    \/ Begins
    \/ \E a \in Address : Reuse(a) \/ Bind(a)
    \/ Posted \/ Fails \/ Done

ListenSpec == ListenInit /\ [][ListenNext]_lvars

-----------------------------------------------------------------------------
(* Types of the variables.                                                 *)
ListenTypes ==
    /\ socket \in [Fd -> Address \cup {Closed, Other}]
    /\ listens \in Seq(Entry) /\ new \in Seq(Entry)
    /\ count \in 0 .. MaxReloads
    /\ todo = None \/ todo \in Seq(Seq(Address))
    /\ posting \in BOOLEAN /\ spoiled \in BOOLEAN
    /\ posting => Parsing /\ todo # <<>>

(* At every moment each address of the configuration has its socket, so    *)
(* that a worker that is forked then can accept there: reloads that fail   *)
(* at a Listen before any of its addresses, behind them all or outside     *)
(* every Listen close nothing that is still used.  The first that fails    *)
(* between two addresses of a Listen, or a file that names an address      *)
(* twice, ends this for good (phl_conf_listen.c:200 closes what was never  *)
(* set; see ListensOn): nothing is said from then on.                      *)
Listening ==
    /\ ListenTypes
    /\ ~spoiled => \A e \in Range(listens) : socket[e.fd] = e.address

(* No socket is left open that no configuration has, which would take      *)
(* connections that no worker accepts: what a failed reload opened, and    *)
(* what a later one does without, is closed.                               *)
NoneLeft ==
    \A fd \in Fd : socket[fd] \in Address =>
        \E e \in Range(listens \o new) : e.fd = fd /\ e.address = socket[fd]

(* What the master has open and what phl_conf_listens says, together: the  *)
(* one half until something spoils it, the other half always.              *)
Sockets == Listening /\ NoneLeft

(* "Accepts one or more addresses to listen on."                           *)
(* (doc/4.conf_reference.md:202)                                           *)
ListensOn == \A e \in Range(listens) : socket[e.fd] = e.address
===============================================================================
