----------------------------- MODULE ProxyRules -----------------------------
(***************************************************************************)
(* Proxy rules on the server: the database table, the runtime states       *)
(* (proxy_manager.rs), the public listeners and domain routes              *)
(* (proxy_listener.rs), and the API calls that change them (web/api.rs,    *)
(* with the callbacks of server/main.rs).                                  *)
(*                                                                         *)
(* A rule's settings are its endpoint: a TCP or UDP port of its own (port  *)
(* 0: none given), or a set of domains on the shared HTTP and HTTPS ports, *)
(* which use one table of routes.  API calls run concurrently, one step    *)
(* for each database statement, lock or socket operation that other calls  *)
(* can tell apart.  A call is a future of its caller's HTTP connection and *)
(* is dropped where it stands when the caller disconnects, and the server  *)
(* may die between any two steps.  A write to the database that fails ends *)
(* the call; a read that fails yields no rules.                            *)
(***************************************************************************)
EXTENDS Naturals

CONSTANTS Rules,       \* names of rules
          PortTypes,   \* the types of rules with a port: "tcp", "udp"
          Ports,       \* public ports, without 0
          Domains,     \* custom domains
          Calls,       \* API calls that may be under way at once
          WhenDisturbed,  \* calls go on when a rule is disturbed: TRUE in the code
          None         \* nothing

Sockets   == [type : PortTypes, port : Ports, domains : {{}}]
NoPort    == [type : PortTypes, port : {0}, domains : {{}}]
ByDomain  == [type : {"http"}, port : {0}, domains : SUBSET Domains]
Endpoints == Sockets \cup NoPort \cup ByDomain
Statuses  == {"starting", "running", "stopping", "stopped", "error"}

\* A bound socket: the rule it was bound for, whether its accept (or receive)
\* loop runs, and whether tasks of UDP sessions still hold it.
Uses == [rule : Rules, loop : BOOLEAN, held : BOOLEAN]

ASSUME TypesAssumption == PortTypes \subseteq {"tcp", "udp"}
ASSUME PortsAssumption == Ports \subseteq Nat \ {0}
ASSUME DisturbedAssumption == WhenDisturbed \in BOOLEAN
ASSUME NoneAssumption == None \notin Rules \cup Endpoints \cup Statuses \cup Uses

VARIABLES db,          \* proxy_rules: rule -> endpoint
          runtime,     \* ProxyManager.runtime: rule -> status
          sock,        \* bound sockets: endpoint -> who uses it
          listeners,   \* ProxyListenerManager.listeners: rule -> the endpoint of its handle
          routes,      \* domain_routes: domain -> rule
          call,        \* the API calls under way
          disturbed,   \* rules that the server has lost hold of: see below
          shared       \* domains that two rules have had at once since then

vars == <<db, runtime, sock, listeners, routes, call, disturbed, shared>>

NoCall == [pc |-> "idle"]
Quiet(r) == \A a \in Calls : call[a].pc # "idle" => call[a].rule # r

\* A rule is disturbed, until the server restarts, once calls on it have
\* overlapped, one was abandoned after its write, or the server could not read
\* it when it started.

Init ==
    /\ db        = [r \in Rules |-> None]
    /\ runtime   = [r \in Rules |-> None]
    /\ sock      = [e \in Sockets |-> None]
    /\ listeners = [r \in Rules |-> None]
    /\ routes    = [d \in Domains |-> None]
    /\ call      = [a \in Calls |-> NoCall]
    /\ disturbed = [r \in Rules |-> FALSE]
    /\ shared    = {}

-----------------------------------------------------------------------------
(* Steps that calls have in common *)

Goto(a, pc) == call' = [call EXCEPT ![a].pc = pc]
End(a) == call' = [call EXCEPT ![a] = NoCall]

\* update_status: nothing happens for a rule that has no runtime state.
Status(r, s) == runtime' = [runtime EXCEPT ![r] = IF @ = None THEN None ELSE s]

\* A bound: no property speaks of a disturbed rule until the server restarts,
\* and with WhenDisturbed = FALSE no further call on it begins, and calls disturb
\* no second rule.
DisturbedBound(r, disturbs) ==
    WhenDisturbed \/ (~disturbed[r] /\ (disturbs => \A q \in Rules : ~disturbed[q]))

Begin(a, r, pc, was, new) ==
    /\ call[a] = NoCall
    /\ DisturbedBound(r, ~Quiet(r))
    /\ call' = [call EXCEPT ![a] = [pc |-> pc, rule |-> r, was |-> was, new |-> new]]
    /\ disturbed' = [disturbed EXCEPT ![r] = @ \/ ~Quiet(r)]

\* The domains that rule r has, or that a call on it is giving or taking.
DomainsOf(r) ==
    {d \in Domains :
        \/ db[r] # None /\ d \in db[r].domains
        \/ \E a \in Calls : /\ call[a] # NoCall /\ call[a].rule = r
                            /\ \E e \in {call[a].was, call[a].new} \ {None} : d \in e.domains}

\* Writing an endpoint into the database.
Write(r, e) ==
    /\ db' = [db EXCEPT ![r] = e]
    /\ shared' = shared \cup
          IF e = None THEN {} ELSE e.domains \cap UNION {DomainsOf(q) : q \in Rules \ {r}}

Started(a, pc) == call' = [call EXCEPT ![a].pc = pc, ![a].new = None]

\* A listener is bound, which takes a port that is free.
BindPort(a) ==
    /\ call[a].new \in Sockets
    /\ sock[call[a].new] = None
    /\ sock' = [sock EXCEPT ![call[a].new] = [rule |-> call[a].rule, loop |-> TRUE, held |-> FALSE]]
    /\ Goto(a, "insert_handle")
    /\ UNCHANGED routes

\* It is not: port 0 is refused, and a port may be taken or not to be had.
BindFails(a) ==
    /\ call[a].new \notin ByDomain
    /\ Started(a, "error")
    /\ UNCHANGED <<sock, routes>>

\* register_domain_route: the routes replace those of any other rule.
AddRoutes(a) ==
    /\ call[a].new \in ByDomain
    /\ routes' = [d \in Domains |-> IF d \in call[a].new.domains THEN call[a].rule ELSE routes[d]]
    /\ Started(a, "running")
    /\ UNCHANGED sock

\* Mutant: port 0 is not refused, and a handle is kept for whatever it gives.
StartAnyPort(a) ==
    /\ call[a].pc = "start"
    /\ Status(call[a].rule, "starting")
    /\ \/ BindPort(a) \/ AddRoutes(a)
       \/ call[a].new \in NoPort /\ Goto(a, "insert_handle") /\ UNCHANGED <<sock, routes>>
    /\ UNCHANGED <<db, listeners, disturbed, shared>>

\* on_proxy_create: Starting, then start_proxy_listener.
Start(a) ==
    /\ call[a].pc = "start"
    /\ Status(call[a].rule, "starting")
    /\ BindPort(a) \/ BindFails(a) \/ AddRoutes(a)
    /\ UNCHANGED <<db, listeners, disturbed, shared>>

\* The handle of the loop goes into the map; one that is there is dropped,
\* which detaches its loop.
InsertHandle(a) ==
    /\ call[a].pc = "insert_handle"
    /\ listeners' = [listeners EXCEPT ![call[a].rule] = call[a].new]
    /\ Started(a, "running")
    /\ UNCHANGED <<db, runtime, sock, routes, disturbed, shared>>

\* Mutant: the result of start_proxy_listener is ignored.
FinishStartRunning(a) ==
    /\ call[a].pc \in {"running", "error"}
    /\ Status(call[a].rule, "running")
    /\ End(a)
    /\ UNCHANGED <<db, sock, listeners, routes, disturbed, shared>>

\* Running or Error; the client is notified and the call returns.
FinishStart(a) ==
    /\ call[a].pc \in {"running", "error"}
    /\ Status(call[a].rule, call[a].pc)
    /\ End(a)
    /\ UNCHANGED <<db, sock, listeners, routes, disturbed, shared>>

\* What is stopped of endpoint e: the handle is taken out of the map and
\* aborted, or the routes of the domains are removed, whoever's they are.
StopEndpoint(a, e) ==
    LET r == call[a].rule
    IN  /\ Status(r, "stopping")
        /\ \/ /\ e \in ByDomain
              /\ routes' = [d \in Domains |-> IF d \in e.domains THEN None ELSE routes[d]]
              /\ Goto(a, "stopped")
              /\ UNCHANGED listeners
           \/ /\ e \notin ByDomain
              /\ listeners' = [listeners EXCEPT ![r] = None]
              /\ call' = [call EXCEPT ![a].pc = "join", ![a].was = listeners[r]]
              /\ UNCHANGED routes

\* Mutant: an update stops what the rule is going to have.
StopNew(a) ==
    /\ call[a].pc = "stop"
    /\ StopEndpoint(a, IF call[a].new = None THEN call[a].was ELSE call[a].new)
    /\ UNCHANGED <<db, sock, disturbed, shared>>

\* Mutant: every route is removed.
StopClears(a) ==
    /\ call[a].pc = "stop"
    /\ StopEndpoint(a, [call[a].was EXCEPT !.domains = Domains])
    /\ UNCHANGED <<db, sock, disturbed, shared>>

\* on_proxy_delete: Stopping, then stop_proxy_listener for the endpoint the
\* call has read.
Stop(a) ==
    /\ call[a].pc = "stop"
    /\ StopEndpoint(a, call[a].was)
    /\ UNCHANGED <<db, sock, disturbed, shared>>

\* The socket after its loop has ended: gone, unless session tasks hold it.
Unloop(u) == IF u.held THEN [u EXCEPT !.loop = FALSE] ELSE None

\* handle.await: the aborted loop is gone, and with it its use of the socket.
Join(a) ==
    /\ call[a].pc = "join"
    /\ sock' = [e \in Sockets |-> IF e = call[a].was THEN Unloop(sock[e]) ELSE sock[e]]
    /\ Goto(a, "stopped")
    /\ UNCHANGED <<db, runtime, listeners, routes, disturbed, shared>>

\* Stopped; an update goes on to start the new listener.
FinishStop(a) ==
    /\ call[a].pc = "stopped"
    /\ Status(call[a].rule, "stopped")
    /\ IF call[a].new = None
       THEN End(a)
       ELSE call' = [call EXCEPT ![a].pc = "start", ![a].was = None]
    /\ UNCHANGED <<db, sock, listeners, routes, disturbed, shared>>

-----------------------------------------------------------------------------
(* create_proxy *)

\* add_proxy refuses a name that has a runtime state.  The API has refused
\* port 0 before.
create_proxy(a) ==
    /\ \E r \in Rules, e \in Sockets \cup ByDomain :
          runtime[r] = None /\ Begin(a, r, "insert", None, e)
    /\ UNCHANGED <<db, runtime, sock, listeners, routes, shared>>

\* INSERT: it fails if the name is there already (the primary key), or for any
\* reason of the database, and the call ends; so does one whose caller has gone.
InsertRow(a) ==
    /\ call[a].pc = "insert"
    /\ \/ /\ db[call[a].rule] = None
          /\ Write(call[a].rule, call[a].new)
          /\ Goto(a, "insert_runtime")
       \/ /\ End(a)
          /\ UNCHANGED <<db, shared>>
    /\ UNCHANGED <<runtime, sock, listeners, routes, disturbed>>

\* RuntimeState::new, and the API sets Starting.
InsertRuntime(a) ==
    /\ call[a].pc = "insert_runtime"
    /\ runtime' = [runtime EXCEPT ![call[a].rule] = "starting"]
    /\ Goto(a, "start")
    /\ UNCHANGED <<db, sock, listeners, routes, disturbed, shared>>

-----------------------------------------------------------------------------
(* update_proxy and delete_proxy *)

\* get_proxy: the existing endpoint, which is kept to stop its listener.  An
\* update may name another type and leave the port at 0.
update_proxy(a) ==
    /\ \E r \in Rules, e \in Endpoints : db[r] # None /\ Begin(a, r, "update", db[r], e)
    /\ UNCHANGED <<db, runtime, sock, listeners, routes, shared>>

\* UPDATE; no row, or an error of the database, and the call returns an error.
UpdateRow(a) ==
    /\ call[a].pc = "update"
    /\ \/ /\ db[call[a].rule] # None
          /\ Write(call[a].rule, call[a].new)
          /\ Goto(a, "stop")
       \/ /\ End(a)
          /\ UNCHANGED <<db, shared>>
    /\ UNCHANGED <<runtime, sock, listeners, routes, disturbed>>

delete_proxy(a) ==
    /\ \E r \in Rules : db[r] # None /\ Begin(a, r, "delete", db[r], None)
    /\ UNCHANGED <<db, runtime, sock, listeners, routes, shared>>

\* remove_proxy: query_rule, then DELETE.  Another call may have deleted the
\* row before the first, which ends the call as an error of the database does,
\* or between the two, which goes unnoticed.
DeleteRow(a) ==
    /\ call[a].pc = "delete"
    /\ \/ /\ Write(call[a].rule, None)
          /\ Goto(a, "remove_runtime")
       \/ /\ End(a)
          /\ UNCHANGED <<db, shared>>
    /\ UNCHANGED <<runtime, sock, listeners, routes, disturbed>>

RemoveRuntime(a) ==
    /\ call[a].pc = "remove_runtime"
    /\ runtime' = [runtime EXCEPT ![call[a].rule] = None]
    /\ Goto(a, "stop")
    /\ UNCHANGED <<db, sock, listeners, routes, disturbed, shared>>

-----------------------------------------------------------------------------
(* Callers that disconnect *)

\* The caller disconnects and the call is dropped at the await it has reached,
\* after its write (before, it ends as one whose write fails).  A loop whose
\* handle it had not yet put into the map goes on without; one that it had
\* aborted ends by itself.
Abandon(a) ==
    /\ call[a].pc \notin {"idle", "insert", "update", "delete"}
    /\ disturbed[call[a].rule] \/ DisturbedBound(call[a].rule, TRUE)
    /\ sock' = [e \in Sockets |-> IF call[a].pc = "join" /\ e = call[a].was
                                  THEN Unloop(sock[e]) ELSE sock[e]]
    /\ disturbed' = [disturbed EXCEPT ![call[a].rule] = TRUE]
    /\ End(a)
    /\ UNCHANGED <<db, runtime, listeners, routes, shared>>

-----------------------------------------------------------------------------
(* UDP sessions and restarts *)

\* A packet from a new source: its task and its session keep the socket.
HoldSocket(e) ==
    /\ e.type = "udp"
    /\ sock[e] # None /\ sock[e].loop /\ ~sock[e].held
    /\ sock' = [sock EXCEPT ![e].held = TRUE]
    /\ UNCHANGED <<db, runtime, listeners, routes, call, disturbed, shared>>

\* The last of them ends.
ReleaseSocket(e) ==
    /\ sock[e] # None /\ sock[e].held
    /\ sock' = [sock EXCEPT ![e] = IF @.loop THEN [@ EXCEPT !.held = FALSE] ELSE None]
    /\ UNCHANGED <<db, runtime, listeners, routes, call, disturbed, shared>>

Wanting(d) == {r \in Rules : db[r] # None /\ d \in db[r].domains}

\* The process dies and starts again: load_from_db, start_existing_listeners
\* and register_existing_domain_routes, all before the API is up.  Rules that
\* want the same port or domain are served in the order the database gives.
\* Each of the three reads the rules anew, and does nothing if that fails; the
\* second and the third both add routes.
Rebuild(loaded, started, won) ==
    /\ started \/ won = {}
    /\ \A q, r \in won : db[q] = db[r] => q = r
    /\ sock' = [e \in Sockets |->
                  IF \E r \in won : db[r] = e
                  THEN [rule |-> CHOOSE r \in won : db[r] = e, loop |-> TRUE, held |-> FALSE]
                  ELSE None]
    /\ listeners' = [r \in Rules |-> IF r \in won THEN db[r] ELSE None]
    /\ runtime' = [r \in Rules |->
                     CASE db[r] = None \/ ~loaded -> None
                       [] db[r] # None /\ loaded /\ ~started -> "stopped"
                       [] OTHER -> IF r \in won \/ db[r] \in ByDomain THEN "running" ELSE "error"]
    /\ disturbed' = [r \in Rules |-> db[r] # None /\ ~(loaded /\ started)]
    /\ \/ routes' \in {f \in [Domains -> Rules \cup {None}] :
                         \A d \in Domains :
                            LET wanting == Wanting(d)
                            IN  IF wanting = {} THEN f[d] = None ELSE f[d] \in wanting}
       \/ ~started /\ routes' = [d \in Domains |-> None]
    /\ shared' = {d \in Domains : \E q, r \in Wanting(d) : q # r}

Restart ==
    /\ \E loaded, started \in BOOLEAN, won \in SUBSET {r \in Rules : db[r] \in Sockets} :
          Rebuild(loaded, started, won)
    /\ call' = [a \in Calls |-> NoCall]
    /\ UNCHANGED db

Next ==
    \/ \E a \in Calls :
          \/ create_proxy(a) \/ InsertRow(a) \/ InsertRuntime(a)
          \/ update_proxy(a) \/ UpdateRow(a)
          \/ delete_proxy(a) \/ DeleteRow(a) \/ RemoveRuntime(a)
          \/ Start(a) \/ InsertHandle(a) \/ FinishStart(a)
          \/ Stop(a) \/ Join(a) \/ FinishStop(a) \/ Abandon(a)
    \/ \E e \in Sockets : HoldSocket(e) \/ ReleaseSocket(e)
    \/ Restart

Spec == Init /\ [][Next]_vars

-----------------------------------------------------------------------------
(* Properties *)

CallRecords ==
    {NoCall} \cup
    [pc : {"insert", "insert_runtime", "update", "delete", "remove_runtime", "start",
           "insert_handle", "running", "error", "stop", "join", "stopped"},
     rule : Rules, was : Endpoints \cup {None}, new : Endpoints \cup {None}]

\* The tables of the server hold what their types allow; no handle is ever
\* kept for port 0.
TypeOK ==
    /\ db \in [Rules -> Endpoints \cup {None}]
    /\ runtime \in [Rules -> Statuses \cup {None}]
    /\ sock \in [Sockets -> Uses \cup {None}]
    /\ listeners \in [Rules -> Sockets \cup {None}]
    /\ routes \in [Domains -> Rules \cup {None}]
    /\ call \in [Calls -> CallRecords]
    /\ disturbed \in [Rules -> BOOLEAN]
    /\ shared \subseteq Domains

\* Nobody is changing rule r, and it is not disturbed.
Settled(r) == Quiet(r) /\ ~disturbed[r]

\* The rule whose loop serves endpoint e.
Serves(r, e) == sock[e] # None /\ sock[e].rule = r /\ sock[e].loop

\* The status a settled rule shows is the truth: it runs exactly when a loop
\* on its own port serves it and can be stopped through the map; otherwise it
\* is in error.  So it was stopped on the old port and started on the new one
\* whatever bind or write failed on the way, also across a restart.  Excepted
\* are disturbed rules: one whose call was abandoned between its row and its
\* last status shows "starting" or "stopping", or runs on its old port, and one
\* that could not be read at the start shows nothing, or "stopped".
StatusTrue ==
    \A r \in Rules : Settled(r) /\ db[r] \in Sockets \cup NoPort =>
        /\ runtime[r] \in {"running", "error"}
        /\ runtime[r] = "running" <=> db[r] \in Sockets /\ Serves(r, db[r]) /\ listeners[r] = db[r]

\* A settled rule has no listener beside the one of its present settings; a
\* deleted one has none, and no runtime state that would block its name.
\* Excepted are disturbed rules, whose old loop may go on: calls that overlap or
\* are abandoned leave it without a handle, or behind a row that has gone.
NothingLeftBehind ==
    \A r \in Rules : Settled(r) =>
        /\ \A e \in Sockets : Serves(r, e) => db[r] = e
        /\ runtime[r] = None <=> db[r] = None
        /\ \A d \in Domains : routes[d] = r => r \in Wanting(d)

\* A domain that two rules have not had at the same time since the server
\* started leads to the rule that has it, if that is settled.  Excepted are
\* domains that two rules have had, of which either rule's stop removes the
\* route, and disturbed rules.
RouteTrue ==
    \A r \in Rules, d \in Domains :
        Settled(r) /\ r \in Wanting(d) /\ d \notin shared => routes[d] = r

\* "Waits until the task has really ended, so that the port is released": a
\* call that has stopped a rule's listener finds its port no longer bound for
\* the rule.
PortReleased ==
    \A a \in Calls : call[a].pc = "stopped" /\ call[a].was \in Sockets =>
        sock[call[a].was] = None \/ sock[call[a].was].rule # call[a].rule
=============================================================================
