------------------------------ MODULE RuleSync ------------------------------
(***************************************************************************)
(* How a proxy rule gets from the web API to the client that serves it.    *)
(*                                                                         *)
(* An API call (web/src/api.rs) changes the database, then the public      *)
(* listener, then tells the rule's client over its session, if it has one. *)
(* A client that connects is registered first, then reads its rules from   *)
(* the database and is sent them ahead of anything queued for the session  *)
(* (client_session.rs).  Requests for work connections travel through the  *)
(* same queue; the client (connector.rs) silently ignores one for a rule   *)
(* it does not know.                                                       *)
(*                                                                         *)
(* A rule's settings are a client and a version of the rest.  API calls    *)
(* run concurrently, and each is a future of its caller's HTTP connection: *)
(* it is dropped where it stands when the caller disconnects.  The server  *)
(* may die between any two of their steps; only the database survives.  A  *)
(* write to the database that fails ends its call with nothing changed, a  *)
(* read that fails yields no rules.  The session map's own races are the   *)
(* subject of ClientSessions.                                              *)
(***************************************************************************)
EXTENDS Naturals, Sequences

CONSTANTS Clients,      \* client ids
          Connecting,   \* the clients that ever connect
          Rules,        \* names of proxy rules
          Versions,     \* what a rule's other settings can be
          Calls,        \* API calls that may be under way at once
          Users,        \* external connections that may be under way at once
          MaxQueue,     \* room in a session's queue, pushed rules included
          None          \* no rule, no client, no version

Settings == [client : Clients, version : Versions]

ASSUME ClientsAssumption == Connecting \subseteq Clients
ASSUME NoneAssumption == None \notin Clients /\ None \notin Versions /\ None \notin Settings
ASSUME QueueAssumption == MaxQueue \in Nat \ {0}

VARIABLES db,           \* the proxy_rules table: rule -> settings or None
          listening,    \* the client a rule's public listener works for
          call,         \* an API call under way
          user,         \* an accepted external connection, not yet asked for
          session,      \* a client's session: "down", "registered" or "live"
          queue,        \* messages for the client, in order
          known,        \* the client's own table of rules
          disturbed     \* rules whose client may not have been told: see below

vars == <<db, listening, call, user, session, queue, known, disturbed>>

NoCall == [pc |-> "idle"]
NoRules == [r \in Rules |-> None]

\* ServerAssignProxy, ServerCloseProxy, NewWorkConn and the rules pushed to a
\* new session.  sure: see Ask.
Assign(r, s) == [type |-> "assign", rule |-> r, version |-> s.version]
Close(r)     == [type |-> "close", rule |-> r]
Work(r, b)   == [type |-> "work", rule |-> r, sure |-> b]
Push(t)      == [type |-> "push", table |-> t]

\* A rule is disturbed once API calls on it have overlapped, one was abandoned,
\* or a client could not be sent it on connecting.  It is no longer when a later
\* call has it to itself, or a client is sent it on connecting.

\* No API call on rule r is between its first step and its last.
Quiet(r) == \A a \in Calls : call[a].pc # "idle" => call[a].rule # r

\* The versions of the rules that the database has for client c.
RulesOf(c) ==
    [r \in Rules |-> IF db[r] # None /\ db[r].client = c THEN db[r].version ELSE None]

Init ==
    /\ db        = [r \in Rules |-> None]
    /\ listening = [r \in Rules |-> None]
    /\ call      = [a \in Calls |-> NoCall]
    /\ user      = [u \in Users |-> None]
    /\ session   = [c \in Clients |-> "down"]
    /\ queue     = [c \in Clients |-> <<>>]
    /\ known     = [c \in Clients |-> NoRules]
    /\ disturbed = [r \in Rules |-> FALSE]

-----------------------------------------------------------------------------
(* API calls *)

\* The first step of a call on r: it reads the rule and writes the database.
\* new = None deletes.
\* The call will tell the client the rule has now, not one it had before.
Begin(a, r, new, pc) ==
    /\ call[a] = NoCall
    /\ db' = [db EXCEPT ![r] = new]
    /\ call' = [call EXCEPT ![a] = [pc |-> pc, rule |-> r, new |-> new,
                                         to |-> IF new = None THEN db[r].client ELSE new.client]]
    /\ disturbed' = [disturbed EXCEPT ![r] = ~Quiet(r)]
    /\ UNCHANGED <<listening, user, session, queue, known>>

create_proxy(a) ==
    \E r \in Rules, new \in Settings : db[r] = None /\ Begin(a, r, new, "start")

update_proxy(a) ==
    \E r \in Rules, new \in Settings : db[r] # None /\ Begin(a, r, new, "stop")

delete_proxy(a) ==
    \E r \in Rules : db[r] # None /\ Begin(a, r, None, "stop")

\* on_proxy_delete: the public listener is stopped.
StopListener(a) ==
    /\ call[a].pc = "stop"
    /\ listening' = [listening EXCEPT ![call[a].rule] = None]
    /\ call' = [call EXCEPT ![a].pc = IF call[a].new = None THEN "notify" ELSE "start"]
    /\ UNCHANGED <<db, user, session, queue, known, disturbed>>

\* on_proxy_create: the public listener is started; that may fail (a port in
\* use), and the call goes on all the same.
StartListener(a) ==
    /\ call[a].pc = "start"
    /\ \/ listening' = [listening EXCEPT ![call[a].rule] = call[a].new.client]
       \/ UNCHANGED listening
    /\ call' = [call EXCEPT ![a].pc = "notify"]
    /\ UNCHANGED <<db, user, session, queue, known, disturbed>>

\* Mutant: send_to does not wait for room.
SendAnyway(c, msg) ==
    \/ /\ session[c] # "down"
       /\ queue' = [queue EXCEPT ![c] = Append(@, msg)]
    \/ /\ session[c] = "down"
       /\ UNCHANGED queue

\* send_to: queued if the client has a session and there is room, dropped if
\* it has none.
SendTo(c, msg) ==
    \/ /\ session[c] # "down"
       /\ Len(queue[c]) < MaxQueue
       /\ queue' = [queue EXCEPT ![c] = Append(@, msg)]
    \/ /\ session[c] = "down"
       /\ UNCHANGED queue

\* notify_client: the client a rule has now is sent its settings, the client
\* of a deleted rule is told to forget it.
Notify(a) ==
    /\ call[a].pc = "notify"
    /\ LET r == call[a].rule
           s == call[a].new
       IN  SendTo(call[a].to, IF s = None THEN Close(r) ELSE Assign(r, s))
    /\ call' = [call EXCEPT ![a] = NoCall]
    /\ UNCHANGED <<db, listening, user, session, known, disturbed>>

\* The caller disconnects: the call is dropped at the await it has reached.  A
\* notification that was handed to its own thread goes out all the same: its
\* call is then not abandoned here.
Abandon(a) ==
    /\ call[a].pc # "idle"
    /\ disturbed' = [disturbed EXCEPT ![call[a].rule] = TRUE]
    /\ call' = [call EXCEPT ![a] = NoCall]
    /\ UNCHANGED <<db, listening, user, session, queue, known>>

-----------------------------------------------------------------------------
(* External connections *)

\* The listener of a rule accepts a connection for the client it works for.
Accept(u) ==
    /\ user[u] = None
    /\ \E r \in Rules : /\ listening[r] # None
                        /\ user' = [user EXCEPT ![u] = [rule |-> r, client |-> listening[r]]]
    /\ UNCHANGED <<db, listening, call, session, queue, known, disturbed>>

\* handle_stream_proxy_conn asks that client for a work connection.  The
\* request is marked sure if the rule is settled: the client's, with no API
\* call on it under way, and not disturbed.
Ask(u) ==
    /\ user[u] # None
    /\ LET r == user[u].rule
           c == user[u].client
       IN  SendTo(c, Work(r, Quiet(r) /\ ~disturbed[r] /\ RulesOf(c)[r] # None))
    /\ user' = [user EXCEPT ![u] = None]
    /\ UNCHANGED <<db, listening, call, session, known, disturbed>>

-----------------------------------------------------------------------------
(* Sessions and clients *)

\* A client connects and is registered.
Register(c) ==
    /\ c \in Connecting
    /\ session[c] = "down"
    /\ session' = [session EXCEPT ![c] = "registered"]
    /\ UNCHANGED <<db, listening, call, user, queue, known, disturbed>>

\* Message m replaces what a client knows of rule r.
Says(m, r) == m.type = "push" \/ (m.type \in {"assign", "close"} /\ m.rule = r)

\* The rules of client c that nothing but the push will tell it of.
Untold(c) ==
    {r \in Rules : /\ db[r] # None /\ db[r].client = c /\ Quiet(r)
                   /\ \A i \in 1 .. Len(queue[c]) : ~Says(queue[c][i], r)}

\* Mutant: the rules are queued like any other message.
PushRulesLast(c) ==
    /\ session[c] = "registered"
    /\ session' = [session EXCEPT ![c] = "live"]
    /\ queue' = [queue EXCEPT ![c] = Append(@, Push(RulesOf(c)))]
    /\ disturbed' = [r \in Rules |-> disturbed[r] /\ r \notin Untold(c)]
    /\ UNCHANGED <<db, listening, call, user, known>>

\* list_proxies_by_client reads the database, and finds nothing if the query
\* fails; the rules go out before what is queued, and the loop starts.  A
\* request for a rule that is not among them is no longer sure.
PushRules(c) ==
    /\ session[c] = "registered"
    /\ session' = [session EXCEPT ![c] = "live"]
    /\ \E table \in {RulesOf(c), NoRules} :
          LET mark(m) == IF m.type = "work" /\ table[m.rule] = None
                         THEN [m EXCEPT !.sure = FALSE] ELSE m
          IN  /\ queue' = [queue EXCEPT ![c] = <<Push(table)>> \o [i \in 1 .. Len(@) |-> mark(@[i])]]
              /\ disturbed' = [r \in Rules |-> IF r \in Untold(c) THEN table[r] = None ELSE disturbed[r]]
    /\ UNCHANGED <<db, listening, call, user, known>>

\* Mutant: a rule the client knows is not replaced.
ApplyNew(table, m) ==
    CASE m.type = "push"   -> m.table
      [] m.type = "assign" -> [table EXCEPT ![m.rule] = IF @ = None THEN m.version ELSE @]
      [] m.type = "close"  -> [table EXCEPT ![m.rule] = None]
      [] OTHER             -> table

\* What a message makes of a client's table: start_proxy, stop_proxy.
Apply(table, m) ==
    CASE m.type = "push"   -> m.table
      [] m.type = "assign" -> [table EXCEPT ![m.rule] = m.version]
      [] m.type = "close"  -> [table EXCEPT ![m.rule] = None]
      [] OTHER             -> table

\* The client's loop handles the next message.
ClientReceive(c) ==
    /\ session[c] = "live"
    /\ queue[c] # <<>>
    /\ known' = [known EXCEPT ![c] = Apply(@, Head(queue[c]))]
    /\ queue' = [queue EXCEPT ![c] = Tail(@)]
    /\ UNCHANGED <<db, listening, call, user, session, disturbed>>

\* The session ends, and what was queued is lost; the client's loop ends too,
\* and stop_all clears its table (the next connection starts with a new one).
Disconnect(c) ==
    /\ session[c] # "down"
    /\ session' = [session EXCEPT ![c] = "down"]
    /\ queue' = [queue EXCEPT ![c] = <<>>]
    /\ known' = [known EXCEPT ![c] = NoRules]
    /\ UNCHANGED <<db, listening, call, user, disturbed>>

\* The server dies and starts again: calls and connections are gone, and
\* start_existing_listeners listens for what is in the database, as far as the
\* ports are free.
Restart ==
    /\ call'      = [a \in Calls |-> NoCall]
    /\ user'      = [u \in Users |-> None]
    /\ session'   = [c \in Clients |-> "down"]
    /\ queue'     = [c \in Clients |-> <<>>]
    /\ \E free \in SUBSET Rules :
          listening' = [r \in Rules |-> IF db[r] # None /\ r \in free THEN db[r].client ELSE None]
    /\ disturbed' = [r \in Rules |-> FALSE]
    /\ known'     = [c \in Clients |-> NoRules]
    /\ UNCHANGED db

Next ==
    \/ \E a \in Calls : \/ create_proxy(a) \/ update_proxy(a) \/ delete_proxy(a)
                        \/ StopListener(a) \/ StartListener(a) \/ Notify(a) \/ Abandon(a)
    \/ \E u \in Users : Accept(u) \/ Ask(u)
    \/ \E c \in Clients : Register(c) \/ PushRules(c) \/ ClientReceive(c) \/ Disconnect(c)
    \/ Restart

Spec == Init /\ [][Next]_vars

-----------------------------------------------------------------------------
(* Properties *)

Tables == [Rules -> Versions \cup {None}]
Messages ==
    [type : {"assign"}, rule : Rules, version : Versions]
        \cup [type : {"close"}, rule : Rules]
        \cup [type : {"work"}, rule : Rules, sure : BOOLEAN]
        \cup [type : {"push"}, table : Tables]
CallRecords ==
    {NoCall} \cup [pc : {"start", "stop", "notify"}, rule : Rules,
                   new : Settings \cup {None}, to : Clients]

\* Tables, calls and messages are what their types allow, and a session's
\* channel never holds more than its capacity and the rules pushed to it.
TypeOK ==
    /\ db \in [Rules -> Settings \cup {None}]
    /\ listening \in [Rules -> Clients \cup {None}]
    /\ call \in [Calls -> CallRecords]
    /\ user \in [Users -> [rule : Rules, client : Clients] \cup {None}]
    /\ session \in [Clients -> {"down", "registered", "live"}]
    /\ queue \in [Clients -> Seq(Messages)]
    /\ \A c \in Clients : Len(queue[c]) <= MaxQueue + 1
    /\ known \in [Clients -> Tables]
    /\ disturbed \in [Rules -> BOOLEAN]

\* When client c has handled the first n messages queued for it, its table has
\* v for rule r: the last of them that says anything of r says v, or none does
\* and the table has v already.
KnowsAfter(c, n, r, v) ==
    \/ /\ \A i \in 1 .. n : ~Says(queue[c][i], r)
       /\ known[c][r] = v
    \/ \E i \in 1 .. n :
          /\ Says(queue[c][i], r) /\ Apply(known[c], queue[c][i])[r] = v
          /\ \A j \in 1 .. n : j > i => ~Says(queue[c][j], r)

\* No update is missed: while a rule has no call under way and is not disturbed,
\* and its client's session is live, the client has the rule's current settings,
\* or they are on their way behind everything older.  It does not matter whether
\* the rule changed before, during or after the client's registration.  Disturbed
\* rules are excepted: calls that overlap, an abandoned call and a failed query
\* leave the client with old settings or none, until the next call or connection.
InSync ==
    \A r \in Rules :
        db[r] # None /\ Quiet(r) /\ ~disturbed[r] /\ session[db[r].client] = "live" =>
            KnowsAfter(db[r].client, Len(queue[db[r].client]), r, db[r].version)

\* A request for a work connection that was made while its rule was settled (no
\* call under way, not disturbed) is never ignored by the client, unless the
\* client's rules could not be read since: it reaches the client behind the rule.
SettledRequestsServed ==
    \A c \in Clients :
        session[c] = "live" /\ queue[c] # <<>> =>
            LET m == Head(queue[c])
            IN  m.type = "work" /\ m.sure => known[c][m.rule] # None
=============================================================================
