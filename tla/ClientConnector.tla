--------------------------- MODULE ClientConnector ---------------------------
(***************************************************************************)
(* The life of a client's control connections in time: connect_and_run and *)
(* the reconnecting loop of the client (connector.rs, main.rs), and at the *)
(* server the wait for the first message (tunnel.rs) and the heartbeat     *)
(* check of a session (client_session.rs), over a network that may die     *)
(* without a sign.                                                         *)
(*                                                                         *)
(* Time passes in Tick, by one unit, when nothing is due.  A handler may   *)
(* spend a unit in framed.send, in which it neither receives nor checks.   *)
(* The client's credentials are right, and it has one id, so that all its  *)
(* connections compete for one entry of the session map.  Taking the map's *)
(* lock takes no time here, and what else is sent over a connection is the *)
(* subject of other modules.                                               *)
(***************************************************************************)
EXTENDS Integers, FiniteSets

CONSTANTS Conns,          \* connections that can exist at once
          PingEvery,      \* the client's ping_interval (10 s)
          CheckEvery,     \* the server's heartbeat_interval (30 s)
          HEARTBEAT_TIMEOUT,  \* silence after which a session is ended (90 s)
          AuthWait,       \* wait for the first message, for the answer (10 s)
          FirstDelay,     \* retry_delay after a session (1 s)
          MaxDelay,       \* max_delay (60 s)
          Latency,        \* a live network delivers within this time
          SendStall,      \* time in framed.send between two pings received
          MaxFaults,      \* failures of network, server or client
          None            \* no connection

ASSUME TimesAssumption ==
    /\ {PingEvery, CheckEvery, HEARTBEAT_TIMEOUT, AuthWait, FirstDelay, MaxDelay}
           \subseteq Nat \ {0}
    /\ {Latency, SendStall, MaxFaults} \subseteq Nat
    /\ None \notin Conns

\* The heartbeat can only tell a live client from a dead one if pings get
\* through in time; with the code's numbers, Latency + SendStall <= 80 s.
ASSUME NetworkAssumption ==
    /\ PingEvery + Latency + SendStall <= HEARTBEAT_TIMEOUT
    /\ 2 * Latency + SendStall <= HEARTBEAT_TIMEOUT
    /\ 2 * Latency <= AuthWait

VARIABLES pc,           \* the client: sleep, connect, auth, loop
          timer,        \* time until the client's timer fires
          retry_delay,
          conn,         \* the client's connection
          link,         \* free, up, dead (nothing gets through), closed
          flight,       \* ages of the client's messages that are under way
          answer,       \* age of the AuthResp that is under way, or -1
          handler,      \* the server's task: none, first, loop
          last,         \* last_heartbeat.elapsed()
          check,        \* time until the handler's timer fires
          stall,        \* time in framed.send since the last ping
          registered,   \* the connection whose session is in the map
          crowded,      \* history: connections made beside an older handler
          faults

vars == <<pc, timer, retry_delay, conn, link, flight, answer, handler, last, check, stall,
          registered, crowded, faults>>
client == <<pc, timer, retry_delay, conn>>
server == <<handler, last, check, stall, registered>>

Init ==
    /\ pc          = "connect"
    /\ timer       = 0
    /\ retry_delay = FirstDelay
    /\ conn        = None
    /\ link        = [k \in Conns |-> "free"]
    /\ flight      = [k \in Conns |-> {}]
    /\ answer      = [k \in Conns |-> -1]
    /\ handler     = [k \in Conns |-> "none"]
    /\ last        = [k \in Conns |-> 0]
    /\ check       = [k \in Conns |-> 0]
    /\ stall       = [k \in Conns |-> 0]
    /\ registered  = None
    /\ crowded     = {}
    /\ faults      = 0

Least(m, n) == IF m < n THEN m ELSE n

-----------------------------------------------------------------------------
(* The client *)

\* A side drops connection k: if the other side is there it is told, if the
\* network lives; if not, the connection is no more.
Drop(k, otherThere) ==
    /\ link' = [link EXCEPT ![k] = IF ~otherThere THEN "free"
                                   ELSE IF @ = "up" THEN "closed" ELSE @]
    /\ answer' = [answer EXCEPT ![k] = -1]

\* connect_and_run has returned Ok, or an error: main sleeps and doubles the delay.
Sleep(ok) ==
    LET delay == IF ok THEN FirstDelay ELSE retry_delay
    IN  /\ pc' = "sleep"
        /\ timer' = delay
        /\ retry_delay' = Least(2 * delay, MaxDelay)

Wake ==
    /\ pc = "sleep"
    /\ timer = 0
    /\ pc' = "connect"
    /\ UNCHANGED <<timer, retry_delay, conn, link, flight, answer, server, crowded, faults>>

\* TcpStream::connect and the TLS handshake succeed, and Auth is sent; the
\* server accepts and waits for the first message.
Connect(k) ==
    /\ pc = "connect"
    /\ link[k] = "free"
    /\ pc' = "auth"
    /\ timer' = AuthWait
    /\ conn' = k
    /\ link' = [link EXCEPT ![k] = "up"]
    /\ flight' = [flight EXCEPT ![k] = {0}]
    /\ handler' = [handler EXCEPT ![k] = "first"]
    /\ check' = [check EXCEPT ![k] = AuthWait]
    /\ crowded' = IF \A j \in Conns : handler[j] = "none" THEN crowded \ {k}
                  ELSE crowded \cup {k}
    /\ UNCHANGED <<retry_delay, answer, last, stall, registered, faults>>

\* They fail.
ConnectFails ==
    /\ pc = "connect"
    /\ faults < MaxFaults
    /\ faults' = faults + 1
    /\ Sleep(FALSE)
    /\ UNCHANGED <<conn, link, flight, answer, server, crowded>>

\* wait_auth_response returns; ping_interval fires at once for the first time.
Authenticated ==
    /\ pc = "auth"
    /\ answer[conn] >= 0
    /\ pc' = "loop"
    /\ timer' = 0
    /\ answer' = [answer EXCEPT ![conn] = -1]
    /\ UNCHANGED <<retry_delay, conn, link, flight, server, crowded, faults>>

\* What it has sent over a live connection still arrives.
ClientLeaves(ok) ==
    /\ Drop(conn, handler[conn] # "none")
    /\ conn' = None
    /\ Sleep(ok)
    /\ UNCHANGED <<flight, server, crowded, faults>>

\* tokio's timeout looks at the answer first: one that has arrived wins.
AuthTimeout ==
    /\ pc = "auth"
    /\ timer = 0 /\ answer[conn] < Latency
    /\ ClientLeaves(FALSE)

\* The ping timer fires.  On a dead connection the ping stays in a buffer, and
\* the client does not look for the Pong.
SendPing ==
    /\ pc = "loop"
    /\ timer = 0
    /\ timer' = PingEvery
    /\ flight' = [flight EXCEPT ![conn] = IF link[conn] = "up" THEN @ \cup {0} ELSE @]
    /\ UNCHANGED <<pc, retry_delay, conn, link, answer, server, crowded, faults>>

\* framed.next returns None or an error.
ClientSeesEnd ==
    /\ pc \in {"auth", "loop"}
    /\ link[conn] = "closed"
    /\ ClientLeaves(pc = "loop")

\* Mutant: a failure to send the heartbeat does not end the loop.
SendFailureIgnored == FALSE /\ UNCHANGED vars

\* framed.send fails when the client's TCP has given up on a dead connection.
SendPingFails ==
    /\ pc = "loop"
    /\ link[conn] = "dead"
    /\ ClientLeaves(TRUE)

-----------------------------------------------------------------------------
(* The server's task of connection k *)

\* The handler's task ends.  After its loop it has removed the client's entry of
\* the session map, whoever registered it.
HandlerLeaves(k) ==
    /\ Drop(k, conn = k)
    /\ flight' = [flight EXCEPT ![k] = {}]
    /\ registered' = IF handler[k] = "loop" THEN None ELSE registered
    /\ handler' = [handler EXCEPT ![k] = "none"]
    /\ last' = [last EXCEPT ![k] = 0]
    /\ check' = [check EXCEPT ![k] = 0]
    /\ stall' = [stall EXCEPT ![k] = 0]
    /\ UNCHANGED <<client, crowded, faults>>

Oldest(ages) == CHOOSE a \in ages : \A b \in ages : a >= b

\* The first message is Auth; AuthResp is sent, the session registered in place of
\* the client's last one, and its rules are pushed.  heartbeat_interval fires at
\* once for the first time.
ReceiveAuth(k) ==
    /\ handler[k] = "first"
    /\ flight[k] # {}
    /\ handler' = [handler EXCEPT ![k] = "loop"]
    /\ flight' = [flight EXCEPT ![k] = @ \ {Oldest(@)}]
    /\ answer' = [answer EXCEPT ![k] = IF link[k] = "up" THEN 0 ELSE @]
    /\ registered' = k
    /\ last' = [last EXCEPT ![k] = 0]
    /\ check' = [check EXCEPT ![k] = 0]
    /\ stall' = [stall EXCEPT ![k] = 0]
    /\ UNCHANGED <<client, link, crowded, faults>>

FirstMessageTimeout(k) ==
    /\ handler[k] = "first"
    /\ check[k] <= 0 /\ Latency \notin flight[k]
    /\ HandlerLeaves(k)

ReceivePing(k) ==
    /\ handler[k] = "loop"
    /\ flight[k] # {}
    /\ flight' = [flight EXCEPT ![k] = @ \ {Oldest(@)}]
    /\ last' = [last EXCEPT ![k] = 0]
    /\ stall' = [stall EXCEPT ![k] = 0]
    /\ UNCHANGED <<client, link, answer, handler, check, registered, crowded, faults>>

\* Mutant: a session ends when the silence has reached the limit.
CheckStrictly(k) ==
    /\ handler[k] = "loop"
    /\ check[k] <= 0
    /\ \/ /\ last[k] >= HEARTBEAT_TIMEOUT
          /\ HandlerLeaves(k)
       \/ /\ last[k] < HEARTBEAT_TIMEOUT
          /\ check' = [check EXCEPT ![k] = @ + CheckEvery]
          /\ UNCHANGED <<client, link, flight, answer, handler, last, stall, registered,
                         crowded, faults>>

\* Mutant: the timer's period is the timeout.
CheckSeldom(k) ==
    /\ handler[k] = "loop"
    /\ check[k] <= 0
    /\ \/ /\ last[k] > HEARTBEAT_TIMEOUT
          /\ HandlerLeaves(k)
       \/ /\ last[k] <= HEARTBEAT_TIMEOUT
          /\ check' = [check EXCEPT ![k] = @ + HEARTBEAT_TIMEOUT]
          /\ UNCHANGED <<client, link, flight, answer, handler, last, stall, registered,
                         crowded, faults>>

\* The heartbeat timer fires.
HeartbeatCheck(k) ==
    /\ handler[k] = "loop"
    /\ check[k] <= 0
    /\ \/ /\ last[k] > HEARTBEAT_TIMEOUT
          /\ HandlerLeaves(k)
       \/ /\ last[k] <= HEARTBEAT_TIMEOUT
          /\ check' = [check EXCEPT ![k] = @ + CheckEvery]
          /\ UNCHANGED <<client, link, flight, answer, handler, last, stall, registered,
                         crowded, faults>>

\* rx.recv returns None: the session's sender, which was in the map alone, is gone,
\* taken out by another registration or by another handler's cleanup.
ChannelClosed(k) ==
    /\ handler[k] = "loop"
    /\ registered # k
    /\ HandlerLeaves(k)

\* framed.next returns None or an error, or framed.send fails.
HandlerSeesEnd(k) ==
    /\ handler[k] # "none"
    /\ link[k] = "closed"
    /\ HandlerLeaves(k)

\* framed.send fails on a dead connection.
SendFails(k) == handler[k] = "loop" /\ link[k] = "dead" /\ HandlerLeaves(k)

-----------------------------------------------------------------------------
(* Failures, and time *)

\* The network between the two dies without a sign.
LinkDies(k) ==
    /\ link[k] = "up"
    /\ faults < MaxFaults
    /\ faults' = faults + 1
    /\ link' = [link EXCEPT ![k] = "dead"]
    /\ flight' = [flight EXCEPT ![k] = {}]
    /\ answer' = [answer EXCEPT ![k] = -1]
    /\ UNCHANGED <<client, server, crowded>>

\* The server dies and starts again; a client learns of it if its process died
\* and the machine did not.
ServerRestarts ==
    /\ faults < MaxFaults
    /\ \E k \in Conns : handler[k] # "none"
    /\ faults' = faults + 1
    /\ \E sign \in {"closed", "dead"} :
          link' = [k \in Conns |-> IF conn # k THEN "free"
                                   ELSE IF link[k] = "up" THEN sign ELSE link[k]]
    /\ flight' = [k \in Conns |-> {}]
    /\ answer' = [k \in Conns |-> -1]
    /\ handler' = [k \in Conns |-> "none"]
    /\ last' = [k \in Conns |-> 0]
    /\ check' = [k \in Conns |-> 0]
    /\ stall' = [k \in Conns |-> 0]
    /\ registered' = None
    /\ UNCHANGED <<client, crowded>>

\* The client dies and starts again; likewise for the server.
ClientRestarts ==
    /\ faults < MaxFaults
    /\ conn # None
    /\ faults' = faults + 1
    /\ pc' = "connect" /\ timer' = 0 /\ retry_delay' = FirstDelay
    /\ conn' = None
    /\ \E sign \in {"closed", "dead"} :
          /\ link' = [link EXCEPT ![conn] = IF handler[conn] = "none" THEN "free"
                                         ELSE IF @ = "up" THEN sign ELSE @]
          /\ flight' = [flight EXCEPT ![conn] = IF sign = "dead" THEN {} ELSE @]
    /\ answer' = [answer EXCEPT ![conn] = -1]
    /\ UNCHANGED <<server, crowded>>

Waiting == {k \in Conns : handler[k] # "none"}

\* An interval that is overdue keeps its phase; of several missed ticks, which
\* would fire at once, one is kept.
CountDown(n) == IF n - 1 = -CheckEvery THEN 0 ELSE n - 1

\* Nothing is due at handler k.
HandlerIdle(k) ==
    /\ check[k] > 0
    /\ Latency \notin flight[k]
    /\ link[k] # "closed"
    /\ handler[k] = "loop" => registered = k

\* Nothing is due at the client.
ClientIdle ==
    /\ pc # "connect" => timer > 0
    /\ pc \in {"auth", "loop"} => link[conn] # "closed" /\ answer[conn] < Latency

\* A unit of time passes, which the handlers in busy spend in framed.send.
Tick(busy) ==
    /\ ClientIdle
    /\ \A k \in Waiting : k \in busy \/ HandlerIdle(k)
    /\ \A k \in busy : handler[k] = "loop" /\ stall[k] < SendStall
    /\ timer' = IF pc = "connect" THEN 0 ELSE timer - 1
    /\ flight' = [k \in Conns |-> {Least(a + 1, Latency) : a \in flight[k]}]
    /\ answer' = [k \in Conns |-> IF answer[k] < 0 THEN -1 ELSE answer[k] + 1]
    /\ last' = [k \in Conns |-> IF handler[k] = "loop" THEN last[k] + 1 ELSE 0]
    /\ check' = [k \in Conns |-> IF k \in Waiting THEN CountDown(check[k]) ELSE 0]
    /\ stall' = [k \in Conns |-> IF k \in busy THEN stall[k] + 1 ELSE stall[k]]
    /\ UNCHANGED <<pc, retry_delay, conn, link, handler, registered, crowded, faults>>

\* What is done as soon as it is due.
Prompt ==
    \/ Wake \/ Authenticated \/ AuthTimeout \/ SendPing \/ ClientSeesEnd
    \/ \E k \in Conns :
          \/ ReceiveAuth(k) \/ FirstMessageTimeout(k) \/ ReceivePing(k)
          \/ HeartbeatCheck(k) \/ ChannelClosed(k) \/ HandlerSeesEnd(k)

Next ==
    \/ Prompt
    \/ \E k \in Conns : Connect(k)
    \/ SendPingFails
    \/ \E busy \in SUBSET Conns : Tick(busy)
    \/ ConnectFails
    \/ \E k \in Conns : LinkDies(k) \/ SendFails(k)
    \/ ServerRestarts \/ ClientRestarts

Spec == Init /\ [][Next]_vars

\* Tasks run and timers fire, time passes, a connection attempt that can succeed
\* does, and TCP gives up on a dead connection sooner or later.
FairSpec ==
    /\ Spec
    /\ WF_vars(Prompt \/ \E busy \in SUBSET Conns : Tick(busy))
    /\ WF_vars(\E k \in Conns : Connect(k))
    /\ WF_vars(SendPingFails)

-----------------------------------------------------------------------------
(* Properties *)

\* A connection both ends of which live, over a live network, is not ended: not by
\* the heartbeat check, whatever the handler was busy with, and not by a timeout
\* of the authentication; it takes a fault.  The one exception is a connection that
\* was made while the handler of an older one was still there: the older handler's
\* cleanup (or its late registration) takes the new session out of the map, and the
\* new handler then ends a connection with which nothing is wrong.
NoFalseTimeout ==
    [][\A k \in Conns :
          link[k] = "up" /\ conn = k /\ handler[k] # "none"
          /\ (conn' # k \/ handler'[k] = "none") =>
              faults' > faults \/ (k \in crowded /\ registered # k)]_vars

\* A session whose client is gone is over after the timeout and one more check,
\* and the time its handler spends in framed.send; until then its messages and
\* requests go nowhere.
DeadNoticed ==
    \A k \in Conns : last[k] <= HEARTBEAT_TIMEOUT + CheckEvery + SendStall

\* However connections failed, and whichever side noticed, the client is at last
\* in a session that its server has too.
Reconnects ==
    <>[](pc = "loop" /\ link[conn] = "up" /\ handler[conn] = "loop")
=============================================================================
