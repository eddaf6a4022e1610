------------------------ MODULE ClientConnectorProofs ------------------------
(***************************************************************************)
(* Proofs about ClientConnector, for any number of connections and any     *)
(* times that satisfy the module's assumptions.                            *)
(*                                                                         *)
(* IInv is inductive.  CheckSound bounds the silence that a session can    *)
(* reach: the time to the next check, plus what the handler has spent in   *)
(* framed.send, is all that can be added to the timeout.  FirstSound,      *)
(* AuthSound and LoopSound follow a connection over a live network from    *)
(* its first message to its last ping: how long ago the message was sent   *)
(* that will end the wait, and how long the silence has been since.        *)
(* AloneSound, which rests on it, says that a connection made when no      *)
(* other handler was there stays the only one, and keeps its session.      *)
(***************************************************************************)
EXTENDS ClientConnector, TLAPS

Times == HEARTBEAT_TIMEOUT + CheckEvery

\* The longest time between two sendings, of the first ping after the Auth or
\* of a ping after another, that is added to the silence.
Gap == IF PingEvery >= Latency THEN PingEvery ELSE Latency

Types ==
    /\ pc \in {"sleep", "connect", "auth", "loop"}
    /\ timer \in Nat /\ retry_delay \in Nat /\ faults \in Nat
    /\ conn \in Conns \cup {None}
    /\ link \in [Conns -> {"free", "up", "dead", "closed"}]
    /\ flight \in [Conns -> SUBSET (0 .. Latency)]
    /\ answer \in [Conns -> Int]
    /\ handler \in [Conns -> {"none", "first", "loop"}]
    /\ last \in [Conns -> Nat] /\ check \in [Conns -> Int] /\ stall \in [Conns -> 0 .. SendStall]

\* The client has a connection exactly while it uses one; a connection that is
\* free has no end, one that is up has both, and nothing is under way on any other
\* but one that the client has closed.
LinkSound ==
    /\ conn = None <=> pc \in {"sleep", "connect"}
    /\ \A k \in Conns : link[k] = "free" => conn # k /\ handler[k] = "none"
    /\ \A k \in Conns : IF link[k] = "up" THEN conn = k /\ handler[k] # "none"
                        ELSE /\ answer[k] = -1
                             /\ link[k] # "closed" \/ conn = k => flight[k] = {}

\* The silence l of a session whose next check is due in n, when its handler
\* has spent s in framed.send since the last ping.
CheckFits(l, n, s) ==
    /\ -CheckEvery < n /\ n <= CheckEvery
    /\ l <= Times + s
    /\ n > 0 => l + n <= Times + s
CheckSound ==
    \A k \in Conns : IF handler[k] = "loop" THEN CheckFits(last[k], check[k], stall[k])
                     ELSE last[k] = 0

\* Auth is under way: f is what the client has sent, t the time it will wait.
FirstFits(f, t) == \E x \in 0 .. Latency : f = {x} /\ x + t = AuthWait
FirstSound ==
    \A k \in Conns : link[k] = "up" /\ handler[k] = "first" =>
        pc = "auth" /\ timer = check[k] /\ answer[k] = -1 /\ FirstFits(flight[k], timer)

\* AuthResp is under way.
AuthSound ==
    \A k \in Conns : link[k] = "up" /\ handler[k] = "loop" /\ pc = "auth" =>
        /\ flight[k] = {} /\ answer[k] \in 0 .. Latency /\ last[k] = answer[k]
        /\ AuthWait <= timer + answer[k] + Latency

\* The client pings: f is what it has sent, t the time to the next ping, l the
\* silence and s the time spent in framed.send since the last ping.
LoopFits(f, t, l, s) ==
    /\ t <= PingEvery
    /\ f = {} => l + t <= Gap
    /\ f # {} => \E a \in f : l <= Gap + a + s
LoopSound ==
    \A k \in Conns : link[k] = "up" /\ handler[k] = "loop" /\ pc = "loop" =>
        LoopFits(flight[k], timer, last[k], stall[k])

\* The inductive invariant.
IInv == Types /\ LinkSound /\ CheckSound /\ FirstSound /\ AuthSound /\ LoopSound

-----------------------------------------------------------------------------
(* The times *)

\* Every time is a number, and a ping that was sent at the latest time, is
\* delivered at the latest time and waits for a busy handler is still in time.
LEMMA Consts ==
    /\ PingEvery \in Nat /\ PingEvery > 0 /\ CheckEvery \in Nat /\ CheckEvery > 0
    /\ HEARTBEAT_TIMEOUT \in Nat /\ AuthWait \in Nat /\ AuthWait > 0
    /\ FirstDelay \in Nat /\ MaxDelay \in Nat
    /\ Latency \in Nat /\ SendStall \in Nat /\ MaxFaults \in Nat
    /\ Times \in Nat /\ Times = HEARTBEAT_TIMEOUT + CheckEvery
    /\ Gap \in Nat /\ PingEvery <= Gap /\ Latency <= Gap
    /\ Gap + Latency + SendStall <= HEARTBEAT_TIMEOUT
    /\ 2 * Latency <= AuthWait
    /\ None \notin Conns
BY TimesAssumption, NetworkAssumption DEF Times, Gap

\* CountDown keeps a timer within a period of its due time.
LEMMA CountDownBounds ==
    ASSUME NEW n \in Int, -CheckEvery < n, n <= CheckEvery
    PROVE  /\ CountDown(n) \in Int
           /\ -CheckEvery < CountDown(n) /\ CountDown(n) <= CheckEvery
           /\ n > 0 => CountDown(n) = n - 1
           /\ n <= 0 => CountDown(n) <= 0
BY Consts DEF CountDown

\* The initial state.
LEMMA InitInv == Init => IInv
<1> SUFFICES ASSUME Init PROVE IInv OBVIOUS
<1>1. Types BY Consts DEF Init, Types
<1>2. LinkSound BY Consts DEF Init, LinkSound
<1>3. CheckSound BY DEF Init, CheckSound
<1>4. FirstSound /\ AuthSound /\ LoopSound BY DEF Init, FirstSound, AuthSound, LoopSound
<1> QED BY <1>1, <1>2, <1>3, <1>4 DEF IInv

-----------------------------------------------------------------------------
(* Steps that end a connection *)

\* What the parts about live connections say depends on nothing else.
LEMMA Quiet ==
    ASSUME \A k \in Conns : link'[k] # "up"
    PROVE  FirstSound' /\ AuthSound' /\ LoopSound'
BY DEF FirstSound, AuthSound, LoopSound

\* Only the client's connection is up.
LEMMA OnlyConn ==
    ASSUME LinkSound, NEW k \in Conns, link[k] = "up"
    PROVE  conn = k /\ handler[k] # "none"
BY DEF LinkSound

LEMMA SleepTypes ==
    ASSUME Types, NEW ok \in BOOLEAN, Sleep(ok)
    PROVE  pc' = "sleep" /\ timer' \in Nat /\ retry_delay' \in Nat
<1> DEFINE delay == IF ok THEN FirstDelay ELSE retry_delay
<1>1. delay \in Nat BY Consts DEF Types
<1>2. pc' = "sleep" /\ timer' = delay /\ retry_delay' = Least(2 * delay, MaxDelay)
  BY DEF Sleep
<1> HIDE DEF delay
<1> QED BY <1>1, <1>2, Consts DEF Least

\* Both ways of leaving make the link one that is not up.
LEMMA DropSound ==
    ASSUME Types, NEW k \in Conns, NEW there \in BOOLEAN, Drop(k, there)
    PROVE  /\ link' \in [Conns -> {"free", "up", "dead", "closed"}]
           /\ answer' \in [Conns -> Int]
           /\ link'[k] # "up" /\ answer'[k] = -1
           /\ link'[k] = "free" => ~there \/ link[k] = "free"
           /\ link[k] = "up" /\ there => link'[k] = "closed"
           /\ \A j \in Conns \ {k} : link'[j] = link[j] /\ answer'[j] = answer[j]
<1>1. answer' = [answer EXCEPT ![k] = -1] BY DEF Drop
<1>2. PICK s \in {"free", "dead", "closed"} :
          /\ link' = [link EXCEPT ![k] = s]
          /\ s = "free" => ~there \/ link[k] = "free"
          /\ link[k] = "up" /\ there => s = "closed"
  <2>1. CASE there /\ link[k] = "up"
    <3>1. link' = [link EXCEPT ![k] = "closed"] BY <2>1 DEF Drop
    <3> QED BY <3>1
  <2>2. CASE there /\ link[k] # "up"
    <3>1. link' = [link EXCEPT ![k] = link[k]] BY <2>2 DEF Drop
    <3> QED BY <3>1, <2>2 DEF Types
  <2>3. CASE ~there
    <3>1. link' = [link EXCEPT ![k] = "free"] BY <2>3 DEF Drop
    <3> QED BY <3>1, <2>3
  <2> QED BY <2>1, <2>2, <2>3
<1> QED BY <1>1, <1>2, Consts DEF Types

\* The client leaves its connection.
LEMMA ClientLeavesInv ==
    ASSUME IInv, NEW ok \in BOOLEAN, conn \in Conns, ClientLeaves(ok)
    PROVE  IInv'
<1> DEFINE there == handler[conn] # "none"
<1>1. there \in BOOLEAN OBVIOUS
<1>2. Drop(conn, there) /\ Sleep(ok) /\ conn' = None
      /\ UNCHANGED <<flight, handler, last, check, stall, faults>>
  BY DEF ClientLeaves, server
<1> HIDE DEF there
<1>3. pc' = "sleep" /\ timer' \in Nat /\ retry_delay' \in Nat BY <1>2, SleepTypes DEF IInv
<1>4. /\ link' \in [Conns -> {"free", "up", "dead", "closed"}]
      /\ answer' \in [Conns -> Int]
      /\ link'[conn] # "up" /\ answer'[conn] = -1
      /\ link'[conn] = "free" => ~there \/ link[conn] = "free"
      /\ link[conn] = "up" /\ there => link'[conn] = "closed"
      /\ \A j \in Conns \ {conn} : link'[j] = link[j] /\ answer'[j] = answer[j]
  BY <1>1, <1>2, DropSound DEF IInv
<1>f. link'[conn] # "closed" => flight[conn] = {}
  <2>1. CASE link[conn] = "up" BY <2>1, <1>4, OnlyConn DEF IInv, there
  <2>2. CASE link[conn] # "up" BY <2>2 DEF IInv, LinkSound
  <2> QED BY <2>1, <2>2
<1>5. \A j \in Conns : /\ link'[j] # "up" /\ answer'[j] = -1
                       /\ link'[j] # "closed" => flight[j] = {}
  BY <1>4, <1>f, OnlyConn DEF IInv, LinkSound
<1>6. Types' BY <1>2, <1>3, <1>4 DEF IInv, Types
<1>7. LinkSound'
  <2>1. \A j \in Conns : link'[j] = "free" => handler[j] = "none"
    BY <1>4 DEF IInv, LinkSound, there
  <2> QED BY <2>1, <1>2, <1>3, <1>5, Consts DEF LinkSound
<1>8. CheckSound' BY <1>2 DEF IInv, CheckSound
<1> QED BY <1>5, <1>6, <1>7, <1>8, Quiet DEF IInv

\* The server's task leaves its connection.
LEMMA HandlerLeavesInv ==
    ASSUME IInv, NEW k \in Conns, HandlerLeaves(k)
    PROVE  IInv'
<1> DEFINE there == conn = k
<1>1. there \in BOOLEAN OBVIOUS
<1>2. /\ Drop(k, there) /\ flight' = [flight EXCEPT ![k] = {}]
      /\ handler' = [handler EXCEPT ![k] = "none"] /\ last' = [last EXCEPT ![k] = 0]
      /\ check' = [check EXCEPT ![k] = 0] /\ stall' = [stall EXCEPT ![k] = 0]
      /\ UNCHANGED <<pc, timer, retry_delay, conn, faults>>
  BY DEF HandlerLeaves, client
<1> HIDE DEF there
<1>3. /\ link' \in [Conns -> {"free", "up", "dead", "closed"}]
      /\ answer' \in [Conns -> Int]
      /\ link'[k] # "up" /\ answer'[k] = -1
      /\ link'[k] = "free" => ~there \/ link[k] = "free"
      /\ \A j \in Conns \ {k} : link'[j] = link[j] /\ answer'[j] = answer[j]
  BY <1>1, <1>2, DropSound DEF IInv
<1>f. /\ flight' \in [Conns -> SUBSET (0 .. Latency)] /\ flight'[k] = {}
      /\ \A j \in Conns \ {k} : flight'[j] = flight[j]
  BY <1>2 DEF IInv, Types
<1>4. /\ handler'[k] = "none" /\ last'[k] = 0
      /\ \A j \in Conns \ {k} : /\ handler'[j] = handler[j] /\ last'[j] = last[j]
                                /\ check'[j] = check[j] /\ stall'[j] = stall[j]
  BY <1>2 DEF IInv, Types
<1>5. Types'
  <2>1. /\ pc' \in {"sleep", "connect", "auth", "loop"} /\ timer' \in Nat /\ retry_delay' \in Nat
        /\ faults' \in Nat /\ conn' \in Conns \cup {None}
    BY <1>2 DEF IInv, Types
  <2>2. handler' \in [Conns -> {"none", "first", "loop"}] /\ last' \in [Conns -> Nat]
    BY <1>2 DEF IInv, Types
  <2>3. check' \in [Conns -> Int] /\ stall' \in [Conns -> 0 .. SendStall]
    BY <1>2, Consts DEF IInv, Types
  <2> QED BY <1>3, <1>f, <2>1, <2>2, <2>3 DEF Types
<1>6. LinkSound'
  <2>1. \A j \in Conns : link'[j] = "free" => conn # j /\ handler'[j] = "none"
    BY <1>3, <1>4 DEF IInv, LinkSound, there
  <2> QED BY <2>1, <1>2, <1>3, <1>4, <1>f DEF IInv, LinkSound
<1>7. CheckSound' BY <1>4 DEF IInv, CheckSound
<1>8. FirstSound' BY <1>2, <1>3, <1>4, <1>f DEF IInv, FirstSound
<1>9. AuthSound' BY <1>2, <1>3, <1>4, <1>f DEF IInv, AuthSound
<1>10. LoopSound' BY <1>2, <1>3, <1>4, <1>f DEF IInv, LoopSound
<1> QED BY <1>5, <1>6, <1>7, <1>8, <1>9, <1>10 DEF IInv

\* A live connection never meets the end of a wait for authentication.
LEMMA AuthInTime ==
    ASSUME IInv, pc = "auth", conn \in Conns, timer = 0, answer[conn] < Latency
    PROVE  link[conn] # "up"
<1> SUFFICES ASSUME link[conn] = "up" PROVE FALSE OBVIOUS
<1>1. handler[conn] \in {"first", "loop"} BY OnlyConn DEF IInv, Types
<1>2. CASE handler[conn] = "first"
  <2>1. PICK x \in 0 .. Latency : x + timer = AuthWait
    BY <1>2 DEF IInv, FirstSound, FirstFits
  <2> QED BY <2>1, Consts
<1>3. CASE handler[conn] = "loop"
  <2>1. answer[conn] \in 0 .. Latency /\ AuthWait <= timer + answer[conn] + Latency
    BY <1>3 DEF IInv, AuthSound
  <2> QED BY <2>1, Consts
<1> QED BY <1>1, <1>2, <1>3

\* Nor does its handler meet the end of the wait for the first message.
LEMMA FirstInTime ==
    ASSUME IInv, NEW k \in Conns, handler[k] = "first", check[k] <= 0
    PROVE  link[k] # "up"
<1> SUFFICES ASSUME link[k] = "up" PROVE FALSE OBVIOUS
<1>1. PICK x \in 0 .. Latency : x + timer = AuthWait /\ timer = check[k]
  BY DEF IInv, FirstSound, FirstFits
<1> QED BY <1>1, Consts DEF IInv, Types

\* On a live connection the silence never exceeds the timeout.
LEMMA PingsInTime ==
    ASSUME IInv, NEW k \in Conns, link[k] = "up", handler[k] = "loop"
    PROVE  last[k] <= HEARTBEAT_TIMEOUT
<1>1. conn = k /\ pc \in {"auth", "loop"} BY OnlyConn, Consts DEF IInv, LinkSound, Types
<1>2. /\ last[k] \in Nat /\ timer \in Nat /\ stall[k] \in 0 .. SendStall
      /\ flight[k] \in SUBSET (0 .. Latency)
  BY DEF IInv, Types
<1>3. CASE pc = "auth"
  <2>1. answer[k] \in 0 .. Latency /\ last[k] = answer[k] BY <1>3 DEF IInv, AuthSound
  <2> QED BY <2>1, Consts
<1>4. CASE pc = "loop"
  <2>1. LoopFits(flight[k], timer, last[k], stall[k]) BY <1>4 DEF IInv, LoopSound
  <2>2. CASE flight[k] = {} BY <2>1, <2>2, <1>2, Consts DEF LoopFits
  <2>3. CASE flight[k] # {}
    <3>1. PICK a \in flight[k] : last[k] <= Gap + a + stall[k] BY <2>1, <2>3 DEF LoopFits
    <3>2. a \in 0 .. Latency BY <1>2
    <3> QED BY <3>1, <3>2, <1>2, Consts
  <2> QED BY <2>2, <2>3
<1> QED BY <1>1, <1>3, <1>4

-----------------------------------------------------------------------------
(* The client's steps *)

\* A client in auth or loop has a connection.
LEMMA HasConn ==
    ASSUME IInv, pc \in {"auth", "loop"}
    PROVE  conn \in Conns
BY DEF IInv, Types, LinkSound

LEMMA WakeInv == IInv /\ Wake => IInv'
<1> SUFFICES ASSUME IInv, Wake PROVE IInv' OBVIOUS
<1>1. /\ pc = "sleep" /\ pc' = "connect"
      /\ UNCHANGED <<timer, retry_delay, conn, link, flight, answer, handler, last, check, stall, faults>>
  BY DEF Wake, server
<1>2. Types' BY <1>1 DEF IInv, Types
<1>3. LinkSound' BY <1>1 DEF IInv, LinkSound
<1>4. CheckSound' BY <1>1 DEF IInv, CheckSound
<1>5. \A k \in Conns : link'[k] # "up" BY <1>1, OnlyConn, Consts DEF IInv, LinkSound
<1> QED BY <1>2, <1>3, <1>4, <1>5, Quiet DEF IInv

LEMMA ConnectInv == ASSUME IInv, NEW k \in Conns, Connect(k) PROVE IInv'
<1>1. /\ pc = "connect" /\ link[k] = "free" /\ pc' = "auth" /\ timer' = AuthWait /\ conn' = k
      /\ UNCHANGED <<retry_delay, answer, last, stall, faults>>
  BY DEF Connect
<1>2. /\ link' = [link EXCEPT ![k] = "up"] /\ flight' = [flight EXCEPT ![k] = {0}]
      /\ handler' = [handler EXCEPT ![k] = "first"] /\ check' = [check EXCEPT ![k] = AuthWait]
  BY DEF Connect
<1>3. /\ link'[k] = "up" /\ flight'[k] = {0} /\ handler'[k] = "first" /\ check'[k] = AuthWait
      /\ \A j \in Conns \ {k} : /\ link'[j] = link[j] /\ flight'[j] = flight[j]
                                /\ handler'[j] = handler[j] /\ check'[j] = check[j]
  BY <1>2 DEF IInv, Types
<1>4. \A j \in Conns : /\ link[j] # "up" /\ answer[j] = -1
                       /\ link[j] # "closed" => flight[j] = {}
  BY <1>1, OnlyConn, Consts DEF IInv, LinkSound
<1>5. {0} \in SUBSET (0 .. Latency) /\ 0 \in 0 .. Latency BY Consts
<1>6. Types'
  <2>1. flight' \in [Conns -> SUBSET (0 .. Latency)] BY <1>2, <1>5 DEF IInv, Types
  <2>2. /\ link' \in [Conns -> {"free", "up", "dead", "closed"}]
        /\ handler' \in [Conns -> {"none", "first", "loop"}] /\ check' \in [Conns -> Int]
    BY <1>2, Consts DEF IInv, Types
  <2> QED BY <1>1, <2>1, <2>2, Consts DEF IInv, Types
<1>7. LinkSound' BY <1>1, <1>3, <1>4, Consts DEF IInv, LinkSound
<1>8. last[k] = 0 BY <1>1 DEF IInv, LinkSound, CheckSound
<1>9. CheckSound' BY <1>1, <1>3, <1>8 DEF IInv, CheckSound
<1>10. FirstSound' BY <1>1, <1>3, <1>4, <1>5, Consts DEF FirstSound, FirstFits
<1>11. AuthSound' /\ LoopSound' BY <1>1, <1>3, <1>4 DEF AuthSound, LoopSound
<1> QED BY <1>6, <1>7, <1>9, <1>10, <1>11 DEF IInv


LEMMA ConnectFailsInv == IInv /\ ConnectFails => IInv'
<1> SUFFICES ASSUME IInv, ConnectFails PROVE IInv' OBVIOUS
<1>1. /\ pc = "connect" /\ faults' = faults + 1 /\ Sleep(FALSE)
      /\ UNCHANGED <<conn, link, flight, answer, handler, last, check, stall>>
  BY DEF ConnectFails, server
<1>2. pc' = "sleep" /\ timer' \in Nat /\ retry_delay' \in Nat BY <1>1, SleepTypes DEF IInv
<1>3. Types' BY <1>1, <1>2 DEF IInv, Types
<1>4. LinkSound' BY <1>1, <1>2 DEF IInv, LinkSound
<1>5. CheckSound' BY <1>1 DEF IInv, CheckSound
<1>6. \A k \in Conns : link'[k] # "up" BY <1>1, OnlyConn, Consts DEF IInv, LinkSound
<1> QED BY <1>3, <1>4, <1>5, <1>6, Quiet DEF IInv

\* The answer is at the client: the first ping is due, and the silence is as
\* old as the answer.
LEMMA AuthenticatedInv == IInv /\ Authenticated => IInv'
<1> SUFFICES ASSUME IInv, Authenticated PROVE IInv' OBVIOUS
<1>1. /\ pc = "auth" /\ answer[conn] >= 0 /\ pc' = "loop" /\ timer' = 0
      /\ answer' = [answer EXCEPT ![conn] = -1]
      /\ UNCHANGED <<retry_delay, conn, link, flight, handler, last, check, stall, faults>>
  BY DEF Authenticated, server
<1>2. conn \in Conns BY <1>1, HasConn
<1>3. answer'[conn] = -1 /\ \A j \in Conns \ {conn} : answer'[j] = answer[j]
  BY <1>1, <1>2 DEF IInv, Types
<1>4. link[conn] = "up" /\ handler[conn] = "loop"
  <2>1. link[conn] = "up" BY <1>1, <1>2 DEF IInv, LinkSound
  <2>2. handler[conn] # "first" BY <1>1, <1>2, <2>1 DEF IInv, FirstSound
  <2> QED BY <1>2, <2>1, <2>2, OnlyConn DEF IInv, Types
<1>5. Types' BY <1>1, <1>2 DEF IInv, Types
<1>6. LinkSound' BY <1>1, <1>3, <1>4 DEF IInv, LinkSound
<1>7. CheckSound' BY <1>1 DEF IInv, CheckSound
<1>8. \A k \in Conns \ {conn} : link[k] # "up" BY OnlyConn DEF IInv
<1>9. FirstSound' /\ AuthSound' BY <1>1, <1>4, <1>8 DEF FirstSound, AuthSound
<1>10. LoopSound'
  <2>1. flight[conn] = {} /\ last[conn] <= Latency /\ last[conn] \in Nat
    BY <1>1, <1>2, <1>4, Consts DEF IInv, AuthSound, Types
  <2>2. LoopFits(flight[conn], 0, last[conn], stall[conn]) BY <2>1, Consts DEF LoopFits
  <2> QED BY <1>1, <1>8, <2>2 DEF LoopSound
<1> QED BY <1>5, <1>6, <1>7, <1>9, <1>10 DEF IInv

\* A ping is sent; the silence was within bounds when it was due.
LEMMA SendPingInv == IInv /\ SendPing => IInv'
<1> SUFFICES ASSUME IInv, SendPing PROVE IInv' OBVIOUS
<1>1. /\ pc = "loop" /\ timer = 0 /\ timer' = PingEvery
      /\ flight' = [flight EXCEPT ![conn] = IF link[conn] = "up" THEN @ \cup {0} ELSE @]
      /\ UNCHANGED <<pc, retry_delay, conn, link, answer, handler, last, check, stall, faults>>
  BY DEF SendPing, server
<1>2. conn \in Conns BY <1>1, HasConn
<1>3. /\ flight'[conn] = IF link[conn] = "up" THEN flight[conn] \cup {0} ELSE flight[conn]
      /\ \A j \in Conns \ {conn} : flight'[j] = flight[j]
  BY <1>1, <1>2 DEF IInv, Types
<1>4. \A k \in Conns \ {conn} : link[k] # "up" BY OnlyConn DEF IInv
<1>5. Types'
  <2>1. \A j \in Conns : flight[j] \in SUBSET (0 .. Latency) BY DEF IInv, Types
  <2>2. flight[conn] \cup {0} \in SUBSET (0 .. Latency) BY <2>1, <1>2, Consts
  <2>3. \A j \in Conns : flight'[j] \in SUBSET (0 .. Latency) BY <2>1, <2>2, <1>2, <1>3
  <2>4. flight' \in [Conns -> SUBSET (0 .. Latency)] BY <2>3, <1>1 DEF IInv, Types
  <2> QED BY <2>4, <1>1, Consts DEF IInv, Types
<1>6. LinkSound' BY <1>1, <1>2, <1>3 DEF IInv, LinkSound
<1>7. CheckSound' BY <1>1 DEF IInv, CheckSound
<1>8. FirstSound' BY <1>1 DEF IInv, FirstSound
<1>9. AuthSound' BY <1>1 DEF AuthSound
<1>10. LoopSound'
  <2> SUFFICES ASSUME link[conn] = "up", handler[conn] = "loop"
               PROVE  LoopFits(flight[conn] \cup {0}, PingEvery, last[conn], stall[conn])
    BY <1>1, <1>2, <1>3, <1>4 DEF LoopSound
  <2>1. LoopFits(flight[conn], 0, last[conn], stall[conn])
    BY <1>1, <1>2 DEF IInv, LoopSound
  <2>2. last[conn] \in Nat /\ stall[conn] \in Nat BY <1>2, Consts DEF IInv, Types
  <2>3. CASE flight[conn] = {}
    <3>1. last[conn] <= Gap + 0 + stall[conn] BY <2>1, <2>2, <2>3, Consts DEF LoopFits
    <3>2. \E a \in flight[conn] \cup {0} : last[conn] <= Gap + a + stall[conn] BY <3>1
    <3> QED BY <3>2, Consts DEF LoopFits
  <2>4. CASE flight[conn] # {}
    <3>1. PICK a \in flight[conn] : last[conn] <= Gap + a + stall[conn]
      BY <2>1, <2>4 DEF LoopFits
    <3> QED BY <3>1, Consts DEF LoopFits
  <2> QED BY <2>3, <2>4
<1> QED BY <1>5, <1>6, <1>7, <1>8, <1>9, <1>10 DEF IInv

\* The three ways in which the client leaves.
LEMMA ClientEndsInv ==
    IInv /\ (AuthTimeout \/ ClientSeesEnd \/ SendPingFails) => IInv'
<1> SUFFICES ASSUME IInv, AuthTimeout \/ ClientSeesEnd \/ SendPingFails PROVE IInv'
  OBVIOUS
<1>1. CASE AuthTimeout
  <2>1. pc = "auth" /\ ClientLeaves(FALSE) BY <1>1 DEF AuthTimeout
  <2> QED BY <2>1, HasConn, ClientLeavesInv
<1>2. CASE ClientSeesEnd
  <2>1. pc \in {"auth", "loop"} /\ ClientLeaves(pc = "loop") BY <1>2 DEF ClientSeesEnd
  <2>2. (pc = "loop") \in BOOLEAN OBVIOUS
  <2>3. conn \in Conns BY <2>1, HasConn
  <2> QED BY <2>1, <2>2, <2>3, ClientLeavesInv, Zenon
<1>3. CASE SendPingFails
  <2>1. pc = "loop" /\ ClientLeaves(TRUE) BY <1>3 DEF SendPingFails
  <2> QED BY <2>1, HasConn, ClientLeavesInv
<1> QED BY <1>1, <1>2, <1>3

-----------------------------------------------------------------------------
(* The steps of the server's task *)

LEMMA OldestOfOne == ASSUME NEW x \in Int PROVE {x} \ {Oldest({x})} = {}
<1>1. \E a \in {x} : \A b \in {x} : a >= b OBVIOUS
<1>2. Oldest({x}) \in {x} BY <1>1 DEF Oldest
<1> QED BY <1>2

\* The only message that can be there is Auth; it took at most Latency, and as
\* much of the client's wait has gone by.
LEMMA ReceiveAuthInv ==
    ASSUME IInv, NEW k \in Conns, ReceiveAuth(k), link[k] = "up"  PROVE IInv'
<1>1. /\ handler[k] = "first" /\ flight[k] # {}
      /\ UNCHANGED <<pc, timer, retry_delay, conn, link, faults>>
  BY DEF ReceiveAuth, client
<1>2. /\ handler' = [handler EXCEPT ![k] = "loop"] /\ answer' = [answer EXCEPT ![k] = 0]
      /\ flight' = [flight EXCEPT ![k] = flight[k] \ {Oldest(flight[k])}]
      /\ last' = [last EXCEPT ![k] = 0] /\ check' = [check EXCEPT ![k] = 0]
      /\ stall' = [stall EXCEPT ![k] = 0]
  BY DEF ReceiveAuth
<1>3. link[k] = "up" /\ conn = k BY <1>1 DEF IInv, LinkSound
<1>4. PICK x \in 0 .. Latency : flight[k] = {x} /\ x + timer = AuthWait /\ pc = "auth"
  BY <1>1, <1>3 DEF IInv, FirstSound, FirstFits
<1>5. flight[k] \ {Oldest(flight[k])} = {} BY <1>4, OldestOfOne
<1>6. /\ handler'[k] = "loop" /\ answer'[k] = 0 /\ flight'[k] = {}
      /\ last'[k] = 0 /\ check'[k] = 0 /\ stall'[k] = 0
  BY <1>2, <1>5 DEF IInv, Types
<1>7. \A j \in Conns \ {k} :
         /\ handler'[j] = handler[j] /\ answer'[j] = answer[j] /\ flight'[j] = flight[j]
         /\ last'[j] = last[j] /\ check'[j] = check[j] /\ stall'[j] = stall[j]
  BY <1>2 DEF IInv, Types
<1>8. \A j \in Conns \ {k} : link[j] # "up" BY <1>3, OnlyConn DEF IInv
<1>9. Types'
  <2>1. flight' \in [Conns -> SUBSET (0 .. Latency)] BY <1>2, <1>5 DEF IInv, Types
  <2>2. handler' \in [Conns -> {"none", "first", "loop"}] /\ last' \in [Conns -> Nat]
    BY <1>2 DEF IInv, Types
  <2>3. /\ check' \in [Conns -> Int] /\ stall' \in [Conns -> 0 .. SendStall]
        /\ answer' \in [Conns -> Int]
    BY <1>2, Consts DEF IInv, Types
  <2> QED BY <1>1, <2>1, <2>2, <2>3 DEF IInv, Types
<1>10. LinkSound' BY <1>1, <1>3, <1>6, <1>7 DEF IInv, LinkSound
<1>11. CheckSound' BY <1>6, <1>7, Consts DEF IInv, CheckSound, CheckFits
<1>12. FirstSound' BY <1>1, <1>6, <1>8 DEF FirstSound
<1>13. AuthSound'
  <2>1. AuthWait <= timer + 0 + Latency BY <1>4, Consts DEF IInv, Types
  <2> QED BY <2>1, <1>1, <1>6, <1>8, Consts DEF AuthSound
<1>14. LoopSound' BY <1>1, <1>4 DEF LoopSound
<1> QED BY <1>9, <1>10, <1>11, <1>12, <1>13, <1>14 DEF IInv

\* A ping ends the silence.
LEMMA ReceivePingInv ==
    ASSUME IInv, NEW k \in Conns, ReceivePing(k), link[k] = "up"  PROVE IInv'
<1>1. /\ handler[k] = "loop" /\ flight[k] # {}
      /\ UNCHANGED <<pc, timer, retry_delay, conn, link, answer, handler, check, faults>>
  BY DEF ReceivePing, client
<1> DEFINE rest == flight[k] \ {Oldest(flight[k])}
<1>2. /\ flight' = [flight EXCEPT ![k] = rest]
      /\ last' = [last EXCEPT ![k] = 0] /\ stall' = [stall EXCEPT ![k] = 0]
  BY DEF ReceivePing
<1>3. rest \in SUBSET (0 .. Latency) BY DEF IInv, Types
<1> HIDE DEF rest
<1>4. link[k] = "up" /\ conn = k BY <1>1 DEF IInv, LinkSound
<1>5. /\ flight'[k] = rest /\ last'[k] = 0 /\ stall'[k] = 0
      /\ \A j \in Conns \ {k} : flight'[j] = flight[j] /\ last'[j] = last[j] /\ stall'[j] = stall[j]
  BY <1>2 DEF IInv, Types
<1>6. \A j \in Conns \ {k} : link[j] # "up" BY <1>4, OnlyConn DEF IInv
<1>7. pc = "loop"
  <2>1. pc # "auth" BY <1>1, <1>4 DEF IInv, AuthSound
  <2> QED BY <2>1, <1>4, Consts DEF IInv, LinkSound, Types
<1>8. Types'
  <2>1. flight' \in [Conns -> SUBSET (0 .. Latency)] BY <1>2, <1>3 DEF IInv, Types
  <2>2. last' \in [Conns -> Nat] /\ stall' \in [Conns -> 0 .. SendStall]
    BY <1>2, Consts DEF IInv, Types
  <2> QED BY <1>1, <2>1, <2>2 DEF IInv, Types
<1>9. LinkSound' BY <1>1, <1>4, <1>5 DEF IInv, LinkSound
<1>10. CheckSound'
  <2>1. CheckFits(last[k], check[k], stall[k]) /\ check[k] \in Int
    BY <1>1 DEF IInv, CheckSound, Types
  <2>2. CheckFits(0, check[k], 0) BY <2>1, Consts DEF CheckFits
  <2> QED BY <2>2, <1>1, <1>5 DEF IInv, CheckSound
<1>11. FirstSound' BY <1>1, <1>6 DEF FirstSound
<1>12. AuthSound' BY <1>1, <1>7 DEF AuthSound
<1>13. LoopSound'
  <2>1. LoopFits(flight[k], timer, last[k], stall[k]) BY <1>1, <1>4, <1>7 DEF IInv, LoopSound
  <2>2. timer <= PingEvery /\ timer \in Nat BY <2>1 DEF LoopFits, IInv, Types
  <2>3. \A a \in rest : 0 <= Gap + a + 0 BY <1>3, Consts
  <2>4. LoopFits(rest, timer, 0, 0) BY <2>2, <2>3, Consts DEF LoopFits
  <2> QED BY <2>4, <1>1, <1>5, <1>6 DEF LoopSound
<1> QED BY <1>8, <1>9, <1>10, <1>11, <1>12, <1>13 DEF IInv

\* What a client that has gone sent last is received like the rest, and concerns no
\* live connection.
LEMMA ReceiveLateInv ==
    ASSUME IInv, NEW k \in Conns, ReceiveAuth(k) \/ ReceivePing(k), link[k] # "up"
    PROVE  IInv'
<1> DEFINE rest == flight[k] \ {Oldest(flight[k])}
<1>1. /\ flight[k] # {} /\ handler[k] # "none"
      /\ UNCHANGED <<pc, timer, retry_delay, conn, link, faults>>
      /\ flight' = [flight EXCEPT ![k] = rest]
      /\ last' = [last EXCEPT ![k] = 0] /\ stall' = [stall EXCEPT ![k] = 0]
  BY DEF ReceiveAuth, ReceivePing, client
<1>2. answer' = answer
  <2>1. answer' = answer \/ answer' = [answer EXCEPT ![k] = answer[k]]
    BY DEF ReceiveAuth, ReceivePing
  <2> QED BY <2>1 DEF IInv, Types
<1>3. rest \in SUBSET (0 .. Latency) BY DEF IInv, Types
<1> HIDE DEF rest
<1>4. link[k] = "closed" /\ conn # k BY <1>1 DEF IInv, LinkSound, Types
<1>5. /\ last'[k] = 0 /\ stall'[k] = 0 /\ handler'[k] = "loop"
      /\ \/ handler[k] = "loop" /\ check'[k] = check[k]
         \/ check'[k] = 0
      /\ \A j \in Conns \ {k} :
            /\ flight'[j] = flight[j] /\ last'[j] = last[j] /\ stall'[j] = stall[j]
            /\ handler'[j] = handler[j] /\ check'[j] = check[j]
  BY <1>1 DEF ReceiveAuth, ReceivePing, IInv, Types
<1>6. Types'
  <2>1. flight' \in [Conns -> SUBSET (0 .. Latency)] BY <1>1, <1>3 DEF IInv, Types
  <2>2. last' \in [Conns -> Nat] /\ stall' \in [Conns -> 0 .. SendStall]
    BY <1>1, Consts DEF IInv, Types
  <2>3. handler' \in [Conns -> {"none", "first", "loop"}] /\ check' \in [Conns -> Int]
    BY DEF ReceiveAuth, ReceivePing, IInv, Types
  <2> QED BY <1>1, <1>2, <2>1, <2>2, <2>3 DEF IInv, Types
<1>7. LinkSound' BY <1>1, <1>2, <1>4, <1>5 DEF IInv, LinkSound
<1>8. CheckSound'
  <2>1. handler[k] = "loop" => CheckFits(last[k], check[k], stall[k]) /\ check[k] \in Int
    BY DEF IInv, CheckSound, Types
  <2>2. CheckFits(0, check'[k], 0) BY <1>5, <2>1, Consts DEF CheckFits
  <2> QED BY <2>2, <1>5 DEF IInv, CheckSound
<1>9. FirstSound' BY <1>1, <1>2, <1>4, <1>5 DEF IInv, FirstSound
<1>10. AuthSound' BY <1>1, <1>2, <1>4, <1>5 DEF IInv, AuthSound
<1>11. LoopSound' BY <1>1, <1>2, <1>4, <1>5 DEF IInv, LoopSound
<1> QED BY <1>6, <1>7, <1>8, <1>9, <1>10, <1>11 DEF IInv

\* A check that does not end the session is followed by another in time.
LEMMA HeartbeatCheckInv == ASSUME IInv, NEW k \in Conns, HeartbeatCheck(k) PROVE IInv'
<1>1. CASE last[k] > HEARTBEAT_TIMEOUT /\ HandlerLeaves(k) BY <1>1, HandlerLeavesInv
<1>2. CASE /\ last[k] <= HEARTBEAT_TIMEOUT
           /\ check' = [check EXCEPT ![k] = @ + CheckEvery]
           /\ UNCHANGED <<client, link, flight, answer, handler, last, stall, registered,
                          crowded, faults>>
  <2>1. handler[k] = "loop" /\ check[k] <= 0 BY DEF HeartbeatCheck
  <2>2. UNCHANGED <<pc, timer, retry_delay, conn, link, flight, answer, handler, last, stall, faults>>
    BY <1>2 DEF client
  <2>3. check'[k] = check[k] + CheckEvery /\ \A j \in Conns \ {k} : check'[j] = check[j]
    BY <1>2 DEF IInv, Types
  <2>4. Types' BY <1>2, <2>2, Consts DEF IInv, Types
  <2>5. LinkSound' BY <2>2 DEF IInv, LinkSound
  <2>6. CheckSound'
    <3>1. /\ CheckFits(last[k], check[k], stall[k])
          /\ check[k] \in Int /\ last[k] \in Nat /\ stall[k] \in Nat
      BY <2>1, Consts DEF IInv, CheckSound, Types
    <3>2. CheckFits(last[k], check[k] + CheckEvery, stall[k])
      BY <3>1, <2>1, <1>2, Consts DEF CheckFits
    <3> QED BY <3>2, <2>2, <2>3 DEF IInv, CheckSound
  <2>7. FirstSound' BY <2>1, <2>2, <2>3 DEF IInv, FirstSound
  <2>8. AuthSound' BY <2>2 DEF IInv, AuthSound
  <2>9. LoopSound' BY <2>2 DEF IInv, LoopSound
  <2> QED BY <2>4, <2>5, <2>6, <2>7, <2>8, <2>9 DEF IInv
<1> QED BY <1>1, <1>2 DEF HeartbeatCheck

\* The other ways in which the task leaves.
LEMMA HandlerEndsInv ==
    ASSUME IInv, NEW k \in Conns,
           FirstMessageTimeout(k) \/ ChannelClosed(k) \/ HandlerSeesEnd(k) \/ SendFails(k)
    PROVE  IInv'
<1>1. HandlerLeaves(k) BY DEF FirstMessageTimeout, ChannelClosed, HandlerSeesEnd, SendFails
<1> QED BY <1>1, HandlerLeavesInv

-----------------------------------------------------------------------------
(* Failures *)

LEMMA LinkDiesInv == ASSUME IInv, NEW k \in Conns, LinkDies(k) PROVE IInv'
<1>1. /\ link[k] = "up" /\ faults' = faults + 1
      /\ link' = [link EXCEPT ![k] = "dead"] /\ flight' = [flight EXCEPT ![k] = {}]
      /\ answer' = [answer EXCEPT ![k] = -1]
      /\ UNCHANGED <<pc, timer, retry_delay, conn, handler, last, check, stall>>
  BY DEF LinkDies, client, server
<1>2. /\ link'[k] = "dead" /\ flight'[k] = {} /\ answer'[k] = -1
      /\ \A j \in Conns \ {k} :
            link'[j] = link[j] /\ flight'[j] = flight[j] /\ answer'[j] = answer[j]
  BY <1>1 DEF IInv, Types
<1>3. \A j \in Conns : link'[j] # "up" BY <1>1, <1>2, OnlyConn DEF IInv
<1>4. Types' BY <1>1 DEF IInv, Types
<1>5. LinkSound' BY <1>1, <1>2 DEF IInv, LinkSound
<1>6. CheckSound' BY <1>1 DEF IInv, CheckSound
<1> QED BY <1>3, <1>4, <1>5, <1>6, Quiet DEF IInv

LEMMA ServerRestartsInv == IInv /\ ServerRestarts => IInv'
<1> SUFFICES ASSUME IInv, ServerRestarts PROVE IInv' OBVIOUS
<1>1. /\ faults' = faults + 1
      /\ flight' = [k \in Conns |-> {}] /\ answer' = [k \in Conns |-> -1]
      /\ handler' = [k \in Conns |-> "none"] /\ last' = [k \in Conns |-> 0]
      /\ check' = [k \in Conns |-> 0] /\ stall' = [k \in Conns |-> 0]
      /\ UNCHANGED <<pc, timer, retry_delay, conn>>
  BY DEF ServerRestarts, client
<1>2. PICK sign \in {"closed", "dead"} :
         link' = [k \in Conns |-> IF conn # k THEN "free"
                                  ELSE IF link[k] = "up" THEN sign ELSE link[k]]
  BY DEF ServerRestarts
<1>3. \A k \in Conns : link[k] \in {"free", "up", "dead", "closed"} BY DEF IInv, Types
<1>4. \A k \in Conns : /\ link'[k] \in {"free", "dead", "closed"}
                       /\ link'[k] = "free" => conn # k \/ link[k] = "free"
  BY <1>2, <1>3
<1>5. Types'
  <2>1. link' \in [Conns -> {"free", "up", "dead", "closed"}] BY <1>2, <1>4
  <2>2. /\ flight' \in [Conns -> SUBSET (0 .. Latency)] /\ answer' \in [Conns -> Int]
        /\ handler' \in [Conns -> {"none", "first", "loop"}] /\ last' \in [Conns -> Nat]
        /\ check' \in [Conns -> Int] /\ stall' \in [Conns -> 0 .. SendStall]
    BY <1>1, Consts
  <2> QED BY <1>1, <2>1, <2>2 DEF IInv, Types
<1>6. LinkSound' BY <1>1, <1>4 DEF IInv, LinkSound
<1>7. CheckSound' BY <1>1 DEF CheckSound
<1>8. \A k \in Conns : link'[k] # "up" BY <1>4
<1> QED BY <1>5, <1>6, <1>7, <1>8, Quiet DEF IInv

LEMMA ClientRestartsInv == IInv /\ ClientRestarts => IInv'
<1> SUFFICES ASSUME IInv, ClientRestarts PROVE IInv' OBVIOUS
<1>1. /\ faults' = faults + 1 /\ pc' = "connect" /\ timer' = 0 /\ retry_delay' = FirstDelay
      /\ conn' = None
      /\ answer' = [answer EXCEPT ![conn] = -1]
      /\ UNCHANGED <<handler, last, check, stall>>
  BY DEF ClientRestarts, server
<1>2. conn \in Conns BY DEF ClientRestarts, IInv, Types
<1>3. PICK sign \in {"closed", "dead"} :
         /\ link' = [link EXCEPT ![conn] = IF handler[conn] = "none" THEN "free"
                                           ELSE IF @ = "up" THEN sign ELSE @]
         /\ flight' = [flight EXCEPT ![conn] = IF sign = "dead" THEN {} ELSE @]
  BY DEF ClientRestarts
<1>4. link \in [Conns -> {"free", "up", "dead", "closed"}] BY DEF IInv, Types
<1>5. /\ link'[conn] \in {"free", "dead", "closed"}
      /\ link'[conn] = "free" => handler[conn] = "none" \/ link[conn] = "free"
      /\ \A j \in Conns \ {conn} : link'[j] = link[j]
  BY <1>2, <1>3, <1>4
<1>6. \A j \in Conns : /\ link'[j] \in {"free", "dead", "closed"}
                       /\ link'[j] = "free" => handler[j] = "none"
  BY <1>2, <1>4, <1>5, OnlyConn DEF IInv, LinkSound
<1>7. \A j \in Conns : answer'[j] = -1 /\ (link'[j] # "closed" => flight'[j] = {})
  <2>1. \A j \in Conns \ {conn} : flight'[j] = flight[j] /\ answer'[j] = answer[j] /\ link[j] # "up"
    BY <1>1, <1>2, <1>3, OnlyConn DEF IInv, Types
  <2>2. answer'[conn] = -1 BY <1>1, <1>2 DEF IInv, Types
  <2>3. link'[conn] # "closed" => flight'[conn] = {}
    <3>1. CASE link[conn] = "up"
      <4>1. link'[conn] = sign BY <1>2, <1>3, <1>4, <3>1, OnlyConn DEF IInv
      <4> QED BY <4>1, <1>2, <1>3 DEF IInv, Types
    <3>2. CASE link[conn] # "up"
      <4>1. flight[conn] = {} BY <1>2, <3>2 DEF IInv, LinkSound
      <4> QED BY <4>1, <1>2, <1>3 DEF IInv, Types
    <3> QED BY <3>1, <3>2
  <2> QED BY <2>1, <2>2, <2>3, <1>5 DEF IInv, LinkSound
<1>8. Types'
  <2>1. link' \in [Conns -> {"free", "up", "dead", "closed"}] BY <1>3, <1>4, <1>6
  <2>2. flight' \in [Conns -> SUBSET (0 .. Latency)] /\ answer' \in [Conns -> Int]
    BY <1>1, <1>2, <1>3 DEF IInv, Types
  <2> QED BY <1>1, <2>1, <2>2, Consts DEF IInv, Types
<1>9. LinkSound' BY <1>1, <1>6, <1>7, Consts DEF LinkSound
<1>10. CheckSound' BY <1>1 DEF IInv, CheckSound
<1>11. \A k \in Conns : link'[k] # "up" BY <1>6
<1> QED BY <1>8, <1>9, <1>10, <1>11, Quiet DEF IInv

-----------------------------------------------------------------------------
(* Time *)

\* A unit of time added to the silence is a unit less to the next check, or a
\* unit spent in framed.send.
LEMMA TickChecks ==
    ASSUME NEW l \in Nat, NEW n \in Int, NEW s \in Nat, NEW t \in Nat, CheckFits(l, n, s),
           (n > 0 /\ t = s) \/ t = s + 1
    PROVE  CheckFits(l + 1, CountDown(n), t)
<1>1. -CheckEvery < n /\ n <= CheckEvery /\ l <= Times + s /\ (n > 0 => l + n <= Times + s)
  BY DEF CheckFits
<1>2. /\ CountDown(n) \in Int
      /\ -CheckEvery < CountDown(n) /\ CountDown(n) <= CheckEvery
      /\ n > 0 => CountDown(n) = n - 1
      /\ n <= 0 => CountDown(n) <= 0
  BY <1>1, CountDownBounds
<1>3. l + 1 <= Times + t BY <1>1, Consts
<1>4. CountDown(n) > 0 => (l + 1) + CountDown(n) <= Times + t BY <1>1, <1>2, Consts
<1> QED BY <1>2, <1>3, <1>4 DEF CheckFits

\* It is also a unit more in the age of the ping that will end the silence, a
\* unit less to the next ping, or a unit spent in framed.send.
LEMMA TickPings ==
    ASSUME NEW f \in SUBSET (0 .. Latency), NEW t \in Nat, t > 0, NEW l \in Nat,
           NEW s \in Nat, NEW u \in Nat, LoopFits(f, t, l, s),
           (Latency \notin f /\ u = s) \/ u = s + 1
    PROVE  LoopFits({Least(a + 1, Latency) : a \in f}, t - 1, l + 1, u)
<1> DEFINE g == {Least(a + 1, Latency) : a \in f}
<1>1. t - 1 <= PingEvery BY Consts DEF LoopFits
<1>2. ASSUME g = {} PROVE (l + 1) + (t - 1) <= Gap
  <2>1. f = {} BY <1>2
  <2> QED BY <2>1, Consts DEF LoopFits
<1>3. ASSUME g # {} PROVE \E b \in g : l + 1 <= Gap + b + u
  <2>1. f # {} BY <1>3
  <2>2. PICK a \in f : l <= Gap + a + s BY <2>1 DEF LoopFits
  <2>3. a \in 0 .. Latency /\ (Latency \notin f => a # Latency) OBVIOUS
  <2>4. l + 1 <= Gap + Least(a + 1, Latency) + u BY <2>2, <2>3, Consts DEF Least
  <2>5. Least(a + 1, Latency) \in g OBVIOUS
  <2> QED BY <2>4, <2>5
<1> HIDE DEF g
<1>4. LoopFits(g, t - 1, l + 1, u) BY <1>1, <1>2, <1>3 DEF LoopFits
<1> QED BY <1>4 DEF g

LEMMA TickInv == ASSUME IInv, NEW busy \in SUBSET Conns, Tick(busy) PROVE IInv'
<1>1. /\ UNCHANGED <<pc, retry_delay, conn, link, handler, faults>>
      /\ timer' = IF pc = "connect" THEN 0 ELSE timer - 1
      /\ pc # "connect" => timer > 0
  BY DEF Tick, ClientIdle
<1>2. \A k \in Conns :
         /\ flight'[k] = {Least(a + 1, Latency) : a \in flight[k]}
         /\ answer'[k] = IF answer[k] < 0 THEN -1 ELSE answer[k] + 1
         /\ last'[k] = IF handler[k] = "loop" THEN last[k] + 1 ELSE 0
         /\ check'[k] = IF handler[k] # "none" THEN CountDown(check[k]) ELSE 0
         /\ stall'[k] = IF k \in busy THEN stall[k] + 1 ELSE stall[k]
  BY DEF Tick, Waiting
<1>3. \A k \in busy : handler[k] = "loop" /\ stall[k] < SendStall BY DEF Tick
<1>4. \A k \in Conns \ busy : handler[k] # "none" => check[k] > 0 /\ Latency \notin flight[k]
  BY DEF Tick, Waiting, HandlerIdle
<1>5. pc = "auth" => answer[conn] < Latency BY DEF Tick, ClientIdle
<1>6. \A k \in Conns :
         /\ flight[k] \in SUBSET (0 .. Latency) /\ answer[k] \in Int /\ last[k] \in Nat
         /\ check[k] \in Int /\ stall[k] \in 0 .. SendStall /\ stall[k] \in Nat
         /\ handler[k] \in {"none", "first", "loop"}
  BY Consts DEF IInv, Types
<1>7. Types'
  <2>1. timer' \in Nat BY <1>1 DEF IInv, Types
  <2>2. \A a \in 0 .. Latency : Least(a + 1, Latency) \in 0 .. Latency BY Consts DEF Least
  <2>3. \A k \in Conns : {Least(a + 1, Latency) : a \in flight[k]} \in SUBSET (0 .. Latency)
    BY <1>6, <2>2
  <2>4. flight' \in [Conns -> SUBSET (0 .. Latency)] BY <2>3 DEF Tick
  <2>5. answer' \in [Conns -> Int] BY <1>6 DEF Tick
  <2>6. last' \in [Conns -> Nat] BY <1>6 DEF Tick
  <2>7. \A k \in Conns : CountDown(check[k]) \in Int BY <1>6 DEF CountDown
  <2>8. check' \in [Conns -> Int] BY <2>7 DEF Tick
  <2>9. \A k \in busy : stall[k] + 1 \in 0 .. SendStall BY <1>3, <1>6, Consts
  <2>10. stall' \in [Conns -> 0 .. SendStall] BY <1>6, <2>9 DEF Tick
  <2> QED BY <1>1, <2>1, <2>4, <2>5, <2>6, <2>8, <2>10 DEF IInv, Types
<1>8. LinkSound'
  <2>1. \A k \in Conns : link[k] # "up" =>
            answer'[k] = -1 /\ (link[k] # "closed" \/ conn = k => flight'[k] = {})
    BY <1>2 DEF IInv, LinkSound
  <2> QED BY <1>1, <2>1 DEF IInv, LinkSound
<1>9. CheckSound'
  <2>1. ASSUME NEW k \in Conns, handler[k] = "loop"
        PROVE  CheckFits(last[k] + 1, CountDown(check[k]), stall'[k])
    <3>1. CheckFits(last[k], check[k], stall[k]) BY <2>1 DEF IInv, CheckSound
    <3>2. (check[k] > 0 /\ stall'[k] = stall[k]) \/ stall'[k] = stall[k] + 1
      BY <2>1, <1>2, <1>4
    <3>3. stall'[k] \in Nat BY <1>2, <1>6
    <3> QED BY <3>1, <3>2, <3>3, <1>6, TickChecks
  <2>2. \A k \in Conns : handler'[k] = "loop" => CheckFits(last'[k], check'[k], stall'[k])
    BY <2>1, <1>1, <1>2
  <2>3. \A k \in Conns : handler'[k] # "loop" => last'[k] = 0 BY <1>1, <1>2
  <2> QED BY <2>2, <2>3 DEF CheckSound
<1>10. FirstSound'
  <2> SUFFICES ASSUME NEW k \in Conns, link[k] = "up", handler[k] = "first"
               PROVE  /\ pc = "auth" /\ timer' = check'[k] /\ answer'[k] = -1
                      /\ FirstFits(flight'[k], timer')
    BY <1>1 DEF FirstSound
  <2>1. pc = "auth" /\ timer = check[k] /\ answer[k] = -1 /\ FirstFits(flight[k], timer)
    BY DEF IInv, FirstSound
  <2>2. timer' = timer - 1 /\ timer > 0 /\ timer \in Nat BY <1>1, <2>1 DEF IInv, Types
  <2>3. k \notin busy BY <1>3
  <2>4. Latency \notin flight[k] /\ check[k] > 0 BY <1>4, <2>3
  <2>5. check'[k] = check[k] - 1 BY <1>2, <1>6, <2>4, Consts DEF CountDown
  <2>6. PICK x \in 0 .. Latency : flight[k] = {x} /\ x + timer = AuthWait
    BY <2>1 DEF FirstFits
  <2>7. x # Latency BY <2>4, <2>6
  <2>8. Least(x + 1, Latency) = x + 1 /\ x + 1 \in 0 .. Latency BY <2>7, Consts DEF Least
  <2>9. flight'[k] = {x + 1} BY <1>2, <2>6, <2>8
  <2>10. (x + 1) + timer' = AuthWait BY <2>2, <2>6, Consts
  <2>11. answer'[k] = -1 BY <1>2, <2>1
  <2> QED BY <2>1, <2>2, <2>5, <2>8, <2>9, <2>10, <2>11 DEF FirstFits
<1>11. AuthSound'
  <2> SUFFICES ASSUME NEW k \in Conns, link[k] = "up", handler[k] = "loop", pc = "auth"
               PROVE  /\ flight'[k] = {} /\ answer'[k] \in 0 .. Latency
                      /\ last'[k] = answer'[k] /\ AuthWait <= timer' + answer'[k] + Latency
    BY <1>1 DEF AuthSound
  <2>1. /\ flight[k] = {} /\ answer[k] \in 0 .. Latency /\ last[k] = answer[k]
        /\ AuthWait <= timer + answer[k] + Latency
    BY DEF IInv, AuthSound
  <2>2. answer[k] < Latency BY <1>5, OnlyConn DEF IInv
  <2>3. timer' = timer - 1 /\ timer \in Nat BY <1>1 DEF IInv, Types
  <2>4. answer'[k] = answer[k] + 1 /\ last'[k] = last[k] + 1 BY <1>2, <2>1
  <2>5. flight'[k] = {} BY <1>2, <2>1
  <2> QED BY <2>1, <2>2, <2>3, <2>4, <2>5, Consts
<1>12. LoopSound'
  <2> SUFFICES ASSUME NEW k \in Conns, link[k] = "up", handler[k] = "loop", pc = "loop"
               PROVE  LoopFits(flight'[k], timer', last'[k], stall'[k])
    BY <1>1 DEF LoopSound
  <2>1. LoopFits(flight[k], timer, last[k], stall[k]) BY DEF IInv, LoopSound
  <2>2. timer' = timer - 1 /\ timer > 0 /\ timer \in Nat BY <1>1 DEF IInv, Types
  <2>3. (Latency \notin flight[k] /\ stall'[k] = stall[k]) \/ stall'[k] = stall[k] + 1
    BY <1>2, <1>4
  <2>4. stall'[k] \in Nat BY <1>2, <1>6
  <2>5. LoopFits({Least(a + 1, Latency) : a \in flight[k]}, timer - 1, last[k] + 1, stall'[k])
    BY <2>1, <2>2, <2>3, <2>4, <1>6, TickPings
  <2> QED BY <2>2, <2>5, <1>2
<1> QED BY <1>7, <1>8, <1>9, <1>10, <1>11, <1>12 DEF IInv

-----------------------------------------------------------------------------
(* The theorems *)

LEMMA StutterInv == IInv /\ UNCHANGED vars => IInv'
<1> SUFFICES ASSUME IInv, UNCHANGED vars PROVE IInv' OBVIOUS
<1>1. UNCHANGED <<pc, timer, retry_delay, conn, link, flight, answer, handler, last, check,
                  stall, faults>>
  BY DEF vars
<1>2. Types' /\ LinkSound' BY <1>1 DEF IInv, Types, LinkSound
<1>3. CheckSound' BY <1>1 DEF IInv, CheckSound
<1>4. FirstSound' BY <1>1 DEF IInv, FirstSound
<1>5. AuthSound' BY <1>1 DEF IInv, AuthSound
<1>6. LoopSound' BY <1>1 DEF IInv, LoopSound
<1> QED BY <1>2, <1>3, <1>4, <1>5, <1>6 DEF IInv

LEMMA NextInv == IInv /\ [Next]_vars => IInv'
<1> SUFFICES ASSUME IInv, [Next]_vars PROVE IInv' OBVIOUS
<1>1. CASE Prompt
  <2>1. CASE Wake BY <2>1, WakeInv
  <2>2. CASE Authenticated BY <2>2, AuthenticatedInv
  <2>3. CASE SendPing BY <2>3, SendPingInv
  <2>4. CASE AuthTimeout \/ ClientSeesEnd BY <2>4, ClientEndsInv
  <2>5. CASE \E k \in Conns :
                \/ ReceiveAuth(k) \/ FirstMessageTimeout(k) \/ ReceivePing(k)
                \/ HeartbeatCheck(k) \/ ChannelClosed(k) \/ HandlerSeesEnd(k)
    BY <2>5, ReceiveAuthInv, ReceivePingInv, ReceiveLateInv, HeartbeatCheckInv, HandlerEndsInv
  <2> QED BY <1>1, <2>1, <2>2, <2>3, <2>4, <2>5 DEF Prompt
<1>2. CASE \E k \in Conns : Connect(k) BY <1>2, ConnectInv
<1>3. CASE SendPingFails BY <1>3, ClientEndsInv
<1>4. CASE \E busy \in SUBSET Conns : Tick(busy) BY <1>4, TickInv
<1>5. CASE ConnectFails BY <1>5, ConnectFailsInv
<1>6. CASE \E k \in Conns : LinkDies(k) \/ SendFails(k) BY <1>6, LinkDiesInv, HandlerEndsInv
<1>7. CASE ServerRestarts \/ ClientRestarts BY <1>7, ServerRestartsInv, ClientRestartsInv
<1>8. CASE UNCHANGED vars BY <1>8, StutterInv
<1> QED BY <1>1, <1>2, <1>3, <1>4, <1>5, <1>6, <1>7, <1>8 DEF Next

\* The invariant that the others rest on: how long the client, the network and
\* the handler can make a session's silence.
THEOREM Invariance == Spec => []IInv
BY InitInv, NextInv, PTL DEF Spec

\* A session whose client has vanished is over within the timeout of run_session,
\* one more period of its heartbeat timer and the time the handler spends in
\* framed.send, for every period, timeout and stall.
THEOREM SilenceBounded == Spec => []DeadNoticed
<1>1. IInv => DeadNoticed
  <2> SUFFICES ASSUME IInv, NEW k \in Conns
               PROVE  last[k] <= HEARTBEAT_TIMEOUT + CheckEvery + SendStall
    BY DEF DeadNoticed
  <2>1. last[k] \in Nat /\ stall[k] \in 0 .. SendStall BY DEF IInv, Types
  <2>2. last[k] <= Times + stall[k] BY <2>1, Consts DEF IInv, CheckSound, CheckFits
  <2> QED BY <2>1, <2>2, Consts
<1> QED BY <1>1, Invariance, PTL

-----------------------------------------------------------------------------
(* Connections that have the session map to themselves *)

\* A live connection beside which no other handler was when it was made is the only
\* one that has a handler, and its session is the one in the map.
Alone(k) ==
    /\ \A j \in Conns \ {k} : handler[j] = "none"
    /\ handler[k] = "loop" => registered = k
AloneSound == \A k \in Conns : link[k] = "up" /\ k \notin crowded => Alone(k)

LEMMA AloneInit == Init => AloneSound
BY DEF Init, AloneSound, Alone

\* It stays so when no connection comes up and the handlers and the map are left alone.
LEMMA AloneKept ==
    ASSUME AloneSound, UNCHANGED <<handler, registered, crowded>>,
           \A k \in Conns : link'[k] = "up" => link[k] = "up"
    PROVE  AloneSound'
BY DEF AloneSound, Alone

\* A client or a handler that leaves does not bring a connection up.
LEMMA DropLinks ==
    ASSUME Types, NEW k \in Conns, NEW there \in BOOLEAN, Drop(k, there)
    PROVE  link'[k] # "up" /\ \A j \in Conns : link'[j] = "up" => link[j] = "up"
BY DropSound

LEMMA ClientLeavesAlone ==
    ASSUME IInv, AloneSound, NEW ok \in BOOLEAN, conn \in Conns, ClientLeaves(ok)
    PROVE  AloneSound'
<1>1. (handler[conn] # "none") \in BOOLEAN OBVIOUS
<1>2. Drop(conn, handler[conn] # "none") /\ UNCHANGED <<handler, registered, crowded>>
  BY DEF ClientLeaves, server
<1>3. \A j \in Conns : link'[j] = "up" => link[j] = "up" BY <1>1, <1>2, DropLinks DEF IInv
<1> QED BY <1>2, <1>3, AloneKept

\* The only handler leaves: no connection is up any more.
LEMMA HandlerLeavesAlone ==
    ASSUME IInv, AloneSound, NEW k \in Conns, handler[k] # "none", HandlerLeaves(k)
    PROVE  AloneSound'
<1>1. (conn = k) \in BOOLEAN OBVIOUS
<1>2. Drop(k, conn = k) /\ crowded' = crowded BY DEF HandlerLeaves
<1>3. link'[k] # "up" /\ \A j \in Conns : link'[j] = "up" => link[j] = "up"
  BY <1>1, <1>2, DropLinks DEF IInv
<1>4. \A j \in Conns \ {k} : ~(link[j] = "up" /\ j \notin crowded) BY DEF AloneSound, Alone
<1> QED BY <1>2, <1>3, <1>4 DEF AloneSound

LEMMA AloneNext == ASSUME IInv, AloneSound, [Next]_vars  PROVE AloneSound'
<1>0. Types BY DEF IInv
<1>1. CASE Wake \/ Authenticated \/ SendPing
  <2>1. UNCHANGED <<handler, registered, crowded, link>>
    BY <1>1 DEF Wake, Authenticated, SendPing, server
  <2> QED BY <2>1, AloneKept
<1>2. CASE AuthTimeout BY <1>2, HasConn, ClientLeavesAlone DEF AuthTimeout
<1>3. CASE ClientSeesEnd
  <2>1. (pc = "loop") \in BOOLEAN /\ conn \in Conns BY <1>3, HasConn DEF ClientSeesEnd
  <2>2. ClientLeaves(pc = "loop") BY <1>3 DEF ClientSeesEnd
  <2> QED BY <2>1, <2>2, ClientLeavesAlone, Zenon
<1>4. CASE SendPingFails BY <1>4, HasConn, ClientLeavesAlone DEF SendPingFails
<1>5. ASSUME NEW k \in Conns, ReceiveAuth(k)  PROVE AloneSound'
  <2>1. /\ handler[k] = "first" /\ handler' = [handler EXCEPT ![k] = "loop"]
        /\ registered' = k /\ UNCHANGED <<link, crowded>>
    BY <1>5 DEF ReceiveAuth
  <2>2. \A j \in Conns \ {k} : ~(link[j] = "up" /\ j \notin crowded)
    BY <2>1 DEF AloneSound, Alone
  <2>3. \A j \in Conns \ {k} : handler'[j] = handler[j] BY <2>1, <1>0 DEF Types
  <2> QED BY <2>1, <2>2, <2>3 DEF AloneSound, Alone
<1>6. ASSUME NEW k \in Conns, ReceivePing(k) \/ LinkDies(k)  PROVE AloneSound'
  <2>1. UNCHANGED <<handler, registered, crowded>>
    BY <1>6 DEF ReceivePing, LinkDies, server
  <2>2. \A j \in Conns : link'[j] = "up" => link[j] = "up"
    BY <1>6, <1>0 DEF ReceivePing, LinkDies, Types
  <2> QED BY <2>1, <2>2, AloneKept
<1>7. ASSUME NEW k \in Conns,
             \/ FirstMessageTimeout(k) \/ HeartbeatCheck(k) \/ ChannelClosed(k)
             \/ HandlerSeesEnd(k) \/ SendFails(k)
      PROVE  AloneSound'
  <2>1. CASE HandlerLeaves(k)
    <3>1. handler[k] # "none"
      BY <1>7 DEF FirstMessageTimeout, HeartbeatCheck, ChannelClosed, HandlerSeesEnd, SendFails
    <3> QED BY <2>1, <3>1, HandlerLeavesAlone
  <2>2. CASE HeartbeatCheck(k) /\ ~HandlerLeaves(k)
    <3>1. UNCHANGED <<handler, registered, crowded, link>> BY <2>2 DEF HeartbeatCheck
    <3> QED BY <3>1, AloneKept
  <2> QED BY <1>7, <2>1, <2>2 DEF FirstMessageTimeout, ChannelClosed, HandlerSeesEnd, SendFails
<1>8. ASSUME NEW k \in Conns, Connect(k)  PROVE AloneSound'
  <2>1. /\ pc = "connect" /\ link' = [link EXCEPT ![k] = "up"]
        /\ handler' = [handler EXCEPT ![k] = "first"]
        /\ crowded' = IF \A j \in Conns : handler[j] = "none" THEN crowded \ {k}
                      ELSE crowded \cup {k}
    BY <1>8 DEF Connect
  <2>2. \A j \in Conns \ {k} : link'[j] # "up"
    BY <2>1, <1>0, OnlyConn, Consts DEF IInv, LinkSound, Types
  <2>3. k \notin crowded' => \A j \in Conns : handler[j] = "none" BY <2>1
  <2>4. handler'[k] = "first" /\ \A j \in Conns \ {k} : handler'[j] = handler[j]
    BY <2>1, <1>0 DEF Types
  <2> QED BY <2>2, <2>3, <2>4 DEF AloneSound, Alone
<1>9. CASE \E busy \in SUBSET Conns : Tick(busy)
  <2>1. UNCHANGED <<handler, registered, crowded, link>> BY <1>9 DEF Tick
  <2> QED BY <2>1, AloneKept
<1>10. CASE ConnectFails
  <2>1. UNCHANGED <<handler, registered, crowded, link>> BY <1>10 DEF ConnectFails, server
  <2> QED BY <2>1, AloneKept
<1>11. CASE ServerRestarts
  <2>1. PICK sign \in {"closed", "dead"} :
           link' = [k \in Conns |-> IF conn # k THEN "free"
                                    ELSE IF link[k] = "up" THEN sign ELSE link[k]]
    BY <1>11 DEF ServerRestarts
  <2>2. \A k \in Conns : link'[k] # "up" BY <2>1
  <2> QED BY <2>2 DEF AloneSound
<1>12. CASE ClientRestarts
  <2>1. PICK sign \in {"closed", "dead"} :
           link' = [link EXCEPT ![conn] = IF handler[conn] = "none" THEN "free"
                                          ELSE IF @ = "up" THEN sign ELSE @]
    BY <1>12 DEF ClientRestarts
  <2>2. UNCHANGED <<handler, registered, crowded>> BY <1>12 DEF ClientRestarts, server
  <2>3. \A k \in Conns : link'[k] = "up" => link[k] = "up" BY <2>1, <1>0 DEF Types
  <2> QED BY <2>2, <2>3, AloneKept
<1>13. CASE UNCHANGED vars
  <2>1. UNCHANGED <<handler, registered, crowded, link>> BY <1>13 DEF vars
  <2> QED BY <2>1, AloneKept
<1> QED BY <1>1, <1>2, <1>3, <1>4, <1>5, <1>6, <1>7, <1>8, <1>9, <1>10, <1>11, <1>12, <1>13
       DEF Next, Prompt

\* One step does not end a live connection unless it is a failure or concerns one that
\* shares the map.
LEMMA LiveStays ==
    ASSUME IInv, AloneSound, Next, NEW k \in Conns, link[k] = "up", conn = k, handler[k] # "none",
           conn' # k \/ handler'[k] = "none"
    PROVE  faults' > faults \/ (k \in crowded /\ registered # k)
<1>0. faults \in Nat /\ handler \in [Conns -> {"none", "first", "loop"}] BY DEF IInv, Types
<1>1. CASE Prompt
  <2>1. CASE Wake BY <2>1 DEF Wake, server
  <2>2. CASE Authenticated BY <2>2 DEF Authenticated, server
  <2>3. CASE SendPing BY <2>3 DEF SendPing, server
  <2>4. CASE AuthTimeout BY <2>4, AuthInTime DEF AuthTimeout
  <2>5. CASE ClientSeesEnd BY <2>5 DEF ClientSeesEnd
  <2>6. CASE \E j \in Conns : ReceiveAuth(j)
    <3>1. PICK j \in Conns : ReceiveAuth(j) BY <2>6
    <3>2. conn' = conn /\ handler' = [handler EXCEPT ![j] = "loop"]
      BY <3>1 DEF ReceiveAuth, client
    <3> QED BY <3>2, <1>0
  <2>7. CASE \E j \in Conns : ReceivePing(j)
    <3>1. conn' = conn /\ handler' = handler BY <2>7 DEF ReceivePing, client
    <3> QED BY <3>1
  <2>8. CASE \E j \in Conns : \/ FirstMessageTimeout(j) \/ HeartbeatCheck(j)
                              \/ ChannelClosed(j) \/ HandlerSeesEnd(j)
    <3>1. PICK j \in Conns : \/ FirstMessageTimeout(j) \/ HeartbeatCheck(j)
                             \/ ChannelClosed(j) \/ HandlerSeesEnd(j)
      BY <2>8
    <3>2. CASE HeartbeatCheck(j) /\ ~HandlerLeaves(j)
      <4>1. conn' = conn /\ handler' = handler BY <3>2 DEF HeartbeatCheck, client
      <4> QED BY <4>1
    <3>3. CASE HandlerLeaves(j)
      <4>1. conn' = conn /\ handler' = [handler EXCEPT ![j] = "none"]
        BY <3>3 DEF HandlerLeaves, client
      <4>2. j = k BY <4>1, <1>0
      <4>3. CASE FirstMessageTimeout(k) BY <4>3, FirstInTime DEF FirstMessageTimeout
      <4>4. CASE HandlerSeesEnd(k) BY <4>4 DEF HandlerSeesEnd
      <4>6. CASE ChannelClosed(k) BY <4>6 DEF ChannelClosed, AloneSound, Alone
      <4>5. CASE HeartbeatCheck(k)
        <5>1. handler[k] = "loop" /\ check[k] <= 0 BY <4>5 DEF HeartbeatCheck
        <5>2. last[k] <= HEARTBEAT_TIMEOUT /\ last[k] \in Nat BY <5>1, PingsInTime DEF IInv, Types
        <5>3. handler' = handler BY <4>5, <5>2, Consts DEF HeartbeatCheck
        <5> QED BY <5>3, <4>1
      <4> QED BY <3>1, <4>2, <4>3, <4>4, <4>5, <4>6
    <3> QED BY <3>1, <3>2, <3>3 DEF FirstMessageTimeout, ChannelClosed, HandlerSeesEnd
  <2> QED BY <1>1, <2>1, <2>2, <2>3, <2>4, <2>5, <2>6, <2>7, <2>8 DEF Prompt
<1>2. CASE \E j \in Conns : Connect(j)
  <2>1. pc = "connect" BY <1>2 DEF Connect
  <2> QED BY <2>1, Consts DEF IInv, LinkSound
<1>3. CASE SendPingFails BY <1>3 DEF SendPingFails
<1>4. CASE \E busy \in SUBSET Conns : Tick(busy)
  <2>1. conn' = conn /\ handler' = handler BY <1>4 DEF Tick
  <2> QED BY <2>1
<1>5. CASE ConnectFails BY <1>5, <1>0 DEF ConnectFails
<1>6. CASE \E j \in Conns : LinkDies(j) BY <1>6, <1>0 DEF LinkDies
<1>7. CASE \E j \in Conns : SendFails(j)
  <2>1. PICK j \in Conns : SendFails(j) BY <1>7
  <2>2. conn' = conn /\ handler' = [handler EXCEPT ![j] = "none"] /\ link[j] = "dead"
    BY <2>1 DEF SendFails, HandlerLeaves, client
  <2>3. j # k BY <2>2
  <2> QED BY <2>2, <2>3, <1>0
<1>8. CASE ServerRestarts \/ ClientRestarts BY <1>8, <1>0 DEF ServerRestarts, ClientRestarts
<1> QED BY <1>1, <1>2, <1>3, <1>4, <1>5, <1>6, <1>7, <1>8 DEF Next

\* Neither the heartbeat check nor a timeout of the authentication ends a
\* connection both ends of which live over a live network, for every latency and
\* stall that NetworkAssumption allows; it takes a fault, or an older handler of the
\* client that was there when the connection was made.
THEOREM LiveKept == Spec => NoFalseTimeout
<1> DEFINE Kept == \A k \in Conns :
                      link[k] = "up" /\ conn = k /\ handler[k] # "none"
                      /\ (conn' # k \/ handler'[k] = "none") =>
                          faults' > faults \/ (k \in crowded /\ registered # k)
<1>1. IInv /\ AloneSound /\ [Next]_vars => [Kept]_vars
  <2> SUFFICES ASSUME IInv, AloneSound, [Next]_vars PROVE [Kept]_vars OBVIOUS
  <2>1. CASE Next BY <2>1, LiveStays
  <2>2. CASE UNCHANGED vars BY <2>2
  <2> QED BY <2>1, <2>2
<1>2. NoFalseTimeout <=> [][Kept]_vars BY DEF NoFalseTimeout
<1> HIDE DEF Kept
<1>3. IInv /\ AloneSound /\ [Next]_vars => AloneSound' BY AloneNext
<1> QED BY <1>1, <1>2, <1>3, AloneInit, Invariance, PTL DEF Spec
=============================================================================
