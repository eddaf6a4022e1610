------------------------------ MODULE WorkConn ------------------------------
(***************************************************************************)
(* The rendezvous between an external user and a work connection.          *)
(*                                                                         *)
(* The server accepts a user, takes the next connection id, asks the       *)
(* client over the control connection for a work connection with that id   *)
(* (NewWorkConn), and waits 30 seconds on a oneshot channel whose sender    *)
(* sits in pending_work_conns under the id.  The client opens a fresh TLS  *)
(* connection to the tunnel port and announces it (NewWorkConnResp); the   *)
(* tunnel's dispatcher hands it to whoever waits under the id.             *)
(*                                                                         *)
(* A work connection is named by the user connection whose request made    *)
(* the client open it; it only carries the id, connId[c], and the code     *)
(* only ever compares ids.  Every step between two awaits of the code is   *)
(* an action; the lock of pending_work_conns is held across no await, so   *)
(* what happens under it is one action.                                    *)
(***************************************************************************)
EXTENDS Naturals, Sequences

CONSTANTS Conns,        \* connections of external users
          UdpConns,     \* those that are UDP sources; the others are streams
          MaxConnId,    \* bound on the ids one incarnation of the server uses
          MaxRestarts,  \* bound on restarts of the server
          None          \* no connection

ASSUME ConnsAssumption == UdpConns \subseteq Conns /\ None \notin Conns
ASSUME BoundsAssumption == MaxConnId \in Nat /\ MaxRestarts \in Nat

VARIABLES nextId,       \* CONN_ID_COUNTER
          boot,         \* the incarnation of the server process
          pc,           \* where the handler of a user connection is
          connId,       \* the id it took (0: none)
          born,         \* the incarnation of the server that accepted it
          pending,      \* pending_work_conns: id -> the handler that waits
          slot,         \* what the handler's oneshot delivered, or holds
          session,      \* the client's control session, as the server sees it
          queue,        \* requests queued for the client or on the wire to it
          work          \* the work connection opened for a user connection

vars == <<nextId, boot, pc, connId, born, pending, slot, session, queue, work>>

ConnIds == 1 .. MaxConnId

\* Mutant: streams ask first, too.
RegistersLate(c) == FALSE

\* handle_stream_proxy_conn puts its oneshot into pending before it sends the
\* request, handle_udp_packet after.
RegistersFirst(c) == c \notin UdpConns

\* handle_stream_proxy_conn: allocated, inserted, then waiting or unsent.
\* handle_udp_packet: allocated, sent, then waiting (it registers the oneshot
\* after it has sent the request).
\* deadline: the 30 s timer fired, the receiver is still alive; expired: the
\* receiver is dropped, the entry in pending is not removed yet.
PcStates == {"idle", "allocated", "inserted", "unsent", "sent", "waiting",
             "deadline", "expired", "bridged", "closed", "failed"}

\* none: not asked for; opening: the client's task connects; announced: TLS
\* is up and NewWorkConnResp sent; matched: handed to a handler; ended: its
\* bridge is over; dropped: closed by the server; lost: never reached it.
WorkStates == {"none", "opening", "announced", "matched", "ended", "dropped", "lost"}

\* c is a handler that still owns the receiving end of its oneshot.
ReceiverAlive(c) == c \in Conns /\ pc[c] \in {"inserted", "unsent", "waiting", "deadline"}

\* Mutant: the counter starts at 0.
InitFromZero ==
    /\ nextId = 0 /\ boot = 0 /\ session = "offline" /\ queue = <<>>
    /\ pc      = [c \in Conns |-> "idle"]
    /\ connId  = [c \in Conns |-> 0]
    /\ born    = [c \in Conns |-> 0]
    /\ pending = [i \in ConnIds |-> None]
    /\ slot    = [c \in Conns |-> None]
    /\ work    = [c \in Conns |-> "none"]

Init ==
    /\ nextId  = 1
    /\ boot    = 0
    /\ pc      = [c \in Conns |-> "idle"]
    /\ connId  = [c \in Conns |-> 0]
    /\ born    = [c \in Conns |-> 0]
    /\ pending = [i \in ConnIds |-> None]
    /\ slot    = [c \in Conns |-> None]
    /\ session = "offline"
    /\ queue   = <<>>
    /\ work    = [c \in Conns |-> "none"]

-----------------------------------------------------------------------------
(* The handler of a user connection *)

\* Mutant: the counter is read but not advanced.
AllocateStale(c) ==
    /\ pc[c] = "idle"
    /\ nextId \in ConnIds
    /\ connId' = [connId EXCEPT ![c] = nextId]
    /\ born' = [born EXCEPT ![c] = boot]
    /\ pc' = [pc EXCEPT ![c] = "allocated"]
    /\ UNCHANGED <<nextId, boot, pending, slot, session, queue, work>>

\* CONN_ID_COUNTER.fetch_add(1), the first step of both handlers.
Allocate(c) ==
    /\ pc[c] = "idle"
    /\ nextId \in ConnIds
    /\ connId' = [connId EXCEPT ![c] = nextId]
    /\ born' = [born EXCEPT ![c] = boot]
    /\ nextId' = nextId + 1
    /\ pc' = [pc EXCEPT ![c] = "allocated"]
    /\ UNCHANGED <<boot, pending, slot, session, queue, work>>

\* Streams register the oneshot first, UDP sources after the request is sent.
InsertPending(c) ==
    /\ \/ /\ RegistersFirst(c)
          /\ pc[c] = "allocated"
          /\ pc' = [pc EXCEPT ![c] = "inserted"]
       \/ /\ ~RegistersFirst(c)
          /\ pc[c] = "sent"
          /\ pc' = [pc EXCEPT ![c] = "waiting"]
    /\ pending' = [pending EXCEPT ![connId[c]] = c]
    /\ UNCHANGED <<nextId, boot, connId, born, slot, session, queue, work>>

\* session_manager.send_to(client_id, NewWorkConn).  It succeeds whenever a
\* session is registered, also one whose handler has already left its loop.
SendTo(c) ==
    /\ pc[c] = IF RegistersFirst(c) THEN "inserted" ELSE "allocated"
    /\ \/ /\ session # "offline"
          /\ queue' = Append(queue, c)
          /\ pc' = [pc EXCEPT ![c] = IF RegistersFirst(c) THEN "waiting" ELSE "sent"]
       \/ /\ session = "offline"
          /\ pc' = [pc EXCEPT ![c] = IF RegistersFirst(c) THEN "unsent" ELSE "failed"]
          /\ UNCHANGED queue
    /\ UNCHANGED <<nextId, boot, connId, born, pending, slot, session, work>>

\* timeout(30 s, rx) = Ok(Ok(framed)): the handler takes the work connection,
\* reports the connection and spawns the bridge (or the UDP session worker).
Receive(c) ==
    /\ pc[c] = "waiting"
    /\ slot[c] # None
    /\ pc' = [pc EXCEPT ![c] = "bridged"]
    /\ UNCHANGED <<nextId, boot, connId, born, pending, slot, session, queue, work>>

\* Mutant: the handler waits without a timeout.
NoDeadline(c) == FALSE /\ UNCHANGED vars

\* The timer fires: Timeout::poll has found the oneshot empty.
Deadline(c) ==
    /\ pc[c] = "waiting"
    /\ slot[c] = None
    /\ pc' = [pc EXCEPT ![c] = "deadline"]
    /\ UNCHANGED <<nextId, boot, connId, born, pending, slot, session, queue, work>>

\* The work connections closed when the handler drops its receiver.
Discard(c) == [w \in Conns |-> IF slot[c] = w THEN "dropped" ELSE work[w]]

\* The future and the receiver in it are dropped; a work connection that came
\* in after the timer was polled goes with them.
DropReceiver(c) ==
    /\ pc[c] = "deadline"
    /\ pc' = [pc EXCEPT ![c] = "expired"]
    /\ slot' = [slot EXCEPT ![c] = None]
    /\ work' = Discard(c)
    /\ UNCHANGED <<nextId, boot, connId, born, pending, session, queue>>

\* Mutant: the entry in pending is left behind.
GiveUpLeaks(c) ==
    /\ pc[c] \in {"expired", "unsent"}
    /\ pc' = [pc EXCEPT ![c] = "failed"]
    /\ slot' = [slot EXCEPT ![c] = None]
    /\ work' = Discard(c)
    /\ UNCHANGED <<nextId, boot, connId, born, pending, session, queue>>

\* pending.remove(&conn_id) and bail!, after a timeout or a failed send_to.
GiveUp(c) ==
    /\ pc[c] \in {"expired", "unsent"}
    /\ pending' = [pending EXCEPT ![connId[c]] = None]
    /\ pc' = [pc EXCEPT ![c] = "failed"]
    /\ slot' = [slot EXCEPT ![c] = None]
    /\ work' = Discard(c)
    /\ UNCHANGED <<nextId, boot, connId, born, session, queue>>

\* The bridge ends: either side closed, a read or a write failed.
EndBridge(c) ==
    /\ pc[c] = "bridged"
    /\ pc' = [pc EXCEPT ![c] = "closed"]
    /\ work' = [work EXCEPT ![slot[c]] = "ended"]
    /\ UNCHANGED <<nextId, boot, connId, born, pending, slot, session, queue>>

-----------------------------------------------------------------------------
(* The client and the tunnel dispatcher *)

\* The client's loop reads a NewWorkConn.  It opens a work connection if it
\* knows the rule; if it does not, the spawned task returns without a word.
ClientReceive ==
    /\ queue # <<>>
    /\ queue' = Tail(queue)
    /\ \/ work' = [work EXCEPT ![Head(queue)] = "opening"]
       \/ work' = [work EXCEPT ![Head(queue)] = "lost"]
    /\ UNCHANGED <<nextId, boot, pc, connId, born, pending, slot, session>>

\* open_work_connection: the TLS connection is up, NewWorkConnResp is sent.
Announce(w) ==
    /\ work[w] = "opening"
    /\ work' = [work EXCEPT ![w] = "announced"]
    /\ UNCHANGED <<nextId, boot, pc, connId, born, pending, slot, session, queue>>

\* The connection fails, or its first message does not come within 10 s.
OpenFails(w) ==
    /\ work[w] = "opening"
    /\ work' = [work EXCEPT ![w] = "lost"]
    /\ UNCHANGED <<nextId, boot, pc, connId, born, pending, slot, session, queue>>

\* Mutant: the sender is taken out of the table and not used.
RegisterDropsSender(w) ==
    /\ work[w] = "announced"
    /\ pending' = [pending EXCEPT ![connId[w]] = None]
    /\ work' = [work EXCEPT ![w] = "dropped"]
    /\ UNCHANGED <<nextId, boot, pc, connId, born, slot, session, queue>>

\* Mutant: any waiting handler gets the work connection, whatever its id.
RegisterAny(w) ==
    /\ work[w] = "announced"
    /\ \E i \in ConnIds :
          /\ ReceiverAlive(pending[i])
          /\ slot' = [slot EXCEPT ![pending[i]] = w]
          /\ pending' = [pending EXCEPT ![i] = None]
    /\ work' = [work EXCEPT ![w] = "matched"]
    /\ UNCHANGED <<nextId, boot, pc, connId, born, session, queue>>

\* register_work_conn: take the sender out of pending and send through it.
RegisterWorkConn(w) ==
    LET id == connId[w]
        c  == pending[id]
    IN  /\ work[w] = "announced"
        /\ \/ /\ c # None
              /\ ReceiverAlive(c)
              /\ slot' = [slot EXCEPT ![c] = w]
              /\ work' = [work EXCEPT ![w] = "matched"]
           \/ /\ ~ReceiverAlive(c)
              /\ work' = [work EXCEPT ![w] = "dropped"]
              /\ UNCHANGED slot
        /\ pending' = [pending EXCEPT ![id] = None]
        /\ UNCHANGED <<nextId, boot, pc, connId, born, session, queue>>

-----------------------------------------------------------------------------
(* The control session (module ClientSessions has it in detail) and crashes *)

\* A client authenticates and its session is registered.
SessionUp ==
    /\ session = "offline"
    /\ session' = "online"
    /\ UNCHANGED <<nextId, boot, pc, connId, born, pending, slot, queue, work>>

\* The session's handler leaves its loop: nothing drains the queue any more,
\* but the session is still registered.
SessionLeaves ==
    /\ session = "online"
    /\ session' = "leaving"
    /\ UNCHANGED <<nextId, boot, pc, connId, born, pending, slot, queue, work>>

\* unregister, and the queue is dropped with what it still holds.
SessionDown ==
    /\ session = "leaving"
    /\ session' = "offline"
    /\ queue' = <<>>
    /\ UNCHANGED <<nextId, boot, pc, connId, born, pending, slot, work>>

\* The server process dies and starts again.  All its state is in memory and
\* the ids start at 1; a client task that is still connecting reaches the
\* new process.
Restart ==
    /\ boot < MaxRestarts
    /\ boot' = boot + 1
    /\ nextId' = 1
    /\ pc' = [c \in Conns |-> CASE pc[c] \in {"idle", "closed", "failed"} -> pc[c]
                                [] pc[c] = "bridged"                      -> "closed"
                                [] OTHER                                  -> "failed"]
    /\ pending' = [i \in ConnIds |-> None]
    /\ slot' = [c \in Conns |-> IF pc[c] \in {"bridged", "closed"} THEN slot[c] ELSE None]
    /\ session' = "offline"
    /\ queue' = <<>>
    /\ work' = [w \in Conns |-> CASE work[w] = "announced" -> "dropped"
                                  [] work[w] = "matched"   -> "ended"
                                  [] OTHER                 -> work[w]]
    /\ UNCHANGED <<connId, born>>

HandlerStep(c) ==
    \/ InsertPending(c) \/ SendTo(c) \/ Receive(c) \/ Deadline(c)
    \/ DropReceiver(c) \/ GiveUp(c)

Next ==
    \/ \E c \in Conns :
          \/ Allocate(c) \/ HandlerStep(c) \/ EndBridge(c)
          \/ Announce(c) \/ OpenFails(c) \/ RegisterWorkConn(c)
    \/ ClientReceive
    \/ SessionUp \/ SessionLeaves \/ SessionDown
    \/ Restart

Spec == Init /\ [][Next]_vars

\* A handler is a tokio task: once accepted it runs, and its 30 s timer fires.
FairSpec == Spec /\ \A c \in Conns : WF_vars(HandlerStep(c))

-----------------------------------------------------------------------------
(* Properties *)

\* The counter, the table of waiting oneshots, the queue of requests and the
\* states of handlers and work connections are what their types allow; in
\* particular no handler ever has the id 0.
TypeOK ==
    /\ nextId \in 1 .. (MaxConnId + 1)
    /\ boot \in 0 .. MaxRestarts
    /\ pc \in [Conns -> PcStates]
    /\ connId \in [Conns -> 0 .. MaxConnId]
    /\ born \in [Conns -> 0 .. MaxRestarts]
    /\ pending \in [ConnIds -> Conns \cup {None}]
    /\ slot \in [Conns -> Conns \cup {None}]
    /\ session \in {"offline", "online", "leaving"}
    /\ queue \in Seq(Conns)
    /\ work \in [Conns -> WorkStates]

\* A handler is only ever given a work connection that was opened for its own
\* connection id, and, unless a restart of the server came in between, for
\* the very user it serves (register_work_conn looks at the id alone).
OwnWorkConn ==
    \A c \in Conns : slot[c] # None =>
        /\ connId[slot[c]] = connId[c]
        /\ slot[c] = c \/ born[slot[c]] < born[c]

\* No work connection is handed to two handlers.
WorkConnServesOne ==
    \A c, d \in Conns : slot[c] # None /\ slot[c] = slot[d] => c = d

\* pending_work_conns leaks nothing: every entry belongs to a handler that
\* has not finished, sits under that handler's id, and its oneshot is empty.
PendingSound ==
    \A i \in ConnIds : pending[i] # None =>
        LET c == pending[i]
        IN  /\ connId[c] = i
            /\ pc[c] \in {"inserted", "unsent", "waiting", "deadline", "expired"}
            /\ slot[c] = None

\* A waiting handler can still be answered: its sender is in the table or has
\* been used.  So the arm Ok(Err(_)), "channel closed", is never taken.
WaiterReachable ==
    \A c \in Conns : pc[c] \in {"inserted", "waiting"} =>
        slot[c] # None \/ pending[connId[c]] = c

\* A stream's answer is never turned away while its handler waits: the oneshot
\* is in the table before the request leaves.  (handle_udp_packet sends first,
\* so a fast client's answer can be dropped and the source waits 30 s.)
AnswerNotLost ==
    \A c \in Conns \ UdpConns : work[c] = "dropped" =>
        \/ pc[c] \in {"deadline", "expired", "failed"}
        \/ slot[c] \notin {c, None}

\* Every accepted connection is bridged or refused in the end, whatever the
\* client does, provided that send_to returns (see ClientSessions).
Settles ==
    \A c \in Conns : pc[c] = "allocated" ~> pc[c] \in {"bridged", "closed", "failed"}

-----------------------------------------------------------------------------
(* The strengthening that makes the invariants inductive *)

\* Handlers between their first step and their last.
Active(c) == pc[c] \notin {"idle", "closed", "failed"}
\* Handlers that have not yet asked the client for a work connection.
NotAsked(c) == pc[c] \in {"idle", "allocated", "inserted", "unsent"}

\* Ids are taken once per incarnation, and only the present incarnation has
\* handlers under way.
IdsSound ==
    /\ \A c \in Conns : pc[c] # "idle" => connId[c] \in ConnIds /\ born[c] \leq boot
    /\ \A c \in Conns : Active(c) => born[c] = boot
    /\ \A c \in Conns : pc[c] # "idle" /\ born[c] = boot => connId[c] < nextId
    /\ \A c, d \in Conns : /\ pc[c] # "idle" /\ pc[d] # "idle"
                           /\ born[c] = born[d] /\ connId[c] = connId[d]
                           => c = d

\* The client is asked at most once for each user connection.
RequestsSound ==
    /\ \A i \in 1 .. Len(queue) : work[queue[i]] = "none" /\ ~NotAsked(queue[i])
    /\ \A i, j \in 1 .. Len(queue) : queue[i] = queue[j] => i = j
    /\ \A c \in Conns : NotAsked(c) => work[c] = "none"
    /\ \A c \in Conns : pc[c] = "sent" => ~RegistersFirst(c)

\* Which handlers hold a work connection, and in which state it then is.
SlotsSound ==
    /\ \A c \in Conns : pc[c] \in {"idle", "allocated", "sent", "expired", "failed"} => slot[c] = None
    /\ \A c \in Conns : pc[c] \in {"bridged", "closed"} => slot[c] # None
    /\ \A c \in Conns : slot[c] # None =>
          work[slot[c]] = IF pc[c] = "closed" THEN "ended" ELSE "matched"

IInv == /\ TypeOK /\ IdsSound /\ RequestsSound /\ SlotsSound
        /\ OwnWorkConn /\ WorkConnServesOne /\ PendingSound /\ WaiterReachable /\ AnswerNotLost

\* The handlers implement the promise of Rendezvous.
R == INSTANCE Rendezvous WITH
        status  <- [c \in Conns |->
                      CASE pc[c] = "idle"    -> "idle"
                        [] pc[c] = "bridged" -> "served"
                        [] pc[c] = "closed"  -> "closed"
                        [] pc[c] = "failed"  -> "refused"
                        [] OTHER             -> "open"],
        partner <- [c \in Conns |-> IF pc[c] \in {"bridged", "closed"} THEN slot[c] ELSE None],
        gen     <- born,
        boot    <- boot
RendezvousSpec == R!Spec
=============================================================================
