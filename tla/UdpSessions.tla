----------------------------- MODULE UdpSessions ----------------------------
(***************************************************************************)
(* The UDP sessions of one rule (proxy_listener.rs): a task for each       *)
(* datagram that arrives (handle_udp_packet), the tables sessions (source  *)
(* to connection id) and session_senders (id to the channel of a session), *)
(* a worker for each session (udp_session_worker), and the client's end of *)
(* its work connection (bridge_udp_to_framed).                             *)
(*                                                                         *)
(* A datagram's number is also the connection id of the session its task   *)
(* may open: ids are never used twice (see WorkConn, where the rendezvous  *)
(* with the client is modelled; here it succeeds or fails).  A task that   *)
(* sends into a session's channel holds the read lock of session_senders   *)
(* until there is room; one that has found a session dead holds the write  *)
(* lock of sessions while it waits for that of session_senders.            *)
(***************************************************************************)
EXTENDS Naturals, Sequences

CONSTANTS Sources,     \* addresses of external users
          Packets,     \* how many datagrams arrive at most
          Empty,       \* the numbers of those without data
          Room,        \* capacity of a session's channel
          None         \* no source, no session

ASSUME BoundsAssumption == Packets \in Nat /\ Room \in Nat \ {0}
ASSUME EmptyAssumption == Empty \subseteq 1 .. Packets
ASSUME NoneAssumption == None \notin Sources /\ None \notin Nat

VARIABLES from,        \* the source of a datagram, None before it arrives
          pc,          \* where its task is
          found,       \* the session its task has found for it
          sessions,    \* source -> id
          senders,     \* the ids in session_senders
          chan,        \* the datagrams in a session's channel
          worker,      \* where a session's worker is
          wire,        \* Data frames on their way to the client
          client       \* the client's end: "none", "open" or "gone"

vars == <<from, pc, found, sessions, senders, chan, worker, wire, client>>

Ids == 1 .. Packets

\* look, find, send: looking for a session, for its channel, sending into it;
\* drop_session, drop_sender: removing a session found dead; open .. first:
\* opening a new one; abandon: giving that up.
PcStates == {"none", "look", "find", "send", "drop_session", "drop_sender",
             "open", "request", "wait", "insert", "first", "abandon", "done"}

\* run: in its loop; ended: the loop is left, and the receiver of the channel
\* and the work connection dropped; cleaned: its source's entry is removed.
WorkerStates == {"none", "run", "ended", "cleaned", "gone"}

Init ==
    /\ from     = [p \in Ids |-> None]
    /\ pc       = [p \in Ids |-> "none"]
    /\ found    = [p \in Ids |-> None]
    /\ sessions = [s \in Sources |-> None]
    /\ senders  = {}
    /\ chan     = [i \in Ids |-> <<>>]
    /\ worker   = [i \in Ids |-> "none"]
    /\ wire     = [i \in Ids |-> <<>>]
    /\ client   = [i \in Ids |-> "none"]

\* The locks: who holds one beyond a single step.
SessionsFree == \A p \in Ids : pc[p] # "drop_sender"
SendersUnread == \A p \in Ids : pc[p] # "send"

Goto(p, l) == pc' = [pc EXCEPT ![p] = l] /\ UNCHANGED found
Return(p) == pc' = [pc EXCEPT ![p] = "done"] /\ found' = [found EXCEPT ![p] = None]

-----------------------------------------------------------------------------
(* handle_udp_packet *)

\* recv_from: the datagram's task is spawned.
Arrive(p, s) ==
    /\ pc[p] = "none"
    /\ \A q \in 1 .. p - 1 : pc[q] # "none"
    /\ from' = [from EXCEPT ![p] = s]
    /\ Goto(p, "look")
    /\ UNCHANGED <<sessions, senders, chan, worker, wire, client>>

\* Mutant: sessions are kept by IP address, which two sources share.
LookUpByHost(p) ==
    /\ pc[p] = "look"
    /\ SessionsFree
    /\ \E s \in Sources :
          /\ sessions[s] = None => \A t \in Sources : sessions[t] = None
          /\ found' = [found EXCEPT ![p] = sessions[s]]
          /\ pc' = [pc EXCEPT ![p] = IF sessions[s] = None THEN "open" ELSE "find"]
    /\ UNCHANGED <<from, sessions, senders, chan, worker, wire, client>>

LookUp(p) ==
    /\ pc[p] = "look"
    /\ SessionsFree
    /\ found' = [found EXCEPT ![p] = sessions[from[p]]]
    /\ pc' = [pc EXCEPT ![p] = IF sessions[from[p]] = None THEN "open" ELSE "find"]
    /\ UNCHANGED <<from, sessions, senders, chan, worker, wire, client>>

\* The read lock of session_senders is taken, and kept if there is a channel;
\* without one (the session is being opened, or cleaned up) the datagram is
\* dropped.
FindSender(p) ==
    /\ pc[p] = "find"
    /\ IF found[p] \in senders THEN Goto(p, "send") ELSE Return(p)
    /\ UNCHANGED <<from, sessions, senders, chan, worker, wire, client>>

\* The receiver is with the task that opens the session, then with its worker.
ReceiverAlive(i) == pc[i] = "first" \/ worker[i] = "run"

\* Mutant: a dead channel is awaited like a full one.
SendWaits(p) ==
    /\ pc[p] = "send"
    /\ ReceiverAlive(found[p])
    /\ Len(chan[found[p]]) < Room
    /\ chan' = [chan EXCEPT ![found[p]] = Append(@, p)]
    /\ Return(p)
    /\ UNCHANGED <<from, sessions, senders, worker, wire, client>>

\* Mutant: the channel takes any number of datagrams.
SendUnbounded(p) ==
    /\ pc[p] = "send"
    /\ chan' = [chan EXCEPT ![found[p]] = Append(@, p)]
    /\ Return(p)
    /\ UNCHANGED <<from, sessions, senders, worker, wire, client>>

\* tx.send(data).await.
Send(p) ==
    /\ pc[p] = "send"
    /\ \/ /\ ReceiverAlive(found[p])
          /\ Len(chan[found[p]]) < Room
          /\ chan' = [chan EXCEPT ![found[p]] = Append(@, p)]
          /\ Return(p)
       \/ /\ ~ReceiverAlive(found[p])
          /\ Goto(p, "drop_session")
          /\ UNCHANGED chan
    /\ UNCHANGED <<from, sessions, senders, worker, wire, client>>

\* The source's entry is removed, whichever session it names by now.
RemoveEntry(p) ==
    /\ SessionsFree
    /\ sessions' = [sessions EXCEPT ![from[p]] = None]
    /\ UNCHANGED <<from, senders, chan, worker, wire, client>>

DropSession(p) ==
    /\ pc[p] = "drop_session"
    /\ RemoveEntry(p)
    /\ Goto(p, "drop_sender")

\* Mutant: every sender of the source is removed.
DropSendersOfSource(p) ==
    /\ pc[p] = "drop_sender"
    /\ SendersUnread
    /\ senders' = {i \in senders : from[i] # from[p]}
    /\ Return(p)
    /\ UNCHANGED <<from, sessions, chan, worker, wire, client>>

\* The write lock of sessions is held until here.
DropSender(p) ==
    /\ pc[p] = "drop_sender"
    /\ SendersUnread
    /\ senders' = senders \ {found[p]}
    /\ Return(p)
    /\ UNCHANGED <<from, sessions, chan, worker, wire, client>>

\* A new session: its id is the source's, whatever it had before.
OpenSession(p) ==
    /\ pc[p] = "open"
    /\ SessionsFree
    /\ sessions' = [sessions EXCEPT ![from[p]] = p]
    /\ Goto(p, "request")
    /\ UNCHANGED <<from, senders, chan, worker, wire, client>>

\* send_to: the client is asked for a work connection, or has no session.
Request(p) ==
    /\ pc[p] = "request"
    /\ Goto(p, "wait") \/ Goto(p, "abandon")
    /\ UNCHANGED <<from, sessions, senders, chan, worker, wire, client>>

\* The work connection comes, and the client's end runs already.
Connected(p) ==
    /\ pc[p] = "wait"
    /\ client' = [client EXCEPT ![p] = "open"]
    /\ Goto(p, "insert")
    /\ UNCHANGED <<from, sessions, senders, chan, worker, wire>>

\* 30 s are over.
TimesOut(p) ==
    /\ pc[p] = "wait"
    /\ Goto(p, "abandon")
    /\ UNCHANGED <<from, sessions, senders, chan, worker, wire, client>>

\* Mutant: only pending_work_conns is cleaned up.
AbandonKeeps(p) ==
    /\ pc[p] = "abandon"
    /\ Return(p)
    /\ UNCHANGED <<from, sessions, senders, chan, worker, wire, client>>

Abandon(p) ==
    /\ pc[p] = "abandon"
    /\ RemoveEntry(p)
    /\ Return(p)

InsertSender(p) ==
    /\ pc[p] = "insert"
    /\ SendersUnread
    /\ senders' = senders \cup {p}
    /\ Goto(p, "first")
    /\ UNCHANGED <<from, sessions, chan, worker, wire, client>>

\* The first datagram is sent into the channel, and only then is the worker
\* spawned that receives from it.
SendFirst(p) ==
    /\ pc[p] = "first"
    /\ Len(chan[p]) < Room
    /\ chan' = [chan EXCEPT ![p] = Append(@, p)]
    /\ worker' = [worker EXCEPT ![p] = "run"]
    /\ Return(p)
    /\ UNCHANGED <<from, sessions, senders, wire, client>>

Handle(p) ==
    \/ LookUp(p) \/ FindSender(p) \/ Send(p) \/ DropSession(p) \/ DropSender(p)
    \/ OpenSession(p) \/ Request(p) \/ Connected(p) \/ TimesOut(p) \/ Abandon(p)
    \/ InsertSender(p) \/ SendFirst(p)

-----------------------------------------------------------------------------
(* udp_session_worker, and the end of the task it runs in *)

\* A datagram goes from the channel into a frame; to a client that is gone, it
\* is lost.  (The branch for a closed channel is never taken: WorkersReachable.)
Forward(i) ==
    /\ worker[i] = "run"
    /\ chan[i] # <<>>
    /\ chan' = [chan EXCEPT ![i] = Tail(@)]
    /\ wire' = [wire EXCEPT ![i] = IF client[i] = "open" THEN Append(@, Head(chan[i])) ELSE @]
    /\ UNCHANGED <<from, pc, found, sessions, senders, worker, client>>

\* The loop is left: what the channel holds is dropped, and so is the work
\* connection.  The client's end reads what is left of it and ends as well,
\* which nobody waits for: here it is gone at once.
LeaveWorker(i) ==
    /\ worker[i] = "run"
    /\ worker' = [worker EXCEPT ![i] = "ended"]
    /\ chan' = [chan EXCEPT ![i] = <<>>]
    /\ client' = [client EXCEPT ![i] = "gone"]
    /\ wire' = [wire EXCEPT ![i] = <<>>]
    /\ UNCHANGED <<from, pc, found, sessions, senders>>

\* Mutant: a closed work connection is read again and again.
WireEndsIgnored(i) == FALSE /\ UNCHANGED vars

\* framed.next or framed.send finds that the client is gone.
WireEnds(i) == client[i] = "gone" /\ LeaveWorker(i)

\* A reply without data, a reply that cannot be sent to the user, a broken
\* work connection.  (Other replies go to the user and change nothing here.)
WorkerFails(i) == client[i] = "open" /\ LeaveWorker(i)

CleanSession(i) ==
    /\ worker[i] = "ended"
    /\ SessionsFree
    /\ sessions' = [sessions EXCEPT ![from[i]] = None]
    /\ worker' = [worker EXCEPT ![i] = "cleaned"]
    /\ UNCHANGED <<from, pc, found, senders, chan, wire, client>>

CleanSender(i) ==
    /\ worker[i] = "cleaned"
    /\ SendersUnread
    /\ senders' = senders \ {i}
    /\ worker' = [worker EXCEPT ![i] = "gone"]
    /\ UNCHANGED <<from, pc, found, sessions, chan, wire, client>>

Work(i) == Forward(i) \/ WireEnds(i) \/ CleanSession(i) \/ CleanSender(i)

-----------------------------------------------------------------------------
(* bridge_udp_to_framed *)

LeaveClient(i) ==
    /\ client' = [client EXCEPT ![i] = "gone"]
    /\ wire' = [wire EXCEPT ![i] = <<>>]
    /\ UNCHANGED <<from, pc, found, sessions, senders, chan, worker>>

\* A frame is sent on to the local service; one without data means that the
\* server has closed the session.
ClientReceive(i) ==
    /\ client[i] = "open"
    /\ wire[i] # <<>>
    /\ \/ /\ Head(wire[i]) \in Empty
          /\ LeaveClient(i)
       \/ /\ Head(wire[i]) \notin Empty
          /\ wire' = [wire EXCEPT ![i] = Tail(@)]
          /\ UNCHANGED <<from, pc, found, sessions, senders, chan, worker, client>>

\* bind, connect, send or recv on the local socket fails, or the work
\* connection breaks.
ClientFails(i) ==
    /\ client[i] = "open"
    /\ LeaveClient(i)

Next ==
    \/ \E p \in Ids, s \in Sources : Arrive(p, s)
    \/ \E p \in Ids : Handle(p)
    \/ \E i \in Ids : Work(i) \/ WorkerFails(i)
    \/ \E i \in Ids : ClientReceive(i) \/ ClientFails(i)

Spec == Init /\ [][Next]_vars

\* Both kinds of tasks are tokio tasks and run whenever they can, tokio's locks
\* are fair, and framed.send ends (its buffers are the subject of Bridge).
\* Nothing is assumed of the client.
FairSpec == Spec /\ \A p \in Ids : WF_vars(Handle(p)) /\ WF_vars(Work(p))

-----------------------------------------------------------------------------
(* Properties *)

\* Tasks and workers are in states the code has, tables name what exists, and
\* a session's channel never holds more than its capacity.
TypeOK ==
    /\ from \in [Ids -> Sources \cup {None}]
    /\ pc \in [Ids -> PcStates]
    /\ found \in [Ids -> Ids \cup {None}]
    /\ sessions \in [Sources -> Ids \cup {None}]
    /\ senders \subseteq Ids
    /\ chan \in [Ids -> Seq(Ids)] /\ \A i \in Ids : Len(chan[i]) <= Room
    /\ worker \in [Ids -> WorkerStates]
    /\ wire \in [Ids -> Seq(Ids)]
    /\ client \in [Ids -> {"none", "open", "gone"}]

\* A session carries the datagrams of one source only, in its channel and on to
\* the client, so that its worker sends the replies to whom they are for.
OneSourcePerSession ==
    \A i \in Ids : \A q \in {chan[i], wire[i]} :
        \A n \in DOMAIN q : from[q[n]] = from[i]

\* The session that a source's entry names is being opened, or has a worker
\* that has yet to remove the entry: no source is left with an entry nobody
\* will remove, its datagrams dropped for ever.
EntriesAlive ==
    \A s \in Sources : sessions[s] # None =>
        LET i == sessions[s]
        IN  /\ from[i] = s
            /\ \/ pc[i] \in {"request", "wait", "insert", "first", "abandon"}
               \/ worker[i] \in {"run", "ended"}

\* A running worker has its sender in the table, whatever tasks that found
\* other sessions dead have removed; and no sender outlives its session.
WorkersReachable ==
    /\ \A i \in Ids : worker[i] = "run" => i \in senders
    /\ \A i \in senders : pc[i] = "first" \/ worker[i] \in {"run", "ended", "cleaned"}

\* The channel of a session filled up before the task that opens it has sent
\* its own datagram and spawned the worker that would empty it.
FullBeforeFirst == \E i \in Ids : pc[i] = "first" /\ Len(chan[i]) = Room

\* The task of every datagram ends, however channels fill up and whoever holds
\* which lock, unless a channel is full before its session has a worker.
TasksEnd ==
    \A p \in Ids : pc[p] = "look" ~> pc[p] = "done" \/ FullBeforeFirst

\* When the client's end of a session is gone, so is soon all the server kept
\* of it (with the same exception), and its source can open a new one.
SessionsEnd ==
    \A i \in Ids :
        client[i] = "gone" ~>
            \/ FullBeforeFirst
            \/ worker[i] = "gone" /\ i \notin senders /\ \A s \in Sources : sessions[s] # i

\* "A connection id is allotted to each external UDP source, and belongs to
\* one work connection": a source never has two sessions at once.
OneSessionPerSource ==
    \A i, j \in Ids :
        worker[i] = "run" /\ worker[j] = "run" /\ from[i] = from[j] => i = j
=============================================================================
