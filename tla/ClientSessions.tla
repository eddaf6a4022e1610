--------------------------- MODULE ClientSessions ---------------------------
(***************************************************************************)
(* The session manager of the server (client_session.rs): the map from     *)
(* client ids to the sending ends of bounded channels, its RwLock, the     *)
(* handlers of the clients' control connections, the tasks that call       *)
(* send_to, and the list of online clients the web panel shows.            *)
(*                                                                         *)
(* Handlers and tasks run concurrently.  send_to keeps the read lock while *)
(* it waits for room in the channel, register keeps the write lock while   *)
(* it pings the session it replaces; every other use of the lock holds it  *)
(* across no await and is one action.  What a message says does not matter *)
(* here: a channel is the number of messages in it.                        *)
(***************************************************************************)
EXTENDS Naturals, FiniteSets

CONSTANTS Clients,     \* client ids
          Handlers,    \* control connections, each with its handler task
          ClientOf,    \* the client a connection authenticates as
          Senders,     \* tasks that call send_to once each
          SendsTo,     \* the client a task has a message for
          Capacity,    \* room in a session's channel (256)
          None         \* no handler

ASSUME HandlersAssumption == ClientOf \in [Handlers -> Clients] /\ None \notin Handlers
ASSUME SendersAssumption == SendsTo \in [Senders -> Clients]
ASSUME CapacityAssumption == Capacity \in Nat \ {0}

VARIABLES inner,       \* the session map: client id -> handler that owns the channel
          writer,      \* the handler that holds the write lock across an await
          readers,     \* the senders that hold the read lock across an await
          pc,          \* where a handler is
          old,         \* the session a registering handler replaces
          chan,        \* messages in a handler's channel
          snap,        \* the clients a handler read off the map
          task,        \* where a sender is
          target,      \* the handler whose channel a sender waits for
          online,      \* AppState.connected_clients
          crossed      \* history: handlers that set the list while another was
                       \* between reading and setting it

vars == <<inner, writer, readers, pc, old, chan, snap, task, target, online, crossed>>

\* idle: not connected; start: authenticated, registers next; pinging: holds
\* the write lock and pings the old session; list, publish: reads the map and
\* sets the online list; push: sends the client its rules; loop: the select
\* loop; sending: in framed.send; leave: left the loop; unlist, unpublish:
\* the list again; done: returned, its channel dropped.
HandlerStates == {"idle", "start", "pinging", "list", "publish", "push", "loop",
                  "sending", "leave", "unlist", "unpublish", "done"}

\* The clients in the session map.
connected_clients == {c \in Clients : inner[c] # None}

\* The lock can be had for reading.
Readable == writer = None

\* A handler waits for the lock for writing; tokio's lock is fair, so from the
\* moment it waits those that come to read wait behind it.
WriterWaits == \E h \in Handlers : pc[h] \in {"start", "leave"}

\* Mutant: writers do not wait for readers.
WritableBesideReaders == writer = None

\* The lock can be had for writing.
Writable == writer = None /\ readers = {}

\* Some sending end of h's channel is left: in the map, or in the hands of the
\* handler that is replacing h.
HasSender(h) ==
    \/ inner[ClientOf[h]] = h
    \/ \E k \in Handlers : pc[k] = "pinging" /\ old[k] = h

Init ==
    /\ inner   = [c \in Clients |-> None]
    /\ writer  = None
    /\ readers = {}
    /\ pc      = [h \in Handlers |-> "idle"]
    /\ old     = [h \in Handlers |-> None]
    /\ chan    = [h \in Handlers |-> 0]
    /\ snap    = [h \in Handlers |-> {}]
    /\ task    = [s \in Senders |-> "idle"]
    /\ target  = [s \in Senders |-> None]
    /\ online  = {}
    /\ crossed = {}

Goto(h, state) == pc' = [pc EXCEPT ![h] = state]

-----------------------------------------------------------------------------
(* A handler, handle_client_with_auth *)

\* The dispatcher read Auth: the id, the token and the answer are all right,
\* or the handler returns.
Authenticate(h) ==
    /\ pc[h] = "idle"
    /\ Goto(h, "start") \/ Goto(h, "done")
    /\ UNCHANGED <<inner, writer, readers, old, chan, snap, task, target, online, crossed>>

\* register: under the write lock, a session that is there is taken out and
\* pinged, with the lock held; the new one goes in.
Register(h) ==
    LET c == ClientOf[h]
    IN  /\ pc[h] = "start"
        /\ Writable
        /\ \/ /\ inner[c] = None
              /\ inner' = [inner EXCEPT ![c] = h]
              /\ Goto(h, "list")
              /\ UNCHANGED <<writer, old>>
           \/ /\ inner[c] # None
              /\ inner' = [inner EXCEPT ![c] = None]
              /\ old' = [old EXCEPT ![h] = inner[c]]
              /\ writer' = h
              /\ Goto(h, "pinging")
        /\ UNCHANGED <<readers, chan, snap, task, target, online, crossed>>

\* old.tx.send(Ping) has found room; old is dropped, the new session goes in.
Replace(h) ==
    /\ pc[h] = "pinging"
    /\ chan[old[h]] < Capacity
    /\ chan' = [chan EXCEPT ![old[h]] = @ + 1]
    /\ inner' = [inner EXCEPT ![ClientOf[h]] = h]
    /\ old' = [old EXCEPT ![h] = None]
    /\ writer' = None
    /\ Goto(h, "list")
    /\ UNCHANGED <<readers, snap, task, target, online, crossed>>

\* connected_clients().await, then set_connected_clients(..).await: after the
\* session is registered, and again after it is gone.
Listing == {h \in Handlers : pc[h] \in {"publish", "unpublish"}}

ReadList(h) ==
    /\ pc[h] \in {"list", "unlist"}
    /\ Readable
    /\ snap' = [snap EXCEPT ![h] = connected_clients]
    /\ Goto(h, IF pc[h] = "list" THEN "publish" ELSE "unpublish")
    /\ crossed' = IF Listing = {} THEN crossed \ {h} ELSE crossed \cup Listing \cup {h}
    /\ UNCHANGED <<inner, writer, readers, old, chan, task, target, online>>

\* After the second time the handler returns and drops its channel.  Who sets
\* the list with nobody in between puts right what others have crossed.
SetList(h) ==
    /\ pc[h] \in {"publish", "unpublish"}
    /\ online' = snap[h]
    /\ snap' = [snap EXCEPT ![h] = {}]
    /\ Goto(h, IF pc[h] = "publish" THEN "push" ELSE "done")
    /\ chan' = [chan EXCEPT ![h] = IF pc[h] = "publish" THEN @ ELSE 0]
    /\ crossed' = IF h \in crossed THEN crossed \cap Listing ELSE {}
    /\ UNCHANGED <<inner, writer, readers, old, task, target>>

\* The client's rules are sent (a failure only ends the pushing).
PushRules(h) ==
    /\ pc[h] = "push"
    /\ Goto(h, "loop")
    /\ UNCHANGED <<inner, writer, readers, old, chan, snap, task, target, online, crossed>>

\* Mutant: the channel is taken from without looking whether it is empty.
TakeUnchecked(h) ==
    /\ pc[h] = "loop"
    /\ chan' = [chan EXCEPT ![h] = @ - 1]
    /\ Goto(h, "sending")
    /\ UNCHANGED <<inner, writer, readers, old, snap, task, target, online, crossed>>

\* rx.recv() = Some(msg): the handler awaits framed.send and nothing else.
TakeMessage(h) ==
    /\ pc[h] = "loop"
    /\ chan[h] > 0
    /\ chan' = [chan EXCEPT ![h] = @ - 1]
    /\ Goto(h, "sending")
    /\ UNCHANGED <<inner, writer, readers, old, snap, task, target, online, crossed>>

\* framed.send succeeds or fails.
SendMessage(h) ==
    /\ pc[h] = "sending"
    /\ Goto(h, "loop") \/ Goto(h, "leave")
    /\ UNCHANGED <<inner, writer, readers, old, chan, snap, task, target, online, crossed>>

\* Mutant: a closed channel does not end the loop.
ChannelClosedIgnored(h) == FALSE /\ UNCHANGED vars

\* rx.recv() = None: the channel is empty and has no sending end any more.
ChannelClosed(h) ==
    /\ pc[h] = "loop"
    /\ chan[h] = 0
    /\ ~HasSender(h)
    /\ Goto(h, "leave")
    /\ UNCHANGED <<inner, writer, readers, old, chan, snap, task, target, online, crossed>>

\* The client's side ends, a frame does not parse, or 90 s pass without Ping.
ConnectionLost(h) ==
    /\ pc[h] = "loop"
    /\ Goto(h, "leave")
    /\ UNCHANGED <<inner, writer, readers, old, chan, snap, task, target, online, crossed>>

\* Mutant: the handler ends and its session stays in the map.
UnregisterForgets(h) ==
    /\ pc[h] = "leave"
    /\ Writable
    /\ Goto(h, "unlist")
    /\ UNCHANGED <<inner, writer, readers, old, chan, snap, task, target, online, crossed>>

\* Mutant: the list is not read again after the session is gone.
UnregisterSilently(h) ==
    /\ pc[h] = "leave"
    /\ Writable
    /\ inner' = [inner EXCEPT ![ClientOf[h]] = None]
    /\ chan' = [chan EXCEPT ![h] = 0]
    /\ Goto(h, "done")
    /\ UNCHANGED <<writer, readers, old, snap, task, target, online, crossed>>

\* unregister removes whatever session the client id has.
Unregister(h) ==
    /\ pc[h] = "leave"
    /\ Writable
    /\ inner' = [inner EXCEPT ![ClientOf[h]] = None]
    /\ Goto(h, "unlist")
    /\ UNCHANGED <<writer, readers, old, chan, snap, task, target, online, crossed>>

-----------------------------------------------------------------------------
(* A task that calls send_to *)

\* The read lock is taken and the session looked up; without one, send_to
\* returns false.
LookUp(s) ==
    LET h == inner[SendsTo[s]]
    IN  /\ task[s] = "idle"
        /\ Readable
        /\ \/ /\ h = None
              /\ task' = [task EXCEPT ![s] = "done"]
              /\ UNCHANGED <<readers, target>>
           \/ /\ h # None
              /\ task' = [task EXCEPT ![s] = "sending"]
              /\ target' = [target EXCEPT ![s] = h]
              /\ readers' = readers \cup {s}
        /\ UNCHANGED <<inner, writer, pc, old, chan, snap, online, crossed>>

\* The channel has room; the read lock is released.
Enqueue(s) ==
    /\ task[s] = "sending"
    /\ chan[target[s]] < Capacity
    /\ chan' = [chan EXCEPT ![target[s]] = @ + 1]
    /\ task' = [task EXCEPT ![s] = "done"]
    /\ target' = [target EXCEPT ![s] = None]
    /\ readers' = readers \ {s}
    /\ UNCHANGED <<inner, writer, pc, old, snap, online, crossed>>

HandlerStep(h) ==
    \/ Register(h) \/ Replace(h) \/ SetList(h) \/ PushRules(h)
    \/ TakeMessage(h) \/ SendMessage(h) \/ ChannelClosed(h) \/ Unregister(h)

Next ==
    \/ \E h \in Handlers :
          Authenticate(h) \/ HandlerStep(h) \/ ReadList(h) \/ ConnectionLost(h)
    \/ \E s \in Senders : LookUp(s) \/ Enqueue(s)

Spec == Init /\ [][Next]_vars

\* Handlers and senders are tokio tasks that run whenever they can; every
\* framed.send ends, with success or with an error.  A reader may come before
\* a writer that is about to wait, but is sure of the lock only when none
\* waits.  Nothing makes a client connect or its connection break.
FairSpec ==
    /\ Spec
    /\ \A h \in Handlers : WF_vars(HandlerStep(h) \/ (ReadList(h) /\ ~WriterWaits))
    /\ \A s \in Senders : WF_vars(Enqueue(s) \/ (LookUp(s) /\ ~WriterWaits))

-----------------------------------------------------------------------------
(* Properties *)

\* The session map, the lock, the handlers and the senders are in states the
\* code has, and no channel ever holds more than its capacity.
TypeOK ==
    /\ inner \in [Clients -> Handlers \cup {None}]
    /\ writer \in Handlers \cup {None}
    /\ readers \subseteq Senders
    /\ pc \in [Handlers -> HandlerStates]
    /\ old \in [Handlers -> Handlers \cup {None}]
    /\ chan \in [Handlers -> 0 .. Capacity]
    /\ snap \in [Handlers -> SUBSET Clients]
    /\ task \in [Senders -> {"idle", "sending", "done"}]
    /\ target \in [Senders -> Handlers \cup {None}]
    /\ online \subseteq Clients
    /\ crossed \subseteq Handlers

\* A channel with a sending end still has its receiver: tx.send never fails,
\* neither in send_to nor in register, so send_to returns false only for a
\* client that has no session.
ReceiverOutlivesSenders ==
    \A h \in Handlers :
        HasSender(h) \/ (\E s \in Senders : target[s] = h) =>
            pc[h] \in {"list", "publish", "push", "loop", "sending", "leave"}

\* The lock excludes: who waits for room under the write lock is alone, and a
\* sender that waits under the read lock waits for the session that is in the
\* map.
LockSound ==
    /\ writer # None => readers = {} /\ pc[writer] = "pinging"
    /\ \A h \in Handlers : pc[h] = "pinging" => writer = h /\ inner[ClientOf[h]] = None
    /\ \A s \in Senders : task[s] = "sending" => s \in readers /\ inner[ClientOf[target[s]]] = target[s]

\* Somebody waits, with the lock, for room in the channel of a handler that
\* needs the lock before it receives (again): it has left its loop, or it waits
\* to read the list, behind a writer.
Stuck ==
    \E h \in Handlers :
        /\ chan[h] = Capacity
        /\ \/ pc[h] = "leave"
           \/ pc[h] = "list" /\ (writer # None \/ WriterWaits)
        /\ (writer # None /\ old[writer] = h) \/ \E s \in Senders : target[s] = h

\* Not connected, in its loop with its own session in the map, or over.
Settled(h) ==
    \/ pc[h] \in {"idle", "done"}
    \/ pc[h] = "loop" /\ inner[ClientOf[h]] = h

\* Every handler settles, and settles again after whatever disturbs it: a client
\* that has authenticated gets registered, one that has left is cleaned up, and
\* a session that lost its place in the map does not linger.  All that can
\* prevent it is a full channel of a handler that waits for the lock for ever.
HandlersSettle ==
    \A h \in Handlers : []<>Settled(h) \/ <>[]Stuck

\* When no handler is between a change of the session map and its setting of
\* the list, the panel's list is the map's, whoever came, left or was replaced;
\* it can only be wrong when the last to set it was crossed by another handler.
OnlineListCurrent ==
    /\ \A h \in Handlers : pc[h] \notin {"pinging", "list", "publish", "unlist", "unpublish"}
    /\ crossed = {}
    => online = connected_clients

\* "The old connection is replaced by the new one": a session leaves the map
\* by its own handler's hand, or because a newer one takes its place.
OldMakesWayForNew ==
    [][\A c \in Clients : inner[c] # None /\ inner'[c] = None =>
          \/ pc[inner[c]] = "leave" /\ pc'[inner[c]] = "unlist"
          \/ \E h \in Handlers : pc'[h] = "pinging" /\ old'[h] = inner[c]]_vars
=============================================================================
