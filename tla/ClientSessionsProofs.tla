------------------------ MODULE ClientSessionsProofs ------------------------
(***************************************************************************)
(* Proofs about ClientSessions, for any sets of clients, connections and   *)
(* sending tasks and any capacity of the channels.                         *)
(*                                                                         *)
(* IInv is inductive.  MapSound says that a session in the map belongs to  *)
(* a handler of that client that has not unregistered yet, PingSound that  *)
(* the same is true of the session a registering handler has taken out of  *)
(* the map, SendSound that a sender waits for the session it found.        *)
(* ListSound is why the panel's list is right: a handler that nobody has   *)
(* crossed is alone between reading the map and setting the list, and what *)
(* it read is still true unless another is about to read the map again.    *)
(***************************************************************************)
EXTENDS ClientSessions, TLAPS

\* The states in which a handler has a session of its own to give up.
Serving == {"list", "publish", "push", "loop", "sending", "leave"}

\* The map holds, for a client, a handler of that client that still receives.
MapSound ==
    \A c \in Clients :
        inner[c] # None => ClientOf[inner[c]] = c /\ pc[inner[c]] \in Serving

\* A handler that registers over a session has the write lock, the client's
\* entry is out of the map and the session it pings still receives.
PingSound ==
    /\ writer # None => pc[writer] = "pinging" /\ readers = {}
    /\ \A h \in Handlers : pc[h] = "pinging" =>
          /\ writer = h
          /\ inner[ClientOf[h]] = None
          /\ old[h] \in Handlers
          /\ pc[old[h]] \in Serving

\* A sender that waits has the read lock and waits for the session in the map.
SendSound ==
    \A s \in Senders :
        /\ task[s] = "sending" => target[s] # None
        /\ target[s] # None => s \in readers /\ inner[SendsTo[s]] = target[s]

\* Some handler has changed the map, or is changing it, and has not read it
\* since.
Changing == \E h \in Handlers : pc[h] \in {"pinging", "list", "unlist"}

\* Of two handlers between reading and setting the list both are crossed; what
\* an uncrossed one read is the map, or a handler is about to read it again;
\* and so is what the last one set.
ListSound ==
    /\ \A h, k \in Listing : h # k => h \in crossed
    /\ ~Changing => \A h \in Listing : h \notin crossed => snap[h] = connected_clients
    /\ ~Changing /\ Listing = {} /\ crossed = {} => online = connected_clients

\* The inductive invariant.
IInv == TypeOK /\ MapSound /\ PingSound /\ SendSound /\ ListSound

-----------------------------------------------------------------------------
\* A handler is between reading and setting the list, before and after a step.
LEMMA ListingPrime ==
    /\ \A h : h \in Listing <=> h \in Handlers /\ pc[h] \in {"publish", "unpublish"}
    /\ \A h : h \in Listing' <=> h \in Handlers /\ pc'[h] \in {"publish", "unpublish"}
  BY DEF Listing

\* What the invariants need of a step that moves a handler within its loop, or
\* lets it in: nobody's session, lock or list is touched.
LEMMA MoveInv ==
    ASSUME IInv, NEW h \in Handlers, NEW p, pc' = [pc EXCEPT ![h] = p],
           \/ pc[h] = "idle" /\ p \in {"start", "done"}
           \/ pc[h] \in {"push", "sending", "loop"} /\ p \in {"loop", "sending", "leave"},
           UNCHANGED <<inner, writer, readers, old, snap, task, target, online, crossed>>,
           chan' \in [Handlers -> 0 .. Capacity]
    PROVE  IInv'
<1> USE HandlersAssumption, SendersAssumption, CapacityAssumption DEF IInv
<1>a. pc \in [Handlers -> HandlerStates] /\ p \in HandlerStates
  BY DEF TypeOK, HandlerStates
<1>b. /\ \A k \in Handlers \ {h} : pc'[k] = pc[k]
      /\ pc'[h] = p
  BY <1>a
<1>c. Listing' = Listing
  BY <1>b, ListingPrime
<1>1. TypeOK'
  BY <1>a DEF TypeOK
<1>2. MapSound'
  BY <1>b DEF TypeOK, MapSound, Serving
<1>3. PingSound'
  BY <1>b DEF TypeOK, PingSound, Serving
<1>4. SendSound'
  BY DEF SendSound
<1>5. ListSound'
  <2>1. Changing' <=> Changing
    BY <1>b DEF Changing
  <2>2. connected_clients' = connected_clients
    BY DEF connected_clients
  <2>3. QED
    BY <1>c, <2>1, <2>2 DEF ListSound
<1>6. QED
  BY <1>1, <1>2, <1>3, <1>4, <1>5

\* The steps of a handler that only move it, and the one that takes a message
\* out of its channel.
LEMMA LoopInv ==
    ASSUME IInv, NEW h \in Handlers,
           \/ Authenticate(h) \/ PushRules(h) \/ SendMessage(h)
           \/ ChannelClosed(h) \/ ConnectionLost(h) \/ TakeMessage(h)
    PROVE  IInv'
<1> USE DEF Goto
<1>a. pc \in [Handlers -> HandlerStates] /\ chan \in [Handlers -> 0 .. Capacity]
  BY DEF IInv, TypeOK
<1>1. CASE Authenticate(h)
  BY <1>1, <1>a, MoveInv DEF Authenticate
<1>2. CASE PushRules(h)
  BY <1>2, <1>a, MoveInv DEF PushRules
<1>3. CASE SendMessage(h)
  BY <1>3, <1>a, MoveInv DEF SendMessage
<1>4. CASE ChannelClosed(h)
  BY <1>4, <1>a, MoveInv DEF ChannelClosed
<1>5. CASE ConnectionLost(h)
  BY <1>5, <1>a, MoveInv DEF ConnectionLost
<1>6. CASE TakeMessage(h)
  <2>1. chan' \in [Handlers -> 0 .. Capacity]
    BY <1>6, <1>a, CapacityAssumption DEF TakeMessage
  <2>2. QED
    BY <1>6, <2>1, MoveInv DEF TakeMessage
<1>7. QED
  BY <1>1, <1>2, <1>3, <1>4, <1>5, <1>6

\* register: the lock is free, so no sender waits and nobody else registers.
LEMMA RegisterInv ==
    ASSUME IInv, NEW h \in Handlers, Register(h)
    PROVE  IInv'
<1> USE HandlersAssumption, SendersAssumption, CapacityAssumption DEF IInv
<1> DEFINE c == ClientOf[h]
<1>a. /\ c \in Clients /\ pc[h] = "start" /\ writer = None /\ readers = {}
      /\ UNCHANGED <<readers, chan, snap, task, target, online, crossed>>
  BY DEF Register, Writable
<1>b. \/ /\ inner[c] = None /\ inner' = [inner EXCEPT ![c] = h]
         /\ pc' = [pc EXCEPT ![h] = "list"] /\ UNCHANGED <<writer, old>>
      \/ /\ inner[c] \in Handlers /\ inner' = [inner EXCEPT ![c] = None]
         /\ old' = [old EXCEPT ![h] = inner[c]] /\ writer' = h
         /\ pc' = [pc EXCEPT ![h] = "pinging"]
  BY DEF Register, Goto, TypeOK
<1>c. /\ \A k \in Handlers \ {h} : pc'[k] = pc[k]
      /\ pc'[h] \in {"list", "pinging"}
      /\ \A d \in Clients \ {c} : inner'[d] = inner[d]
  BY <1>a, <1>b DEF TypeOK
<1>1. TypeOK'
  BY <1>a, <1>b DEF TypeOK, HandlerStates
<1>2. MapSound'
  <2>1. \A d \in Clients : inner[d] # h
    BY <1>a DEF MapSound, Serving
  <2>2. (inner'[c] = h /\ pc'[h] = "list") \/ inner'[c] = None
    BY <1>a, <1>b DEF TypeOK
  <2>3. QED
    BY <1>a, <1>c, <2>1, <2>2 DEF TypeOK, MapSound, Serving
<1>3. PingSound'
  <2>1. \A k \in Handlers : pc[k] # "pinging"
    BY <1>a DEF PingSound
  <2>2. CASE pc'[h] = "list"
    <3>1. \A k \in Handlers : pc'[k] # "pinging"
      BY <1>c, <2>1, <2>2
    <3>2. writer' = None
      BY <1>a, <1>b, <2>2 DEF TypeOK
    <3>3. QED
      BY <3>1, <3>2 DEF PingSound
  <2>3. CASE pc'[h] = "pinging"
    <3>1. /\ inner[c] \in Handlers /\ writer' = h /\ old'[h] = inner[c] /\ inner'[c] = None
      BY <1>a, <1>b, <2>3 DEF TypeOK
    <3>2. pc[inner[c]] \in Serving /\ inner[c] # h
      BY <1>a, <3>1 DEF MapSound, Serving
    <3>3. \A k \in Handlers : pc'[k] = "pinging" => k = h
      BY <1>c, <2>1
    <3>4. QED
      BY <1>a, <1>c, <2>3, <3>1, <3>2, <3>3 DEF PingSound
  <2>4. QED
    BY <1>c, <2>2, <2>3
<1>4. SendSound'
  BY <1>a DEF SendSound
<1>5. ListSound'
  <2>1. Changing'
    BY <1>c DEF Changing
  <2>2. Listing' = Listing
    BY <1>a, <1>c, ListingPrime
  <2>3. QED
    BY <1>a, <2>1, <2>2 DEF ListSound
<1>6. QED
  BY <1>1, <1>2, <1>3, <1>4, <1>5

\* The old session is pinged and the new one goes in.
LEMMA ReplaceInv ==
    ASSUME IInv, NEW h \in Handlers, Replace(h)
    PROVE  IInv'
<1> USE HandlersAssumption, SendersAssumption, CapacityAssumption DEF IInv
<1> DEFINE c == ClientOf[h]
<1>a. /\ c \in Clients /\ pc[h] = "pinging" /\ writer = h /\ readers = {}
      /\ old[h] \in Handlers /\ chan[old[h]] < Capacity
      /\ chan' = [chan EXCEPT ![old[h]] = @ + 1]
      /\ inner' = [inner EXCEPT ![c] = h]
      /\ old' = [old EXCEPT ![h] = None]
      /\ writer' = None
      /\ pc' = [pc EXCEPT ![h] = "list"]
      /\ UNCHANGED <<readers, snap, task, target, online, crossed>>
  BY DEF Replace, Goto, PingSound
<1>c. /\ \A k \in Handlers \ {h} : pc'[k] = pc[k]
      /\ pc'[h] = "list" /\ inner'[c] = h
      /\ \A d \in Clients \ {c} : inner'[d] = inner[d]
  BY <1>a DEF TypeOK
<1>1. TypeOK'
  <2>1. chan' \in [Handlers -> 0 .. Capacity]
    BY <1>a DEF TypeOK
  <2>2. QED
    BY <1>a, <2>1 DEF TypeOK, HandlerStates
<1>2. MapSound'
  <2>1. \A d \in Clients : inner[d] # h
    BY <1>a DEF MapSound, Serving
  <2>2. QED
    BY <1>a, <1>c, <2>1 DEF TypeOK, MapSound, Serving
<1>3. PingSound'
  <2>1. \A k \in Handlers : pc'[k] # "pinging"
    BY <1>a, <1>c DEF PingSound
  <2>2. QED
    BY <1>a, <2>1 DEF PingSound
<1>4. SendSound'
  BY <1>a DEF SendSound
<1>5. ListSound'
  <2>1. Changing'
    BY <1>c DEF Changing
  <2>2. Listing' = Listing
    BY <1>a, <1>c, ListingPrime
  <2>3. QED
    BY <1>a, <2>1, <2>2 DEF ListSound
<1>6. QED
  BY <1>1, <1>2, <1>3, <1>4, <1>5

\* unregister: whatever session the client has goes; no sender waits for it.
LEMMA UnregisterInv ==
    ASSUME IInv, NEW h \in Handlers, Unregister(h)
    PROVE  IInv'
<1> USE HandlersAssumption, SendersAssumption, CapacityAssumption DEF IInv
<1> DEFINE c == ClientOf[h]
<1>a. /\ c \in Clients /\ pc[h] = "leave" /\ writer = None /\ readers = {}
      /\ inner' = [inner EXCEPT ![c] = None]
      /\ pc' = [pc EXCEPT ![h] = "unlist"]
      /\ UNCHANGED <<writer, readers, old, chan, snap, task, target, online, crossed>>
  BY DEF Unregister, Goto, Writable
<1>c. /\ \A k \in Handlers \ {h} : pc'[k] = pc[k]
      /\ pc'[h] = "unlist" /\ inner'[c] = None
      /\ \A d \in Clients \ {c} : inner'[d] = inner[d]
  BY <1>a DEF TypeOK
<1>1. TypeOK'
  BY <1>a DEF TypeOK, HandlerStates
<1>2. MapSound'
  BY <1>a, <1>c DEF TypeOK, MapSound
<1>3. PingSound'
  <2>1. \A k \in Handlers : pc'[k] # "pinging"
    BY <1>a, <1>c DEF PingSound
  <2>2. QED
    BY <1>a, <2>1 DEF PingSound
<1>4. SendSound'
  BY <1>a DEF SendSound
<1>5. ListSound'
  <2>1. Changing'
    BY <1>c DEF Changing
  <2>2. Listing' = Listing
    BY <1>a, <1>c, ListingPrime
  <2>3. QED
    BY <1>a, <2>1, <2>2 DEF ListSound
<1>6. QED
  BY <1>1, <1>2, <1>3, <1>4, <1>5

\* connected_clients: whoever reads the map alone is not crossed and has what
\* the map says; whoever does not crosses all that are on their way.
LEMMA ReadListInv ==
    ASSUME IInv, NEW h \in Handlers, ReadList(h)
    PROVE  IInv'
<1> USE HandlersAssumption, SendersAssumption, CapacityAssumption DEF IInv
<1>a. /\ pc[h] \in {"list", "unlist"} /\ writer = None
      /\ snap' = [snap EXCEPT ![h] = connected_clients]
      /\ crossed' = IF Listing = {} THEN crossed \ {h} ELSE crossed \cup Listing \cup {h}
      /\ UNCHANGED <<inner, writer, readers, old, chan, task, target, online>>
  BY DEF ReadList, Readable
<1>b. \E p \in {"publish", "unpublish"} :
         pc' = [pc EXCEPT ![h] = p] /\ (pc[h] = "list" => p = "publish")
  BY DEF ReadList, Goto
<1>c. /\ \A k \in Handlers \ {h} : pc'[k] = pc[k]
      /\ pc'[h] \in {"publish", "unpublish"}
      /\ pc[h] = "list" => pc'[h] = "publish"
  BY <1>b DEF TypeOK
<1>d. connected_clients' = connected_clients /\ connected_clients \subseteq Clients
  BY <1>a DEF connected_clients
<1>e. Listing' = Listing \cup {h} /\ h \notin Listing /\ Listing \subseteq Handlers
  BY <1>a, <1>c, ListingPrime
<1>1. TypeOK'
  BY <1>a, <1>b, <1>d, <1>e DEF TypeOK, HandlerStates
<1>2. MapSound'
  BY <1>a, <1>c DEF TypeOK, MapSound, Serving
<1>3. PingSound'
  BY <1>a, <1>c DEF TypeOK, PingSound, Serving
<1>4. SendSound'
  BY <1>a DEF SendSound
<1>5. ListSound'
  <2>1. snap'[h] = connected_clients
    BY <1>a DEF TypeOK
  <2>2. CASE Listing = {}
    BY <1>a, <1>d, <1>e, <2>1, <2>2 DEF ListSound
  <2>3. CASE Listing # {}
    BY <1>a, <1>e, <2>3 DEF ListSound
  <2>4. QED
    BY <2>2, <2>3
<1>6. QED
  BY <1>1, <1>2, <1>3, <1>4, <1>5

\* set_connected_clients: an uncrossed handler is the only one on its way.
LEMMA SetListInv ==
    ASSUME IInv, NEW h \in Handlers, SetList(h)
    PROVE  IInv'
<1> USE HandlersAssumption, SendersAssumption, CapacityAssumption DEF IInv
<1>a. /\ pc[h] \in {"publish", "unpublish"}
      /\ online' = snap[h]
      /\ snap' = [snap EXCEPT ![h] = {}]
      /\ crossed' = IF h \in crossed THEN crossed \cap Listing ELSE {}
      /\ UNCHANGED <<inner, writer, readers, old, task, target>>
  BY DEF SetList
<1>b. \E p \in {"push", "done"} :
         pc' = [pc EXCEPT ![h] = p] /\ (pc[h] = "publish" => p = "push")
  BY DEF SetList, Goto
<1>c. /\ \A k \in Handlers \ {h} : pc'[k] = pc[k]
      /\ pc'[h] \in {"push", "done"}
      /\ pc[h] = "publish" => pc'[h] = "push"
  BY <1>b DEF TypeOK
<1>d. connected_clients' = connected_clients
  BY <1>a DEF connected_clients
<1>e. Listing' = Listing \ {h} /\ h \in Listing /\ Listing \subseteq Handlers
  BY <1>a, <1>c, ListingPrime
<1>1. TypeOK'
  <2>1. chan' \in [Handlers -> 0 .. Capacity]
    BY DEF SetList, TypeOK
  <2>2. online' \subseteq Clients
    BY <1>a DEF TypeOK
  <2>3. pc' \in [Handlers -> HandlerStates]
    BY <1>b DEF TypeOK, HandlerStates
  <2>4. snap' \in [Handlers -> SUBSET Clients]
    BY <1>a DEF TypeOK
  <2>5. crossed' \subseteq Handlers
    BY <1>a DEF TypeOK
  <2>6. QED
    BY <1>a, <2>1, <2>2, <2>3, <2>4, <2>5 DEF TypeOK
<1>2. MapSound'
  BY <1>a, <1>c DEF TypeOK, MapSound, Serving
<1>3. PingSound'
  BY <1>a, <1>c DEF TypeOK, PingSound, Serving
<1>4. SendSound'
  BY <1>a DEF SendSound
<1>5. ListSound'
  <2>1. Changing' <=> Changing
    BY <1>a, <1>c DEF Changing
  <2>2. CASE h \in crossed
    <3>1. h \in crossed'
      BY <1>a, <1>e, <2>2
    <3>2. \A k \in Listing' : k \in crossed'
      BY <1>a, <1>e, <2>2 DEF ListSound
    <3>3. QED
      BY <3>1, <3>2 DEF ListSound
  <2>3. CASE h \notin crossed
    <3>1. Listing' = {}
      BY <1>e, <2>3 DEF ListSound
    <3>2. ~Changing => online' = connected_clients
      BY <1>a, <1>e, <2>3 DEF ListSound
    <3>3. QED
      BY <1>d, <2>1, <3>1, <3>2 DEF ListSound
  <2>4. QED
    BY <2>2, <2>3
<1>6. QED
  BY <1>1, <1>2, <1>3, <1>4, <1>5

\* send_to finds the session, or returns; it then puts its message in.
LEMMA SenderInv ==
    ASSUME IInv, NEW s \in Senders, LookUp(s) \/ Enqueue(s)
    PROVE  IInv'
<1> USE HandlersAssumption, SendersAssumption, CapacityAssumption DEF IInv
<1>a. UNCHANGED <<inner, writer, pc, old, snap, online, crossed>>
  BY DEF LookUp, Enqueue
<1>1. TypeOK'
  <2>1. CASE LookUp(s)
    BY <1>a, <2>1 DEF LookUp, TypeOK
  <2>2. CASE Enqueue(s)
    <3>1. target[s] \in Handlers
      BY <2>2 DEF Enqueue, TypeOK, SendSound
    <3>2. chan' \in [Handlers -> 0 .. Capacity]
      BY <2>2, <3>1 DEF Enqueue, TypeOK
    <3>3. QED
      BY <1>a, <2>2, <3>2 DEF Enqueue, TypeOK
  <2>3. QED
    BY <2>1, <2>2
<1>2. MapSound'
  BY <1>a DEF MapSound
<1>3. PingSound'
  <2>1. writer # None => readers' = {}
    BY DEF LookUp, Enqueue, Readable, PingSound
  <2>2. QED
    BY <1>a, <2>1 DEF PingSound
<1>4. SendSound'
  <2>1. \A t \in Senders \ {s} : /\ task'[t] = task[t] /\ target'[t] = target[t]
                                 /\ t \in readers => t \in readers'
    BY DEF LookUp, Enqueue, TypeOK
  <2>2. /\ task'[s] = "sending" => target'[s] # None
        /\ target'[s] # None => s \in readers' /\ inner[SendsTo[s]] = target'[s]
    BY DEF LookUp, Enqueue, TypeOK, SendSound
  <2>3. QED
    BY <1>a, <2>1, <2>2 DEF SendSound
<1>5. ListSound'
  BY <1>a DEF ListSound, Listing, Changing, connected_clients
<1>6. QED
  BY <1>1, <1>2, <1>3, <1>4, <1>5

\* Every step of a handler or of a sender keeps the invariant.
LEMMA NextInv ==
    ASSUME IInv, [Next]_vars
    PROVE  IInv'
<1>1. CASE UNCHANGED vars
  BY <1>1 DEF vars, IInv, TypeOK, MapSound, PingSound, SendSound, ListSound,
              Listing, Changing, connected_clients
<1>2. CASE Next
  BY <1>2, LoopInv, RegisterInv, ReplaceInv, UnregisterInv, ReadListInv, SetListInv,
     SenderInv DEF Next, HandlerStep
<1>3. QED
  BY <1>1, <1>2

\* Nobody is connected at first.
LEMMA InitInv == Init => IInv
<1> SUFFICES ASSUME Init PROVE IInv
  OBVIOUS
<1> USE HandlersAssumption, SendersAssumption, CapacityAssumption DEF Init
<1>1. TypeOK
  BY DEF TypeOK, HandlerStates
<1>2. MapSound /\ PingSound /\ SendSound
  BY DEF MapSound, PingSound, SendSound
<1>3. ListSound
  BY DEF ListSound, Listing, Changing, connected_clients
<1>4. QED
  BY <1>1, <1>2, <1>3 DEF IInv

\* IInv holds in every reachable state.
THEOREM Invariance == Spec => []IInv
  BY InitInv, NextInv, PTL DEF Spec

\* The state is well typed; no channel holds more than its capacity.
THEOREM TypeCorrect == Spec => []TypeOK
<1>1. IInv => TypeOK
  BY DEF IInv
<1>2. QED
  BY <1>1, Invariance, PTL

\* tx.send never meets a closed channel: neither the ping of a session that is
\* being replaced nor a message of send_to is lost that way.
THEOREM ReceiversOutlive == Spec => []ReceiverOutlivesSenders
<1>1. IInv => ReceiverOutlivesSenders
  <2> SUFFICES ASSUME IInv, NEW h \in Handlers,
                      HasSender(h) \/ \E s \in Senders : target[s] = h
               PROVE  pc[h] \in Serving
    BY DEF ReceiverOutlivesSenders, Serving
  <2> USE HandlersAssumption, SendersAssumption DEF IInv
  <2>1. CASE inner[ClientOf[h]] = h
    BY <2>1 DEF MapSound
  <2>2. ASSUME NEW k \in Handlers, pc[k] = "pinging", old[k] = h  PROVE pc[h] \in Serving
    BY <2>2 DEF PingSound
  <2>3. ASSUME NEW s \in Senders, target[s] = h  PROVE pc[h] \in Serving
    <3>1. inner[SendsTo[s]] = h /\ SendsTo[s] \in Clients
      BY <2>3 DEF SendSound
    <3>2. QED
      BY <3>1 DEF MapSound
  <2>4. QED
    BY <2>1, <2>2, <2>3 DEF HasSender
<1>2. QED
  BY <1>1, Invariance, PTL

\* The read lock of send_to and the write lock of register exclude each other,
\* and what is looked up under the lock stays true while it is held.
THEOREM LockExcludes == Spec => []LockSound
<1>1. IInv => LockSound
  <2> SUFFICES ASSUME IInv PROVE LockSound
    OBVIOUS
  <2> USE HandlersAssumption, SendersAssumption DEF IInv
  <2>1. \A s \in Senders : task[s] = "sending" =>
           s \in readers /\ inner[ClientOf[target[s]]] = target[s]
    <3> SUFFICES ASSUME NEW s \in Senders, task[s] = "sending"
                 PROVE  s \in readers /\ inner[ClientOf[target[s]]] = target[s]
      OBVIOUS
    <3>1. s \in readers /\ target[s] # None /\ inner[SendsTo[s]] = target[s]
      BY DEF SendSound
    <3>2. ClientOf[target[s]] = SendsTo[s]
      BY <3>1 DEF MapSound
    <3>3. QED
      BY <3>1, <3>2
  <2>2. QED
    BY <2>1 DEF LockSound, PingSound
<1>2. QED
  BY <1>1, Invariance, PTL

\* When nobody is between a change of the map and setting the list, and nobody
\* was crossed, the panel's list of online clients is the session map's.
THEOREM OnlineCorrect == Spec => []OnlineListCurrent
<1>1. IInv => OnlineListCurrent
  BY DEF IInv, ListSound, OnlineListCurrent, Listing, Changing
<1>2. QED
  BY <1>1, Invariance, PTL
=============================================================================
