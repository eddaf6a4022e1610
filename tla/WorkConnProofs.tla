--------------------------- MODULE WorkConnProofs ---------------------------
(***************************************************************************)
(* Proofs about WorkConn, for any set of user connections, any bound on    *)
(* ids and any number of restarts.                                         *)
(*                                                                         *)
(* IInv is inductive: one lemma per action shows that a step keeps its     *)
(* nine conjuncts.  The strengthening says what the code relies on without *)
(* saying so: an id is taken once per incarnation of the server (IdsSound),*)
(* the client is asked once per user (RequestsSound), and a work           *)
(* connection in a oneshot is neither announced nor dropped any more       *)
(* (SlotsSound).  The safety theorems and the refinement of Rendezvous     *)
(* follow from IInv.                                                       *)
(***************************************************************************)
EXTENDS WorkConn, SequenceTheorems, TLAPS

\* The requests queued for the client are requests of user connections.
LEMMA QueueConns ==
    ASSUME TypeOK
    PROVE  Len(queue) \in Nat /\ \A i \in 1 .. Len(queue) : queue[i] \in Conns
  BY ElementOfSeq, LenProperties DEF TypeOK

\* What the client's loop does to the queue when it reads a request: the head
\* is taken off and the rest moves up by one.
LEMMA QueueTail ==
    ASSUME TypeOK, queue # <<>>
    PROVE  /\ Head(queue) \in Conns /\ Tail(queue) \in Seq(Conns)
           /\ Len(queue) >= 1 /\ Head(queue) = queue[1]
           /\ Len(Tail(queue)) = Len(queue) - 1
           /\ \A i \in 1 .. Len(Tail(queue)) : Tail(queue)[i] = queue[i + 1]
  BY HeadTailProperties, EmptySeq, LenProperties DEF TypeOK

\* CONN_ID_COUNTER.fetch_add: the id is fresh in this incarnation, so that no
\* other connection under way has it.
LEMMA AllocateInv ==
    ASSUME IInv, NEW c \in Conns, Allocate(c)
    PROVE  IInv'
<1> USE ConnsAssumption, BoundsAssumption DEF IInv
<1>1. TypeOK'
  BY DEF Allocate, TypeOK, ConnIds, PcStates
<1>2. IdsSound'
  BY DEF Allocate, TypeOK, IdsSound, Active
<1>3. RequestsSound'
  BY QueueConns DEF Allocate, RequestsSound, NotAsked
<1>4. SlotsSound'
  BY DEF Allocate, SlotsSound
<1>5. OwnWorkConn'
  <2>1. slot[c] = None /\ \A d \in Conns : slot[d] # c
    BY DEF Allocate, SlotsSound, RequestsSound, NotAsked
  <2>2. QED
    BY <2>1 DEF Allocate, OwnWorkConn
<1>6. WorkConnServesOne'
  BY DEF Allocate, WorkConnServesOne
<1>7. PendingSound'
  BY DEF Allocate, PendingSound
<1>8. WaiterReachable'
  BY DEF Allocate, WaiterReachable
<1>9. AnswerNotLost'
  BY DEF Allocate, AnswerNotLost
<1>10. QED
  BY <1>1, <1>2, <1>3, <1>4, <1>5, <1>6, <1>7, <1>8, <1>9

\* pending.insert: the id is the handler's alone, so no other handler's sender
\* is overwritten.
LEMMA InsertPendingInv ==
    ASSUME IInv, NEW c \in Conns, InsertPending(c)
    PROVE  IInv'
<1> USE ConnsAssumption, BoundsAssumption DEF IInv
<1>a. /\ connId[c] \in ConnIds /\ pc[c] \in {"allocated", "sent"}
      /\ \E p \in {"inserted", "waiting"} : pc' = [pc EXCEPT ![c] = p]
  BY DEF InsertPending, IdsSound
<1>b. \A d \in Conns \ {c} : Active(d) => connId[d] # connId[c]
  BY <1>a DEF InsertPending, IdsSound, Active
<1>1. TypeOK'
  BY DEF InsertPending, TypeOK, PcStates
<1>2. IdsSound'
  BY <1>a DEF InsertPending, IdsSound, Active
<1>3. RequestsSound'
  BY DEF InsertPending, TypeOK, RequestsSound, NotAsked
<1>4. SlotsSound'
  BY DEF InsertPending, TypeOK, SlotsSound
<1>5. OwnWorkConn'
  BY DEF InsertPending, OwnWorkConn
<1>6. WorkConnServesOne'
  BY DEF InsertPending, WorkConnServesOne
<1>7. PendingSound'
  BY <1>a DEF InsertPending, TypeOK, PendingSound, IdsSound, SlotsSound
<1>8. WaiterReachable'
  <2>1. \A d \in Conns \ {c} : pc'[d] = pc[d]
    BY <1>a DEF TypeOK
  <2>2. pending'[connId[c]] = c
    BY <1>a DEF InsertPending, TypeOK
  <2>3. \A d \in Conns \ {c} : Active(d) => pending'[connId[d]] = pending[connId[d]]
    BY <1>b DEF InsertPending
  <2>4. UNCHANGED <<slot, connId>>
    BY DEF InsertPending
  <2>5. QED
    BY <2>1, <2>2, <2>3, <2>4 DEF WaiterReachable, Active
<1>9. AnswerNotLost'
  BY DEF InsertPending, TypeOK, AnswerNotLost
<1>10. QED
  BY <1>1, <1>2, <1>3, <1>4, <1>5, <1>6, <1>7, <1>8, <1>9

\* send_to: the request is queued once, behind a oneshot that is in the table
\* if the handler is a stream's.
LEMMA SendToInv ==
    ASSUME IInv, NEW c \in Conns, SendTo(c)
    PROVE  IInv'
<1> USE ConnsAssumption, BoundsAssumption DEF IInv
<1> DEFINE NotAskedNext(d) == pc'[d] \in {"idle", "allocated", "inserted", "unsent"}
<1>a. /\ pc[c] \in {"allocated", "inserted"}
      /\ \E p \in {"waiting", "sent", "unsent", "failed"} :
            /\ pc' = [pc EXCEPT ![c] = p]
            /\ pc[c] = "inserted" => p \in {"waiting", "unsent"}
            /\ pc[c] = "allocated" => p \in {"sent", "failed"}
            /\ p = "sent" => ~RegistersFirst(c)
            /\ p \in {"waiting", "sent"} => queue' = Append(queue, c)
            /\ p \in {"unsent", "failed"} => queue' = queue
  BY DEF SendTo
<1>1. TypeOK'
  <2>1. queue' \in Seq(Conns)
    <3>1. queue' = queue \/ queue' = Append(queue, c)
      BY <1>a
    <3>2. Append(queue, c) \in Seq(Conns)
      BY AppendProperties DEF TypeOK
    <3>3. QED
      BY <3>1, <3>2 DEF TypeOK
  <2>2. pc' \in [Conns -> PcStates]
    BY <1>a DEF TypeOK, PcStates
  <2>3. QED
    BY <2>1, <2>2 DEF SendTo, TypeOK
<1>2. IdsSound'
  <2>1. /\ pc[c] # "idle" /\ Active(c)
        /\ \A d \in Conns : (pc'[d] = "idle") <=> (pc[d] = "idle")
        /\ \A d \in Conns : Active(d)' => Active(d)
    BY <1>a DEF Active
  <2>2. QED
    BY <2>1 DEF SendTo, IdsSound
<1>3. RequestsSound'
  <2>1. \A i \in 1 .. Len(queue) : queue[i] # c
    BY <1>a DEF RequestsSound, NotAsked
  <2>2. work[c] = "none" /\ work' = work
    BY <1>a DEF RequestsSound, NotAsked, SendTo
  <2>3. CASE queue' = queue
    BY <1>a, <2>1, <2>2, <2>3, QueueConns DEF RequestsSound, NotAsked
  <2>4. CASE queue' = Append(queue, c)
    <3>1. /\ Len(queue') = Len(queue) + 1 /\ queue'[Len(queue) + 1] = c
          /\ \A i \in 1 .. Len(queue) : queue'[i] = queue[i]
      BY <2>4, AppendProperties DEF TypeOK
    <3>2. \A i \in 1 .. Len(queue') : i = Len(queue) + 1 \/ i \in 1 .. Len(queue)
      BY <3>1, QueueConns
    <3>3. pc'[c] \in {"waiting", "sent"} /\ \A d \in Conns \ {c} : pc'[d] = pc[d]
      BY <1>a, <2>4, <3>1, QueueConns DEF TypeOK
    <3>4. \A i \in 1 .. Len(queue') : work'[queue'[i]] = "none" /\ ~NotAskedNext(queue'[i])
      BY <2>1, <2>2, <3>1, <3>2, <3>3, QueueConns DEF RequestsSound, NotAsked
    <3>5. \A i, j \in 1 .. Len(queue') : queue'[i] = queue'[j] => i = j
      BY <2>1, <3>1, <3>2, QueueConns DEF RequestsSound
    <3>6. \A d \in Conns : NotAsked(d)' => work'[d] = "none"
      BY <2>2, <3>3 DEF RequestsSound, NotAsked
    <3>7. \A d \in Conns : pc'[d] = "sent" => ~RegistersFirst(d)
      BY <1>a, <3>3 DEF RequestsSound
    <3>8. QED
      BY <3>4, <3>5, <3>6, <3>7 DEF RequestsSound, NotAsked
  <2>5. QED
    BY <1>a, <2>3, <2>4 DEF TypeOK
<1>4. SlotsSound'
  BY DEF SendTo, TypeOK, SlotsSound
<1>5. OwnWorkConn'
  BY DEF SendTo, OwnWorkConn
<1>6. WorkConnServesOne'
  BY DEF SendTo, WorkConnServesOne
<1>7. PendingSound'
  BY <1>a DEF SendTo, PendingSound
<1>8. WaiterReachable'
  BY DEF SendTo, TypeOK, WaiterReachable
<1>9. AnswerNotLost'
  BY DEF SendTo, TypeOK, AnswerNotLost
<1>10. QED
  BY <1>1, <1>2, <1>3, <1>4, <1>5, <1>6, <1>7, <1>8, <1>9

\* The oneshot has delivered, and the handler starts its bridge.
LEMMA ReceiveInv ==
    ASSUME IInv, NEW c \in Conns, Receive(c)
    PROVE  IInv'
<1> USE ConnsAssumption, BoundsAssumption DEF IInv
<1>1. TypeOK'
  BY DEF Receive, TypeOK, PcStates
<1>2. IdsSound'
  BY DEF Receive, IdsSound, Active
<1>3. RequestsSound'
  BY QueueConns DEF Receive, RequestsSound, NotAsked
<1>4. SlotsSound'
  BY DEF Receive, SlotsSound
<1>5. OwnWorkConn'
  BY DEF Receive, OwnWorkConn
<1>6. WorkConnServesOne'
  BY DEF Receive, WorkConnServesOne
<1>7. PendingSound'
  BY DEF Receive, PendingSound
<1>8. WaiterReachable'
  BY DEF Receive, WaiterReachable
<1>9. AnswerNotLost'
  BY DEF Receive, AnswerNotLost
<1>10. QED
  BY <1>1, <1>2, <1>3, <1>4, <1>5, <1>6, <1>7, <1>8, <1>9

\* The timer fires while the oneshot is empty.
LEMMA DeadlineInv ==
    ASSUME IInv, NEW c \in Conns, Deadline(c)
    PROVE  IInv'
<1> USE ConnsAssumption, BoundsAssumption DEF IInv
<1>1. TypeOK'
  BY DEF Deadline, TypeOK, PcStates
<1>2. IdsSound'
  BY DEF Deadline, IdsSound, Active
<1>3. RequestsSound'
  BY QueueConns DEF Deadline, RequestsSound, NotAsked
<1>4. SlotsSound'
  BY DEF Deadline, SlotsSound
<1>5. OwnWorkConn'
  BY DEF Deadline, OwnWorkConn
<1>6. WorkConnServesOne'
  BY DEF Deadline, WorkConnServesOne
<1>7. PendingSound'
  BY DEF Deadline, PendingSound
<1>8. WaiterReachable'
  BY DEF Deadline, WaiterReachable
<1>9. AnswerNotLost'
  BY DEF Deadline, AnswerNotLost
<1>10. QED
  BY <1>1, <1>2, <1>3, <1>4, <1>5, <1>6, <1>7, <1>8, <1>9

\* The receiver is dropped, with the work connection that may have come late.
LEMMA DropReceiverInv ==
    ASSUME IInv, NEW c \in Conns, DropReceiver(c)
    PROVE  IInv'
<1> USE ConnsAssumption, BoundsAssumption DEF IInv
<1>1. TypeOK'
  BY DEF DropReceiver, TypeOK, PcStates, WorkStates, Discard
<1>2. IdsSound'
  BY DEF DropReceiver, IdsSound, Active, Discard
<1>3. RequestsSound'
  <2>1. \A d \in Conns : NotAsked(d)' <=> NotAsked(d)
    BY DEF DropReceiver, NotAsked
  <2>2. \A d \in Conns : work[d] = "none" => work'[d] = "none"
    BY DEF DropReceiver, Discard, SlotsSound
  <2>3. QED
    BY <2>1, <2>2, QueueConns DEF DropReceiver, RequestsSound
<1>4. SlotsSound'
  BY DEF DropReceiver, TypeOK, SlotsSound, WorkConnServesOne, Discard
<1>5. OwnWorkConn'
  BY DEF DropReceiver, OwnWorkConn, Discard
<1>6. WorkConnServesOne'
  BY DEF DropReceiver, WorkConnServesOne, Discard
<1>7. PendingSound'
  BY DEF DropReceiver, PendingSound, Discard
<1>8. WaiterReachable'
  BY DEF DropReceiver, WaiterReachable, Discard
<1>9. AnswerNotLost'
  BY DEF DropReceiver, AnswerNotLost, SlotsSound, OwnWorkConn, WorkConnServesOne, IdsSound, Active, RequestsSound, NotAsked, Discard
<1>10. QED
  BY <1>1, <1>2, <1>3, <1>4, <1>5, <1>6, <1>7, <1>8, <1>9

\* pending.remove: the entry removed is the handler's own or already gone.
LEMMA GiveUpInv ==
    ASSUME IInv, NEW c \in Conns, GiveUp(c)
    PROVE  IInv'
<1> USE ConnsAssumption, BoundsAssumption DEF IInv
<1>b. \A d \in Conns \ {c} : Active(d) => connId[d] # connId[c]
  BY DEF GiveUp, IdsSound, Active
<1>1. TypeOK'
  BY DEF GiveUp, TypeOK, PcStates, WorkStates, Discard
<1>2. IdsSound'
  BY DEF GiveUp, IdsSound, Active, Discard
<1>3. RequestsSound'
  BY QueueConns DEF GiveUp, RequestsSound, SlotsSound, PcStates, WorkStates, NotAsked, Discard
<1>4. SlotsSound'
  BY DEF GiveUp, TypeOK, SlotsSound, WorkConnServesOne, Discard
<1>5. OwnWorkConn'
  BY DEF GiveUp, OwnWorkConn, Discard
<1>6. WorkConnServesOne'
  BY DEF GiveUp, WorkConnServesOne, Discard
<1>7. PendingSound'
  BY DEF GiveUp, TypeOK, PendingSound, Discard
<1>8. WaiterReachable'
  <2>1. connId[c] \in ConnIds
    BY DEF GiveUp, IdsSound
  <2>2. QED
    BY <1>b, <2>1 DEF GiveUp, WaiterReachable, Active, IdsSound
<1>9. AnswerNotLost'
  BY DEF GiveUp, AnswerNotLost, SlotsSound, OwnWorkConn, WorkConnServesOne, IdsSound, Active, RequestsSound, NotAsked, Discard
<1>10. QED
  BY <1>1, <1>2, <1>3, <1>4, <1>5, <1>6, <1>7, <1>8, <1>9

\* A bridge ends, and its work connection with it.
LEMMA EndBridgeInv ==
    ASSUME IInv, NEW c \in Conns, EndBridge(c)
    PROVE  IInv'
<1> USE ConnsAssumption, BoundsAssumption DEF IInv
<1>1. TypeOK'
  BY DEF EndBridge, TypeOK, PcStates, WorkStates
<1>2. IdsSound'
  BY DEF EndBridge, IdsSound, Active
<1>3. RequestsSound'
  BY QueueConns DEF EndBridge, RequestsSound, SlotsSound, NotAsked
<1>4. SlotsSound'
  BY DEF EndBridge, TypeOK, SlotsSound, WorkConnServesOne
<1>5. OwnWorkConn'
  BY DEF EndBridge, OwnWorkConn
<1>6. WorkConnServesOne'
  BY DEF EndBridge, WorkConnServesOne
<1>7. PendingSound'
  BY DEF EndBridge, PendingSound
<1>8. WaiterReachable'
  BY DEF EndBridge, WaiterReachable
<1>9. AnswerNotLost'
  BY DEF EndBridge, AnswerNotLost
<1>10. QED
  BY <1>1, <1>2, <1>3, <1>4, <1>5, <1>6, <1>7, <1>8, <1>9

\* The client reads a request: the work connection it opens is a new one.
LEMMA ClientReceiveInv ==
    ASSUME IInv, ClientReceive
    PROVE  IInv'
<1> USE ConnsAssumption, BoundsAssumption DEF IInv
<1> DEFINE NotAskedNext(d) == pc'[d] \in {"idle", "allocated", "inserted", "unsent"}
<1>1. TypeOK'
  BY QueueTail DEF ClientReceive, TypeOK, WorkStates
<1>2. IdsSound'
  BY DEF ClientReceive, IdsSound, Active
<1>3. RequestsSound'
  <2>1. /\ Len(queue') \in Nat /\ Len(queue') = Len(queue) - 1
        /\ \A i \in 1 .. Len(queue') : i + 1 \in 1 .. Len(queue) /\ queue'[i] = queue[i + 1]
    BY QueueTail, QueueConns DEF ClientReceive
  <2>2. 1 \in 1 .. Len(queue) /\ Head(queue) = queue[1] /\ Head(queue) \in Conns
    BY QueueTail, QueueConns DEF ClientReceive
  <2>3. \A i \in 1 .. Len(queue') : queue'[i] # Head(queue) /\ queue'[i] \in Conns
    BY <2>1, <2>2, QueueConns DEF RequestsSound
  <2>4. ~NotAsked(Head(queue)) /\ \A d \in Conns \ {Head(queue)} : work'[d] = work[d]
    BY <2>2 DEF ClientReceive, RequestsSound, TypeOK
  <2>5. pc' = pc
    BY DEF ClientReceive
  <2>6. \A i \in 1 .. Len(queue') : work'[queue'[i]] = "none" /\ ~NotAskedNext(queue'[i])
    BY <2>1, <2>3, <2>4, <2>5 DEF RequestsSound, NotAsked
  <2>7. \A i, j \in 1 .. Len(queue') : queue'[i] = queue'[j] => i = j
    BY <2>1 DEF RequestsSound
  <2>8. QED
    BY <2>4, <2>5, <2>6, <2>7 DEF RequestsSound, NotAsked
<1>4. SlotsSound'
  BY QueueTail, QueueConns DEF ClientReceive, TypeOK, SlotsSound, RequestsSound, WorkStates
<1>5. OwnWorkConn'
  BY DEF ClientReceive, OwnWorkConn
<1>6. WorkConnServesOne'
  BY DEF ClientReceive, WorkConnServesOne
<1>7. PendingSound'
  BY DEF ClientReceive, PendingSound
<1>8. WaiterReachable'
  BY DEF ClientReceive, WaiterReachable
<1>9. AnswerNotLost'
  BY DEF ClientReceive, TypeOK, AnswerNotLost
<1>10. QED
  BY <1>1, <1>2, <1>3, <1>4, <1>5, <1>6, <1>7, <1>8, <1>9

\* The client announces the work connection.
LEMMA AnnounceInv ==
    ASSUME IInv, NEW w \in Conns, Announce(w)
    PROVE  IInv'
<1> USE ConnsAssumption, BoundsAssumption DEF IInv
<1>1. TypeOK'
  BY DEF Announce, TypeOK, WorkStates
<1>2. IdsSound'
  BY DEF Announce, IdsSound, Active
<1>3. RequestsSound'
  BY QueueConns DEF Announce, RequestsSound, NotAsked
<1>4. SlotsSound'
  BY DEF Announce, SlotsSound
<1>5. OwnWorkConn'
  BY DEF Announce, OwnWorkConn
<1>6. WorkConnServesOne'
  BY DEF Announce, WorkConnServesOne
<1>7. PendingSound'
  BY DEF Announce, PendingSound
<1>8. WaiterReachable'
  BY DEF Announce, WaiterReachable
<1>9. AnswerNotLost'
  BY DEF Announce, AnswerNotLost
<1>10. QED
  BY <1>1, <1>2, <1>3, <1>4, <1>5, <1>6, <1>7, <1>8, <1>9

\* The client cannot open the work connection.
LEMMA OpenFailsInv ==
    ASSUME IInv, NEW w \in Conns, OpenFails(w)
    PROVE  IInv'
<1> USE ConnsAssumption, BoundsAssumption DEF IInv
<1>1. TypeOK'
  BY DEF OpenFails, TypeOK, WorkStates
<1>2. IdsSound'
  BY DEF OpenFails, IdsSound, Active
<1>3. RequestsSound'
  BY QueueConns DEF OpenFails, RequestsSound, NotAsked
<1>4. SlotsSound'
  BY DEF OpenFails, SlotsSound
<1>5. OwnWorkConn'
  BY DEF OpenFails, OwnWorkConn
<1>6. WorkConnServesOne'
  BY DEF OpenFails, WorkConnServesOne
<1>7. PendingSound'
  BY DEF OpenFails, PendingSound
<1>8. WaiterReachable'
  BY DEF OpenFails, WaiterReachable
<1>9. AnswerNotLost'
  BY DEF OpenFails, AnswerNotLost
<1>10. QED
  BY <1>1, <1>2, <1>3, <1>4, <1>5, <1>6, <1>7, <1>8, <1>9

\* register_work_conn: the handler found under the id is the one that asked,
\* or one of a later incarnation, and its oneshot is empty.
LEMMA RegisterWorkConnInv ==
    ASSUME IInv, NEW w \in Conns, RegisterWorkConn(w)
    PROVE  IInv'
<1> USE ConnsAssumption, BoundsAssumption DEF IInv
<1> DEFINE k == connId[w]
           c == pending[k]
           Matched == /\ c \in Conns /\ ReceiverAlive(c)
                      /\ slot' = [slot EXCEPT ![c] = w]
                      /\ work' = [work EXCEPT ![w] = "matched"]
           Dropped == /\ ~ReceiverAlive(c)
                      /\ slot' = slot
                      /\ work' = [work EXCEPT ![w] = "dropped"]
<1>a. k \in ConnIds /\ c \in Conns \cup {None} /\ pc[w] # "idle"
  BY DEF RegisterWorkConn, TypeOK, IdsSound, RequestsSound, NotAsked
<1>b. /\ pending' = [pending EXCEPT ![k] = None]
      /\ work[w] = "announced" /\ ~NotAsked(w)
      /\ UNCHANGED <<nextId, boot, pc, connId, born, session, queue>>
  BY DEF RegisterWorkConn, RequestsSound
<1>c. Matched \/ Dropped
  BY DEF RegisterWorkConn, ReceiverAlive
<1>d. c \in Conns => connId[c] = k /\ slot[c] = None /\ Active(c)
  BY <1>a DEF PendingSound, Active
<1>e. \A d \in Conns : slot[d] # w
  BY <1>b DEF SlotsSound
<1> HIDE DEF k, c, Matched, Dropped
<1>1. TypeOK'
  <2>1. slot' \in [Conns -> Conns \cup {None}] /\ work' \in [Conns -> WorkStates]
    <3>1. CASE Matched
      BY <3>1 DEF TypeOK, WorkStates, Matched
    <3>2. CASE Dropped
      BY <3>2 DEF TypeOK, WorkStates, Dropped
    <3>3. QED
      BY <1>c, <3>1, <3>2
  <2>2. QED
    BY <1>a, <1>b, <2>1 DEF TypeOK
<1>2. IdsSound'
  BY <1>b DEF IdsSound, Active
<1>3. RequestsSound'
  <2>1. CASE Matched
    BY <1>b, QueueConns, <2>1 DEF RequestsSound, NotAsked, Matched
  <2>2. CASE Dropped
    BY <1>b, QueueConns, <2>2 DEF RequestsSound, NotAsked, Dropped
  <2>3. QED
    BY <1>c, <2>1, <2>2
<1>4. SlotsSound'
  <2>1. CASE Matched
    BY <1>b, <1>d, <1>e, <2>1 DEF SlotsSound, ReceiverAlive, TypeOK, Matched
  <2>2. CASE Dropped
    BY <1>b, <1>d, <1>e, <2>2 DEF SlotsSound, Dropped
  <2>3. QED
    BY <1>c, <2>1, <2>2
<1>5. OwnWorkConn'
  <2>1. c \in Conns => connId[w] = connId[c] /\ (w = c \/ born[w] < born[c])
    BY <1>a, <1>d DEF IdsSound, Active, TypeOK, k
  <2>2. QED
    BY <1>b, <1>c, <2>1 DEF OwnWorkConn, TypeOK, Matched, Dropped
<1>6. WorkConnServesOne'
  <2>1. CASE Matched
    BY <1>e, <2>1 DEF WorkConnServesOne, Matched
  <2>2. CASE Dropped
    BY <1>e, <2>2 DEF WorkConnServesOne, Dropped
  <2>3. QED
    BY <1>c, <2>1, <2>2
<1>7. PendingSound'
  BY <1>a, <1>b, <1>c, <1>d DEF PendingSound, TypeOK, c, Matched, Dropped
<1>8. WaiterReachable'
  <2>1. CASE Matched
    BY <1>a, <1>b, <1>d, <2>1 DEF WaiterReachable, ReceiverAlive, TypeOK, c, Matched
  <2>2. CASE Dropped
    BY <1>a, <1>b, <1>d, <2>2 DEF WaiterReachable, ReceiverAlive, c, Dropped
  <2>3. QED
    BY <1>c, <2>1, <2>2
<1>9. AnswerNotLost'
  <2>1. CASE Matched
    BY <1>b, <1>d, <1>e, <2>1 DEF AnswerNotLost, Matched
  <2>2. CASE Dropped
    <3>1. pc[w] \in {"bridged", "closed"} => slot[w] # None
      BY DEF SlotsSound
    <3>2. RegistersFirst(w) => pc[w] # "sent"
      BY DEF RequestsSound
    <3>3. pc[w] = "waiting" => slot[w] # None
      BY <1>a, <2>2 DEF WaiterReachable, ReceiverAlive, Dropped, k, c
    <3>4. RegistersFirst(w) => pc[w] \in {"deadline", "expired", "failed"} \/ slot[w] # None
      BY <1>b, <3>1, <3>2, <3>3 DEF NotAsked, TypeOK, PcStates
    <3>5. QED
      BY <1>b, <1>e, <2>2, <3>4 DEF AnswerNotLost, Dropped, RegistersFirst
  <2>3. QED
    BY <1>c, <2>1, <2>2
<1>10. QED
  BY <1>1, <1>2, <1>3, <1>4, <1>5, <1>6, <1>7, <1>8, <1>9

\* The client's session comes and goes, and with it what was queued.
LEMMA SessionInv ==
    ASSUME IInv, SessionUp \/ SessionLeaves \/ SessionDown
    PROVE  IInv'
<1> USE ConnsAssumption, BoundsAssumption DEF IInv
<1>1. TypeOK'
  <2>1. queue' = queue \/ queue' = <<>>
    BY DEF SessionUp, SessionLeaves, SessionDown
  <2> <<>> \in Seq(Conns)
    BY EmptySeq
  <2>2. QED
    BY <2>1, Zenon DEF SessionUp, SessionLeaves, SessionDown, TypeOK
<1>2. IdsSound'
  BY DEF SessionUp, SessionLeaves, SessionDown, IdsSound, Active
<1>3. RequestsSound'
  <2>1. queue' = queue \/ (queue' = <<>> /\ Len(queue') = 0)
    BY EmptySeq DEF SessionUp, SessionLeaves, SessionDown
  <2>2. pc' = pc /\ work' = work
    BY DEF SessionUp, SessionLeaves, SessionDown
  <2>3. QED
    BY <2>1, <2>2 DEF RequestsSound, NotAsked
<1>4. SlotsSound'
  BY DEF SessionUp, SessionLeaves, SessionDown, SlotsSound
<1>5. OwnWorkConn'
  BY DEF SessionUp, SessionLeaves, SessionDown, OwnWorkConn
<1>6. WorkConnServesOne'
  BY DEF SessionUp, SessionLeaves, SessionDown, WorkConnServesOne
<1>7. PendingSound'
  BY DEF SessionUp, SessionLeaves, SessionDown, PendingSound
<1>8. WaiterReachable'
  BY DEF SessionUp, SessionLeaves, SessionDown, WaiterReachable
<1>9. AnswerNotLost'
  BY DEF SessionUp, SessionLeaves, SessionDown, AnswerNotLost
<1>10. QED
  BY <1>1, <1>2, <1>3, <1>4, <1>5, <1>6, <1>7, <1>8, <1>9

\* A restart forgets every handler under way and starts the ids again at 1.
LEMMA RestartInv ==
    ASSUME IInv, Restart
    PROVE  IInv'
<1> USE ConnsAssumption, BoundsAssumption DEF IInv
<1>1. TypeOK'
  BY DEF Restart, TypeOK, PcStates, WorkStates
<1>2. IdsSound'
  BY DEF Restart, TypeOK, IdsSound, Active
<1>3. RequestsSound'
  BY DEF Restart, RequestsSound, NotAsked
<1>4. SlotsSound'
  BY DEF Restart, TypeOK, SlotsSound
<1>5. OwnWorkConn'
  BY DEF Restart, OwnWorkConn
<1>6. WorkConnServesOne'
  BY DEF Restart, WorkConnServesOne
<1>7. PendingSound'
  BY DEF Restart, PendingSound
<1>8. WaiterReachable'
  BY DEF Restart, WaiterReachable
<1>9. AnswerNotLost'
  BY DEF Restart, AnswerNotLost, SlotsSound, IdsSound, RequestsSound, NotAsked
<1>10. QED
  BY <1>1, <1>2, <1>3, <1>4, <1>5, <1>6, <1>7, <1>8, <1>9

\* A step that changes nothing.
LEMMA StutterInv ==
    ASSUME IInv, UNCHANGED vars
    PROVE  IInv'
<1> USE ConnsAssumption, BoundsAssumption DEF IInv
<1>1. TypeOK'
  BY DEF vars, TypeOK
<1>2. IdsSound'
  BY DEF vars, IdsSound, Active
<1>3. RequestsSound'
  BY DEF vars, RequestsSound, NotAsked
<1>4. SlotsSound'
  BY DEF vars, SlotsSound
<1>5. OwnWorkConn'
  BY DEF vars, OwnWorkConn
<1>6. WorkConnServesOne'
  BY DEF vars, WorkConnServesOne
<1>7. PendingSound'
  BY DEF vars, PendingSound
<1>8. WaiterReachable'
  BY DEF vars, WaiterReachable
<1>9. AnswerNotLost'
  BY DEF vars, AnswerNotLost
<1>10. QED
  BY <1>1, <1>2, <1>3, <1>4, <1>5, <1>6, <1>7, <1>8, <1>9

\* Every step of the system preserves the inductive invariant.
LEMMA NextInv ==
    ASSUME IInv, [Next]_vars
    PROVE  IInv'
  BY AllocateInv, InsertPendingInv, SendToInv, ReceiveInv, DeadlineInv, DropReceiverInv,
     GiveUpInv, EndBridgeInv, ClientReceiveInv, AnnounceInv, OpenFailsInv, RegisterWorkConnInv,
     SessionInv, RestartInv, StutterInv
     DEF Next, HandlerStep

\* The server starts with no connections, no entries and no requests.
LEMMA InitInv == Init => IInv
<1> SUFFICES ASSUME Init PROVE IInv
  OBVIOUS
<1> USE ConnsAssumption, BoundsAssumption DEF Init
<1>1. TypeOK
  BY EmptySeq DEF TypeOK, PcStates, WorkStates
<1>2. IdsSound /\ SlotsSound /\ OwnWorkConn /\ WorkConnServesOne
  BY DEF IdsSound, SlotsSound, OwnWorkConn, WorkConnServesOne
<1>3. RequestsSound
  BY EmptySeq DEF RequestsSound, NotAsked
<1>4. PendingSound /\ WaiterReachable /\ AnswerNotLost
  BY DEF PendingSound, WaiterReachable, AnswerNotLost
<1>5. QED
  BY <1>1, <1>2, <1>3, <1>4 DEF IInv

\* The inductive invariant holds in every reachable state.
THEOREM Invariance == Spec => []IInv
  BY InitInv, NextInv, PTL DEF Spec

\* The state of the rendezvous always has its type: ids stay within what the
\* counter has given out, the table holds handlers only.
THEOREM TypeCorrect == Spec => []TypeOK
  BY Invariance, PTL DEF IInv

\* A user is bridged to the work connection opened for the user (or, after a
\* restart, for the same id), and no two users to the same one: the traffic
\* of register_work_conn never crosses.
THEOREM ServedByOwn == Spec => [](OwnWorkConn /\ WorkConnServesOne)
  BY Invariance, PTL DEF IInv

\* pending_work_conns leaks no entry and loses no sender that is waited for,
\* on every path through handle_stream_proxy_conn and handle_udp_packet.
THEOREM PendingCorrect == Spec => [](PendingSound /\ WaiterReachable)
  BY Invariance, PTL DEF IInv

\* A handler that has put its oneshot into pending_work_conns and waits can still
\* be answered: its entry is there or has been used, and no other handler's
\* insert or removal takes it away.
THEOREM WaitersReachable == Spec => []WaiterReachable
  BY PendingCorrect, PTL

\* The answer to a stream's request is not turned away while the stream's
\* handler waits for it: handle_stream_proxy_conn registers before it asks.
THEOREM StreamAnswers == Spec => []AnswerNotLost
  BY Invariance, PTL DEF IInv

-----------------------------------------------------------------------------
(* Refinement *)

\* The initial states map to initial states of Rendezvous.
LEMMA RendezvousInit == Init => R!Init
  BY DEF Init, R!Init

\* Every step maps to a step of Rendezvous or leaves its variables alone: only
\* Receive serves a user, and it does so with a work connection that serves
\* nobody else.
LEMMA RendezvousStep ==
    ASSUME IInv, [Next]_vars
    PROVE  [R!Next]_(R!vars)
<1> USE ConnsAssumption, BoundsAssumption DEF IInv
<1>1. ASSUME NEW c \in Conns, Allocate(c)  PROVE R!Open(c)
  BY <1>1 DEF Allocate, TypeOK, R!Open
<1>2. ASSUME NEW c \in Conns, InsertPending(c) \/ Deadline(c)  PROVE UNCHANGED R!vars
  BY <1>2 DEF InsertPending, Deadline, TypeOK, R!vars
<1>3. ASSUME NEW c \in Conns, SendTo(c)  PROVE R!Refuse(c) \/ UNCHANGED R!vars
  <2>1. CASE session # "offline"
    BY <1>3, <2>1 DEF SendTo, TypeOK, R!vars
  <2>2. CASE session = "offline" /\ RegistersFirst(c)
    BY <1>3, <2>2 DEF SendTo, TypeOK, R!vars
  <2>3. CASE session = "offline" /\ ~RegistersFirst(c)
    BY <1>3, <2>3 DEF SendTo, TypeOK, R!Refuse
  <2>4. QED
    BY <2>1, <2>2, <2>3
<1>4. ASSUME NEW c \in Conns, Receive(c)  PROVE \E w \in Conns : R!Serve(c, w)
  <2>1. PICK w \in Conns : w = slot[c]
    BY <1>4 DEF Receive, TypeOK
  <2>2. w = c \/ born[w] < born[c]
    BY <2>1 DEF OwnWorkConn
  <2>3. \A d \in Conns : pc[d] \in {"bridged", "closed"} => slot[d] # w
    BY <1>4, <2>1 DEF Receive, WorkConnServesOne
  <2>4. R!MayServe(c, w)
    BY <2>2, <2>3 DEF R!MayServe
  <2>5. R!Serve(c, w)
    BY <1>4, <2>1, <2>4 DEF Receive, TypeOK, R!Serve
  <2>6. QED
    BY <2>5
<1>5. ASSUME NEW c \in Conns, DropReceiver(c)  PROVE UNCHANGED R!vars
  BY <1>5 DEF DropReceiver, R!vars
<1>6. ASSUME NEW c \in Conns, GiveUp(c)  PROVE R!Refuse(c)
  BY <1>6 DEF GiveUp, TypeOK, R!Refuse
<1>7. ASSUME NEW c \in Conns, EndBridge(c)  PROVE R!Close(c)
  BY <1>7 DEF EndBridge, TypeOK, R!Close
<1>8. ASSUME NEW w \in Conns, Announce(w) \/ OpenFails(w)  PROVE UNCHANGED R!vars
  BY <1>8 DEF Announce, OpenFails, R!vars
<1>9. ASSUME NEW w \in Conns, RegisterWorkConn(w)  PROVE UNCHANGED R!vars
  <2>1. \A d \in Conns : pc[d] \in {"bridged", "closed"} => slot'[d] = slot[d]
    BY <1>9 DEF RegisterWorkConn, ReceiverAlive, TypeOK
  <2>2. UNCHANGED <<pc, born, boot>>
    BY <1>9 DEF RegisterWorkConn
  <2>3. QED
    BY <2>1, <2>2 DEF R!vars
<1>10. ASSUME ClientReceive \/ SessionUp \/ SessionLeaves \/ SessionDown  PROVE UNCHANGED R!vars
  BY <1>10 DEF ClientReceive, SessionUp, SessionLeaves, SessionDown, R!vars
<1>11. ASSUME Restart  PROVE R!Restart
  BY <1>11 DEF Restart, SlotsSound, R!Restart
<1>12. ASSUME UNCHANGED vars  PROVE UNCHANGED R!vars
  BY <1>12 DEF vars, R!vars
<1>13. ASSUME NEW c \in Conns,
              \/ Allocate(c) \/ HandlerStep(c) \/ EndBridge(c)
              \/ Announce(c) \/ OpenFails(c) \/ RegisterWorkConn(c)
       PROVE  R!Next \/ UNCHANGED R!vars
  <2>1. CASE Allocate(c)
    BY <1>1, <2>1, Zenon DEF R!Next
  <2>2. CASE InsertPending(c) \/ Deadline(c) \/ DropReceiver(c)
    BY <1>2, <1>5, <2>2, Zenon
  <2>3. CASE SendTo(c) \/ GiveUp(c)
    BY <1>3, <1>6, <2>3, Zenon DEF R!Next
  <2>4. CASE Receive(c)
    BY <1>4, <2>4, Zenon DEF R!Next
  <2>5. CASE EndBridge(c)
    BY <1>7, <2>5, Zenon DEF R!Next
  <2>6. CASE Announce(c) \/ OpenFails(c) \/ RegisterWorkConn(c)
    BY <1>8, <1>9, <2>6, Zenon
  <2>7. QED
    BY <1>13, <2>1, <2>2, <2>3, <2>4, <2>5, <2>6, Zenon DEF HandlerStep
<1>14. R!Next \/ UNCHANGED R!vars
  BY <1>10, <1>11, <1>12, <1>13, Zenon DEF Next, R!Next
<1>15. QED
  BY <1>14

\* The handlers, the client and the dispatcher together implement Rendezvous:
\* every user is served once, by the right work connection, or refused.
THEOREM RefinesRendezvous == Spec => RendezvousSpec
  BY Invariance, RendezvousInit, RendezvousStep, PTL DEF Spec, RendezvousSpec, R!Spec
=============================================================================
