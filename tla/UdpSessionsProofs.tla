------------------------- MODULE UdpSessionsProofs --------------------------
(***************************************************************************)
(* Proofs about UdpSessions, for any sources, any number of datagrams and  *)
(* any capacity of the channels.                                           *)
(*                                                                         *)
(* IInv is inductive.  Beyond the properties it says that a session a task *)
(* has found belongs to the source of its datagram (FoundSound), and what  *)
(* keeps a task from removing the sender of a session that lives: while it *)
(* sends, the sender cannot be removed, and a session it has found dead    *)
(* stays dead.                                                             *)
(***************************************************************************)
EXTENDS UdpSessions, SequenceTheorems, TLAPS

\* A datagram that has a task has a source.
ArrivedSound == \A p \in Ids : pc[p] # "none" => from[p] \in Sources

\* The session a task has found is one of its datagram's source; its sender
\* stays in the table as long as the task sends, and it is over for good when
\* the task is about to remove it.
FoundSound ==
    \A p \in Ids :
        /\ pc[p] \in {"find", "send", "drop_session", "drop_sender"} =>
              found[p] \in Ids /\ pc[found[p]] # "none" /\ from[found[p]] = from[p]
        /\ pc[p] = "send" => found[p] \in senders
        /\ pc[p] \in {"drop_session", "drop_sender"} =>
              worker[found[p]] \in {"ended", "cleaned", "gone"}

\* A worker is spawned by the last step of the task that opens its session,
\* with the session's sender in the table.
WorkerSound ==
    \A i \in Ids :
        /\ worker[i] # "none" => pc[i] = "done"
        /\ pc[i] = "first" => i \in senders

\* q holds datagrams that have arrived, from the source of session i.
OfSession(q, i) ==
    \A n \in 1 .. Len(q) :
        pc[i] # "none" /\ pc[q[n]] # "none" /\ from[q[n]] = from[i]

\* What is in a session's channel and on its wire is of its source.
CarriedSound == \A i \in Ids : OfSession(chan[i], i) /\ OfSession(wire[i], i)

\* The inductive invariant.
IInv ==
    /\ TypeOK /\ ArrivedSound /\ FoundSound /\ WorkerSound /\ CarriedSound
    /\ EntriesAlive /\ WorkersReachable
-----------------------------------------------------------------------------
\* Frames and datagrams come and go one at a time: what a channel or a wire
\* holds stays of one source.
LEMMA OfAppend ==
    ASSUME NEW i \in Ids, NEW q \in Seq(Ids), NEW p \in Ids, OfSession(q, i),
           pc[i] # "none", pc[p] # "none", from[p] = from[i]
    PROVE  OfSession(Append(q, p), i)
<1> DEFINE w == Append(q, p)
<1>1. /\ Len(w) = Len(q) + 1 /\ w[Len(q) + 1] = p /\ Len(q) \in Nat
      /\ \A n \in 1 .. Len(q) : w[n] = q[n]
  BY AppendProperties, LenProperties
<1> HIDE DEF w
<1>2. \A n \in 1 .. Len(w) : n \in 1 .. Len(q) \/ n = Len(q) + 1
  BY <1>1
<1>3. OfSession(w, i)
  BY <1>1, <1>2 DEF OfSession
<1>4. QED
  BY <1>3 DEF w

LEMMA OfTail ==
    ASSUME NEW i \in Ids, NEW q \in Seq(Ids), q # <<>>, OfSession(q, i)
    PROVE  /\ OfSession(Tail(q), i) /\ Tail(q) \in Seq(Ids) /\ Len(Tail(q)) = Len(q) - 1
           /\ Head(q) \in Ids /\ Len(q) \in Nat
           /\ pc[i] # "none" /\ pc[Head(q)] # "none" /\ from[Head(q)] = from[i]
<1> DEFINE w == Tail(q)
<1>1. /\ w \in Seq(Ids) /\ Len(w) = Len(q) - 1 /\ Len(q) >= 1 /\ Len(q) \in Nat
      /\ Head(q) = q[1] /\ Head(q) \in Ids
      /\ \A n \in 1 .. Len(w) : w[n] = q[n + 1]
  BY HeadTailProperties, EmptySeq, LenProperties
<1> HIDE DEF w
<1>2. /\ 1 \in 1 .. Len(q)
      /\ \A n \in 1 .. Len(w) : n + 1 \in 1 .. Len(q)
  BY <1>1
<1>3. OfSession(w, i)
  BY <1>1, <1>2 DEF OfSession
<1>4. pc[i] # "none" /\ pc[q[1]] # "none" /\ from[q[1]] = from[i]
  BY <1>2 DEF OfSession
<1>5. QED
  BY <1>1, <1>3, <1>4 DEF w

LEMMA OfNone ==
    /\ <<>> \in Seq(Ids) /\ Len(<<>>) = 0
    /\ \A i \in Ids : OfSession(<<>>, i)
<1>1. <<>> \in Seq(Ids) /\ Len(<<>>) = 0
  BY EmptySeq
<1>2. \A n \in 1 .. 0 : FALSE
  OBVIOUS
<1>3. QED
  BY <1>1, <1>2 DEF OfSession

\* A step that lets no arrived datagram go back, nor changes where it is from,
\* keeps what a sequence holds of one source.
LEMMA OfKept ==
    ASSUME \A q \in Ids : pc[q] # "none" => pc'[q] # "none" /\ from'[q] = from[q]
    PROVE  \A i \in Ids : \A w \in Seq(Ids) : OfSession(w, i) => OfSession(w, i)'
<1> SUFFICES ASSUME NEW i \in Ids, NEW w \in Seq(Ids), OfSession(w, i), NEW n \in 1 .. Len(w)
             PROVE  pc'[i] # "none" /\ pc'[w[n]] # "none" /\ from'[w[n]] = from'[i]
  BY DEF OfSession
<1>1. w[n] \in Ids
  BY ElementOfSeq
<1>2. QED
  BY <1>1 DEF OfSession

\* What a task's step leaves alone when it only moves the task.
LEMMA TaskStep ==
    ASSUME IInv, NEW p \in Ids, NEW l \in PcStates, NEW f \in Ids \cup {None},
           pc[p] # "none", l # "none",
           pc' = [pc EXCEPT ![p] = l], found' = [found EXCEPT ![p] = f], UNCHANGED from
    PROVE  /\ pc'[p] = l /\ found'[p] = f
           /\ \A q \in Ids \ {p} : pc'[q] = pc[q] /\ found'[q] = found[q]
           /\ \A q \in Ids : pc[q] # "none" => pc'[q] # "none" /\ from'[q] = from[q]
           /\ pc' \in [Ids -> PcStates] /\ found' \in [Ids -> Ids \cup {None}]
           /\ ArrivedSound'
           /\ \A i \in Ids : \A w \in Seq(Ids) : OfSession(w, i) => OfSession(w, i)'
<1>1. /\ pc'[p] = l /\ found'[p] = f
      /\ \A q \in Ids \ {p} : pc'[q] = pc[q] /\ found'[q] = found[q]
      /\ pc' \in [Ids -> PcStates] /\ found' \in [Ids -> Ids \cup {None}]
  BY DEF IInv, TypeOK
<1>2. \A q \in Ids : pc[q] # "none" => pc'[q] # "none" /\ from'[q] = from[q]
  BY <1>1
<1>3. ArrivedSound'
  BY <1>1 DEF IInv, ArrivedSound
<1>4. QED
  BY <1>1, <1>2, <1>3, OfKept

\* Goto and Return move the task, the one with and the other without what it
\* has found.
LEMMA Moves ==
    ASSUME TypeOK, NEW p \in Ids
    PROVE  /\ found[p] \in Ids \cup {None}
           /\ \A l : Goto(p, l) => /\ pc' = [pc EXCEPT ![p] = l]
                                  /\ found' = [found EXCEPT ![p] = found[p]]
           /\ Return(p) => /\ pc' = [pc EXCEPT ![p] = "done"]
                           /\ found' = [found EXCEPT ![p] = None]
  BY DEF TypeOK, Goto, Return

\* The session an entry names is one whose datagram has arrived.
LEMMA EntryArrived ==
    ASSUME IInv, NEW t \in Sources, sessions[t] # None
    PROVE  sessions[t] \in Ids /\ pc[sessions[t]] # "none"
<1>1. sessions[t] \in Ids
  BY DEF IInv, TypeOK
<1>2. CASE worker[sessions[t]] \in {"run", "ended"}
  <2>1. pc[sessions[t]] = "done"
    BY <1>1, <1>2 DEF IInv, WorkerSound
  <2>2. QED
    BY <1>1, <2>1
<1>3. CASE worker[sessions[t]] \notin {"run", "ended"}
  BY <1>1, <1>3 DEF IInv, EntriesAlive
<1>4. QED
  BY <1>2, <1>3

\* A step that leaves channels and wires alone keeps what they hold.
LEMMA CarriedKept ==
    ASSUME IInv, UNCHANGED <<chan, wire>>,
           \A i \in Ids : \A w \in Seq(Ids) : OfSession(w, i) => OfSession(w, i)'
    PROVE  CarriedSound'
<1>1. \A i \in Ids : chan[i] \in Seq(Ids) /\ wire[i] \in Seq(Ids)
  BY DEF IInv, TypeOK
<1>2. \A i \in Ids : chan'[i] = chan[i] /\ wire'[i] = wire[i]
  OBVIOUS
<1>3. \A i \in Ids : OfSession(chan[i], i)' /\ OfSession(wire[i], i)'
  <2> SUFFICES ASSUME NEW i \in Ids  PROVE OfSession(chan[i], i)' /\ OfSession(wire[i], i)'
    OBVIOUS
  <2>1. OfSession(chan[i], i) /\ OfSession(wire[i], i)
    BY DEF IInv, CarriedSound
  <2>2. chan'[i] = chan[i] /\ wire'[i] = wire[i] /\ chan[i] \in Seq(Ids) /\ wire[i] \in Seq(Ids)
    BY <1>1, <1>2
  <2>3. \A w \in Seq(Ids) : OfSession(w, i) => OfSession(w, i)'
    OBVIOUS
  <2>4. QED
    BY <2>1, <2>2, <2>3 DEF OfSession
<1>4. QED
  BY <1>3 DEF CarriedSound

-----------------------------------------------------------------------------
\* recv_from: nothing refers to the datagram yet.
LEMMA ArriveInv ==
    ASSUME IInv, NEW p \in Ids, NEW s \in Sources, Arrive(p, s)
    PROVE  IInv'
<1> USE NoneAssumption DEF IInv
<1>a. /\ pc[p] = "none" /\ pc' = [pc EXCEPT ![p] = "look"] /\ from' = [from EXCEPT ![p] = s]
      /\ UNCHANGED <<found, sessions, senders, chan, worker, wire, client>>
  BY DEF Arrive, Goto
<1>b. /\ pc'[p] = "look" /\ from'[p] = s
      /\ \A q \in Ids \ {p} : pc'[q] = pc[q] /\ from'[q] = from[q]
  BY <1>a DEF TypeOK
<1>1. TypeOK'
  BY <1>a DEF TypeOK, PcStates
<1>2. ArrivedSound'
  BY <1>b DEF ArrivedSound
<1>3. FoundSound'
  BY <1>a, <1>b DEF FoundSound
<1>4. WorkerSound'
  BY <1>a, <1>b DEF WorkerSound
<1>5. CarriedSound'
  BY <1>a, <1>b, OfKept, CarriedKept
<1>6. EntriesAlive'
  <2>1. \A t \in Sources : sessions[t] # None => sessions[t] \in Ids /\ pc[sessions[t]] # "none"
    BY EntryArrived
  <2>2. QED
    BY <1>a, <1>b, <2>1 DEF EntriesAlive
<1>7. WorkersReachable'
  BY <1>a, <1>b DEF TypeOK, WorkersReachable
<1>8. QED
  BY <1>1, <1>2, <1>3, <1>4, <1>5, <1>6, <1>7

\* The steps of a task that only move it: looking for a session and for its
\* channel, and waiting for the work connection.
LEMMA MoveInv ==
    ASSUME IInv, NEW p \in Ids,
           LookUp(p) \/ FindSender(p) \/ Request(p) \/ Connected(p) \/ TimesOut(p)
    PROVE  IInv'
<1> USE NoneAssumption DEF IInv
<1>a. UNCHANGED <<from, sessions, senders, chan, worker, wire>>
  BY DEF LookUp, FindSender, Request, Connected, TimesOut
<1>b. PICK l \in PcStates, f \in Ids \cup {None} :
         /\ pc' = [pc EXCEPT ![p] = l] /\ found' = [found EXCEPT ![p] = f]
         /\ \/ pc[p] = "look" /\ l = "open"
            \/ pc[p] = "look" /\ l = "find" /\ f = sessions[from[p]] /\ f # None
            \/ pc[p] = "find" /\ l = "send" /\ f = found[p] /\ f \in senders
            \/ pc[p] = "find" /\ l = "done"
            \/ pc[p] = "request" /\ l \in {"wait", "abandon"}
            \/ pc[p] = "wait" /\ l \in {"insert", "abandon"}
  <2>l. /\ {"open", "find", "send", "done", "wait", "abandon", "insert"} \subseteq PcStates
        /\ found[p] \in Ids \cup {None}
    BY DEF PcStates, TypeOK
  <2>1. CASE LookUp(p)
    <3>1. sessions[from[p]] \in Ids \cup {None}
      BY <2>1 DEF LookUp, ArrivedSound, TypeOK
    <3>2. QED
      BY <2>1, <2>l, <3>1 DEF LookUp
  <2>2. CASE FindSender(p)
    BY <2>2, <2>l, Moves DEF FindSender
  <2>3. CASE Request(p)
    BY <2>3, <2>l, Moves DEF Request
  <2>4. CASE Connected(p)
    BY <2>4, <2>l, Moves DEF Connected
  <2>5. CASE TimesOut(p)
    BY <2>5, <2>l, Moves DEF TimesOut
  <2>6. QED
    BY <2>1, <2>2, <2>3, <2>4, <2>5
<1>c. /\ pc[p] # "none" /\ l # "none" /\ worker[p] = "none"
  BY <1>b DEF WorkerSound
<1>d. /\ pc'[p] = l /\ found'[p] = f
      /\ \A q \in Ids \ {p} : pc'[q] = pc[q] /\ found'[q] = found[q]
      /\ \A q \in Ids : pc[q] # "none" => pc'[q] # "none" /\ from'[q] = from[q]
      /\ pc' \in [Ids -> PcStates] /\ found' \in [Ids -> Ids \cup {None}]
      /\ ArrivedSound'
      /\ \A i \in Ids : \A w \in Seq(Ids) : OfSession(w, i) => OfSession(w, i)'
  BY <1>a, <1>b, <1>c, TaskStep
<1>1. TypeOK'
  <2>1. client' \in [Ids -> {"none", "open", "gone"}]
    BY DEF LookUp, FindSender, Request, Connected, TimesOut, TypeOK
  <2>2. QED
    BY <1>a, <1>d, <2>1 DEF TypeOK
<1>3. FoundSound'
  <2>1. ASSUME NEW q \in Ids \ {p}  PROVE FoundSound!(q)'
    BY <1>a, <1>d DEF FoundSound
  <2>2. FoundSound!(p)'
    <3>1. CASE l = "find"
      <4>1. from[p] \in Sources /\ sessions[from[p]] = f /\ f \in Ids
        BY <1>b, <3>1 DEF ArrivedSound
      <4>2. from[f] = from[p] /\ pc[f] # "none"
        <5>1. pc[sessions[from[p]]] # "none"
          BY <1>b, <3>1, <4>1, EntryArrived
        <5>2. from[sessions[from[p]]] = from[p]
          BY <1>b, <3>1, <4>1 DEF EntriesAlive
        <5>3. QED
          BY <4>1, <5>1, <5>2
      <4>3. QED
        BY <1>a, <1>d, <3>1, <4>1, <4>2
    <3>2. CASE l = "send"
      BY <1>a, <1>b, <1>d, <3>2 DEF FoundSound
    <3>3. CASE l \notin {"find", "send", "drop_session", "drop_sender"}
      BY <1>d, <3>3
    <3>4. QED
      BY <1>b, <3>1, <3>2, <3>3
  <2>3. QED
    BY <2>1, <2>2 DEF FoundSound
<1>4. WorkerSound'
  BY <1>a, <1>b, <1>c, <1>d DEF WorkerSound
<1>5. CarriedSound'
  BY <1>a, <1>d, CarriedKept
<1>6. EntriesAlive'
  BY <1>a, <1>b, <1>c, <1>d DEF TypeOK, EntriesAlive
<1>7. WorkersReachable'
  BY <1>a, <1>b, <1>c, <1>d DEF TypeOK, WorkersReachable
<1>8. QED
  BY <1>1, <1>d, <1>3, <1>4, <1>5, <1>6, <1>7

\* tx.send: the datagram goes into the channel of its source's session, or the
\* session, whose sender is still in the table, is over.
LEMMA SendInv ==
    ASSUME IInv, NEW p \in Ids, Send(p)
    PROVE  IInv'
<1> USE NoneAssumption DEF IInv
<1> DEFINE g == found[p]
<1>a. /\ pc[p] = "send" /\ UNCHANGED <<from, sessions, senders, worker, wire, client>>
      /\ worker[p] = "none"
  BY DEF Send, WorkerSound
<1>b. /\ g \in Ids /\ pc[g] # "none" /\ from[g] = from[p] /\ g \in senders
  BY <1>a DEF FoundSound
<1>c. PICK l \in PcStates, f \in Ids \cup {None} :
         /\ pc' = [pc EXCEPT ![p] = l] /\ found' = [found EXCEPT ![p] = f]
         /\ \/ /\ l = "done" /\ Len(chan[g]) < Room
               /\ chan' = [chan EXCEPT ![g] = Append(chan[g], p)]
            \/ /\ l = "drop_session" /\ f = g /\ chan' = chan
               /\ pc[g] # "first" /\ worker[g] # "run"
  <2>l. "done" \in PcStates /\ "drop_session" \in PcStates
    BY DEF PcStates
  <2>2. QED
    BY <1>b, <2>l, Moves DEF Send, ReceiverAlive
<1>d. /\ pc'[p] = l /\ found'[p] = f
      /\ \A q \in Ids \ {p} : pc'[q] = pc[q] /\ found'[q] = found[q]
      /\ \A q \in Ids : pc[q] # "none" => pc'[q] # "none" /\ from'[q] = from[q]
      /\ pc' \in [Ids -> PcStates] /\ found' \in [Ids -> Ids \cup {None}]
      /\ ArrivedSound'
      /\ \A i \in Ids : \A w \in Seq(Ids) : OfSession(w, i) => OfSession(w, i)'
  BY <1>a, <1>c, TaskStep
<1>e. /\ chan[g] \in Seq(Ids) /\ Append(chan[g], p) \in Seq(Ids)
      /\ Len(chan[g]) \in Nat /\ Len(Append(chan[g], p)) = Len(chan[g]) + 1
  BY <1>b, AppendProperties, LenProperties DEF TypeOK
<1>f. OfSession(Append(chan[g], p), g)
  BY <1>a, <1>b, <1>e, OfAppend DEF CarriedSound
<1> DEFINE w == Append(chan[g], p)
<1> HIDE DEF w
<1>g. chan' = chan \/ (chan' = [chan EXCEPT ![g] = w] /\ Len(w) <= Room)
  <2>1. Len(chan[g]) < Room => Len(w) <= Room
    BY <1>e, BoundsAssumption DEF w
  <2>2. QED
    <3>1. chan' = chan \/ (chan' = [chan EXCEPT ![g] = w] /\ Len(chan[g]) < Room)
      BY <1>c, Zenon DEF w
    <3>2. QED
      BY <2>1, <3>1
<1>h. w \in Seq(Ids) /\ OfSession(w, g)
  BY <1>e, <1>f DEF w
<1>1. TypeOK'
  <2>1. chan' \in [Ids -> Seq(Ids)] /\ \A i \in Ids : Len(chan'[i]) <= Room
    BY <1>b, <1>g, <1>h DEF TypeOK
  <2>2. QED
    BY <1>a, <1>d, <2>1 DEF TypeOK
<1>3. FoundSound'
  <2>1. ASSUME NEW q \in Ids \ {p}  PROVE FoundSound!(q)'
    BY <1>a, <1>d DEF FoundSound
  <2>2. FoundSound!(p)'
    <3>1. CASE l = "drop_session"
      <4>1. worker[g] \in {"ended", "cleaned"} /\ f = g
        BY <1>b, <1>c, <3>1 DEF WorkersReachable
      <4>2. QED
        BY <1>a, <1>b, <1>d, <3>1, <4>1
    <3>2. CASE l = "done"
      BY <1>d, <3>2
    <3>3. QED
      BY <1>c, <3>1, <3>2
  <2>3. QED
    BY <2>1, <2>2 DEF FoundSound
<1>4. WorkerSound'
  BY <1>a, <1>c, <1>d DEF WorkerSound
<1>5. CarriedSound'
  <2>1. CASE chan' = chan
    BY <1>a, <1>d, <2>1, CarriedKept
  <2>2. CASE chan' = [chan EXCEPT ![g] = w]
    <3>1. \A i \in Ids : /\ chan'[i] \in Seq(Ids) /\ wire'[i] \in Seq(Ids)
                          /\ OfSession(chan'[i], i) /\ OfSession(wire'[i], i)
      BY <1>a, <1>b, <1>h, <2>2 DEF TypeOK, CarriedSound
    <3>2. QED
      BY <1>d, <3>1 DEF CarriedSound, OfSession
  <2>3. QED
    BY <1>g, <2>1, <2>2
<1>6. EntriesAlive'
  BY <1>a, <1>c, <1>d DEF TypeOK, EntriesAlive
<1>7. WorkersReachable'
  BY <1>a, <1>c, <1>d DEF TypeOK, WorkersReachable
<1>8. QED
  BY <1>1, <1>d, <1>3, <1>4, <1>5, <1>6, <1>7

\* The steps of a task that write the source's entry: an entry goes, or names
\* the session that is being opened.
LEMMA EntryInv ==
    ASSUME IInv, NEW p \in Ids, DropSession(p) \/ Abandon(p) \/ OpenSession(p)
    PROVE  IInv'
<1> USE NoneAssumption DEF IInv
<1>a. UNCHANGED <<from, senders, chan, worker, wire, client>>
  BY DEF DropSession, Abandon, OpenSession, RemoveEntry
<1>b. PICK l \in PcStates, f \in Ids \cup {None}, x \in {None, p} :
         /\ pc' = [pc EXCEPT ![p] = l] /\ found' = [found EXCEPT ![p] = f]
         /\ sessions' = [sessions EXCEPT ![from[p]] = x]
         /\ \/ pc[p] = "drop_session" /\ l = "drop_sender" /\ f = found[p] /\ x = None
            \/ pc[p] = "abandon" /\ l = "done" /\ x = None
            \/ pc[p] = "open" /\ l = "request" /\ x = p
  <2>l. {"drop_sender", "done", "request"} \subseteq PcStates
    BY DEF PcStates
  <2>1. CASE DropSession(p)
    BY <2>1, <2>l, Moves DEF DropSession, RemoveEntry
  <2>2. CASE Abandon(p)
    BY <2>2, <2>l, Moves DEF Abandon, RemoveEntry
  <2>3. CASE OpenSession(p)
    BY <2>3, <2>l, Moves DEF OpenSession
  <2>4. QED
    BY <2>1, <2>2, <2>3
<1>c. pc[p] # "none" /\ l # "none" /\ worker[p] = "none" /\ from[p] \in Sources
  BY <1>b DEF WorkerSound, ArrivedSound
<1>d. /\ pc'[p] = l /\ found'[p] = f
      /\ \A q \in Ids \ {p} : pc'[q] = pc[q] /\ found'[q] = found[q]
      /\ \A q \in Ids : pc[q] # "none" => pc'[q] # "none" /\ from'[q] = from[q]
      /\ pc' \in [Ids -> PcStates] /\ found' \in [Ids -> Ids \cup {None}]
      /\ ArrivedSound'
      /\ \A i \in Ids : \A w \in Seq(Ids) : OfSession(w, i) => OfSession(w, i)'
  BY <1>a, <1>b, <1>c, TaskStep
<1>s. /\ sessions'[from[p]] = x
      /\ \A t \in Sources \ {from[p]} : sessions'[t] = sessions[t]
      /\ sessions' \in [Sources -> Ids \cup {None}]
  BY <1>b, <1>c DEF TypeOK
<1>1. TypeOK'
  BY <1>a, <1>d, <1>s DEF TypeOK
<1>3. FoundSound'
  <2>1. ASSUME NEW q \in Ids \ {p}  PROVE FoundSound!(q)'
    BY <1>a, <1>d DEF FoundSound
  <2>2. FoundSound!(p)'
    BY <1>a, <1>b, <1>d DEF FoundSound
  <2>3. QED
    BY <2>1, <2>2 DEF FoundSound
<1>4. WorkerSound'
  BY <1>a, <1>b, <1>c, <1>d DEF WorkerSound
<1>5. CarriedSound'
  BY <1>a, <1>d, CarriedKept
<1>6. EntriesAlive'
  <2>1. ASSUME NEW t \in Sources \ {from[p]}, sessions'[t] # None
        PROVE  /\ from'[sessions'[t]] = t
               /\ \/ pc'[sessions'[t]] \in {"request", "wait", "insert", "first", "abandon"}
                  \/ worker'[sessions'[t]] \in {"run", "ended"}
    <3>1. sessions[t] # None /\ sessions[t] \in Ids /\ sessions'[t] = sessions[t]
      BY <1>s, <2>1 DEF TypeOK
    <3>2. from[sessions[t]] = t /\ sessions[t] # p
      BY <2>1, <3>1 DEF EntriesAlive
    <3>3. QED
      BY <1>a, <1>d, <2>1, <3>1, <3>2 DEF EntriesAlive
  <2>2. ASSUME sessions'[from[p]] # None
        PROVE  sessions'[from[p]] = p /\ from'[p] = from[p] /\ pc'[p] = "request"
    BY <1>a, <1>b, <1>d, <1>s, <2>2
  <2>3. QED
    BY <2>1, <2>2 DEF EntriesAlive
<1>7. WorkersReachable'
  BY <1>a, <1>b, <1>c, <1>d DEF TypeOK, WorkersReachable
<1>8. QED
  BY <1>1, <1>d, <1>3, <1>4, <1>5, <1>6, <1>7

\* The steps of a task that write session_senders: nobody sends meanwhile, and
\* the sender removed is that of a session found dead.
LEMMA SendersInv ==
    ASSUME IInv, NEW p \in Ids, DropSender(p) \/ InsertSender(p)
    PROVE  IInv'
<1> USE NoneAssumption DEF IInv
<1>a. /\ UNCHANGED <<from, sessions, chan, worker, wire, client>>
      /\ \A q \in Ids : pc[q] # "send"
  BY DEF DropSender, InsertSender, SendersUnread
<1>b. PICK l \in PcStates, f \in Ids \cup {None} :
         /\ pc' = [pc EXCEPT ![p] = l] /\ found' = [found EXCEPT ![p] = f]
         /\ \/ pc[p] = "drop_sender" /\ l = "done" /\ senders' = senders \ {found[p]}
            \/ pc[p] = "insert" /\ l = "first" /\ senders' = senders \cup {p}
  <2>l. "done" \in PcStates /\ "first" \in PcStates
    BY DEF PcStates
  <2>2. QED
    BY <2>l, Moves DEF DropSender, InsertSender
<1>c. pc[p] # "none" /\ l # "none" /\ worker[p] = "none"
  BY <1>b DEF WorkerSound
<1>d. /\ pc'[p] = l /\ found'[p] = f
      /\ \A q \in Ids \ {p} : pc'[q] = pc[q] /\ found'[q] = found[q]
      /\ \A q \in Ids : pc[q] # "none" => pc'[q] # "none" /\ from'[q] = from[q]
      /\ pc' \in [Ids -> PcStates] /\ found' \in [Ids -> Ids \cup {None}]
      /\ ArrivedSound'
      /\ \A i \in Ids : \A w \in Seq(Ids) : OfSession(w, i) => OfSession(w, i)'
  BY <1>a, <1>b, <1>c, TaskStep
<1>1. TypeOK'
  <2>1. senders' \subseteq Ids
    BY <1>b DEF TypeOK
  <2>2. QED
    BY <1>a, <1>d, <2>1 DEF TypeOK
<1>3. FoundSound'
  <2>1. ASSUME NEW q \in Ids \ {p}  PROVE FoundSound!(q)'
    BY <1>a, <1>d DEF FoundSound
  <2>2. FoundSound!(p)'
    BY <1>b, <1>d
  <2>3. QED
    BY <2>1, <2>2 DEF FoundSound
<1>4. WorkerSound'
  <2>1. CASE pc[p] = "drop_sender"
    <3>1. worker[found[p]] # "none" /\ found[p] \in Ids /\ senders' = senders \ {found[p]} /\ l = "done"
      BY <1>b, <2>1 DEF FoundSound
    <3>2. pc[found[p]] = "done"
      BY <3>1 DEF WorkerSound
    <3>3. QED
      BY <1>a, <1>c, <1>d, <3>1, <3>2 DEF WorkerSound
  <2>2. CASE pc[p] = "insert"
    BY <1>a, <1>b, <1>c, <1>d, <2>2 DEF WorkerSound
  <2>3. QED
    BY <1>b, <2>1, <2>2
<1>5. CarriedSound'
  BY <1>a, <1>d, CarriedKept
<1>6. EntriesAlive'
  BY <1>a, <1>b, <1>c, <1>d DEF TypeOK, EntriesAlive
<1>7. WorkersReachable'
  <2>1. CASE pc[p] = "drop_sender"
    <3>1. worker[found[p]] \in {"ended", "cleaned", "gone"} /\ senders' = senders \ {found[p]}
      BY <1>b, <2>1 DEF FoundSound
    <3>2. p \notin senders
      BY <1>c, <2>1 DEF WorkersReachable
    <3>3. QED
      BY <1>a, <1>d, <3>1, <3>2 DEF TypeOK, WorkersReachable
  <2>2. CASE pc[p] = "insert"
    BY <1>a, <1>b, <1>d, <2>2 DEF TypeOK, WorkersReachable
  <2>3. QED
    BY <1>b, <2>1, <2>2
<1>8. QED
  BY <1>1, <1>d, <1>3, <1>4, <1>5, <1>6, <1>7

\* The first datagram of a session, and its worker.
LEMMA SendFirstInv ==
    ASSUME IInv, NEW p \in Ids, SendFirst(p)
    PROVE  IInv'
<1> USE NoneAssumption DEF IInv
<1> DEFINE w == Append(chan[p], p)
<1>a. /\ pc[p] = "first" /\ Len(chan[p]) < Room /\ chan' = [chan EXCEPT ![p] = w]
      /\ worker' = [worker EXCEPT ![p] = "run"]
      /\ pc' = [pc EXCEPT ![p] = "done"] /\ found' = [found EXCEPT ![p] = None]
      /\ UNCHANGED <<from, sessions, senders, wire, client>>
      /\ worker[p] = "none"
  BY Moves DEF SendFirst, WorkerSound
<1>d. /\ pc'[p] = "done"
      /\ \A q \in Ids \ {p} : pc'[q] = pc[q] /\ found'[q] = found[q]
      /\ \A q \in Ids : pc[q] # "none" => pc'[q] # "none" /\ from'[q] = from[q]
      /\ pc' \in [Ids -> PcStates] /\ found' \in [Ids -> Ids \cup {None}]
      /\ ArrivedSound'
      /\ \A i \in Ids : \A v \in Seq(Ids) : OfSession(v, i) => OfSession(v, i)'
  <2>1. "done" \in PcStates /\ None \in Ids \cup {None}
    BY DEF PcStates
  <2>2. QED
    BY <1>a, <2>1, TaskStep
<1>e. /\ w \in Seq(Ids) /\ Len(w) = Len(chan[p]) + 1 /\ Len(chan[p]) \in Nat
      /\ chan[p] \in Seq(Ids)
  BY AppendProperties, LenProperties DEF TypeOK
<1>f. OfSession(w, p)
  BY <1>a, <1>e, OfAppend DEF CarriedSound
<1> HIDE DEF w
<1>g. worker'[p] = "run" /\ \A q \in Ids \ {p} : worker'[q] = worker[q]
  BY <1>a DEF TypeOK
<1>h. chan'[p] = w /\ \A q \in Ids \ {p} : chan'[q] = chan[q]
  BY <1>a DEF TypeOK
<1>1. TypeOK'
  <2>1. Len(w) <= Room
    BY <1>a, <1>e, BoundsAssumption
  <2>2. chan' \in [Ids -> Seq(Ids)]
    BY <1>a, <1>e DEF TypeOK
  <2>3. \A i \in Ids : Len(chan'[i]) <= Room
    BY <1>h, <2>1 DEF TypeOK
  <2>4. worker' \in [Ids -> WorkerStates]
    BY <1>a DEF TypeOK, WorkerStates
  <2>5. QED
    BY <1>a, <1>d, <2>2, <2>3, <2>4 DEF TypeOK
<1>3. FoundSound'
  <2>1. ASSUME NEW q \in Ids \ {p}  PROVE FoundSound!(q)'
    BY <1>a, <1>d, <1>g DEF FoundSound
  <2>2. FoundSound!(p)'
    BY <1>d
  <2>3. QED
    BY <2>1, <2>2 DEF FoundSound
<1>4. WorkerSound'
  BY <1>a, <1>d, <1>g DEF WorkerSound
<1>5. CarriedSound'
  <2>1. \A i \in Ids : /\ chan'[i] \in Seq(Ids) /\ wire'[i] \in Seq(Ids)
                        /\ OfSession(chan'[i], i) /\ OfSession(wire'[i], i)
    BY <1>a, <1>e, <1>f, <1>h DEF TypeOK, CarriedSound
  <2>2. QED
    BY <1>d, <2>1 DEF CarriedSound, OfSession
<1>6. EntriesAlive'
  BY <1>a, <1>d, <1>g DEF TypeOK, EntriesAlive
<1>7. WorkersReachable'
  <2>1. p \in senders
    BY <1>a DEF WorkerSound
  <2>2. QED
    BY <1>a, <1>d, <1>g, <2>1 DEF TypeOK, WorkersReachable
<1>8. QED
  BY <1>1, <1>d, <1>3, <1>4, <1>5, <1>6, <1>7

\* The worker takes a datagram out of its channel and puts it on the wire.
LEMMA ForwardInv ==
    ASSUME IInv, NEW i \in Ids, Forward(i)
    PROVE  IInv'
<1> USE NoneAssumption DEF IInv
<1> DEFINE w == Tail(chan[i])
           v == Append(wire[i], Head(chan[i]))
<1>a. /\ chan[i] # <<>> /\ chan' = [chan EXCEPT ![i] = w]
      /\ wire' = wire \/ wire' = [wire EXCEPT ![i] = v]
      /\ UNCHANGED <<from, pc, found, sessions, senders, worker, client>>
  <2>1. wire[i] = wire[i] /\ wire = [wire EXCEPT ![i] = wire[i]]
    BY DEF TypeOK
  <2>2. QED
    BY <2>1 DEF Forward
<1>b. /\ chan[i] \in Seq(Ids) /\ wire[i] \in Seq(Ids) /\ Len(chan[i]) <= Room
      /\ OfSession(chan[i], i) /\ OfSession(wire[i], i)
  BY DEF TypeOK, CarriedSound
<1>c. /\ OfSession(w, i) /\ w \in Seq(Ids) /\ Len(w) = Len(chan[i]) - 1
      /\ Head(chan[i]) \in Ids /\ Len(chan[i]) \in Nat
      /\ pc[i] # "none" /\ pc[Head(chan[i])] # "none" /\ from[Head(chan[i])] = from[i]
  BY <1>a, <1>b, OfTail
<1>d. v \in Seq(Ids) /\ OfSession(v, i)
  BY <1>b, <1>c, OfAppend, AppendProperties
<1>e. Len(w) <= Room
  BY <1>b, <1>c, BoundsAssumption
<1> HIDE DEF w, v
<1>f. /\ chan'[i] = w /\ \A k \in Ids \ {i} : chan'[k] = chan[k]
      /\ wire'[i] \in {wire[i], v} /\ \A k \in Ids \ {i} : wire'[k] = wire[k]
  BY <1>a DEF TypeOK
<1>1. TypeOK'
  <2>1. chan' \in [Ids -> Seq(Ids)] /\ wire' \in [Ids -> Seq(Ids)]
    BY <1>a, <1>c, <1>d DEF TypeOK
  <2>2. \A k \in Ids : Len(chan'[k]) <= Room
    BY <1>e, <1>f DEF TypeOK
  <2>3. QED
    BY <1>a, <2>1, <2>2 DEF TypeOK
<1>2. ArrivedSound' /\ FoundSound' /\ WorkerSound'
  BY <1>a DEF ArrivedSound, FoundSound, WorkerSound
<1>3. CarriedSound'
  <2>1. \A k \in Ids : OfSession(chan'[k], k) /\ OfSession(wire'[k], k)
    BY <1>b, <1>c, <1>d, <1>f DEF CarriedSound
  <2>2. QED
    BY <1>a, <2>1 DEF CarriedSound, OfSession
<1>4. EntriesAlive' /\ WorkersReachable'
  BY <1>a DEF EntriesAlive, WorkersReachable
<1>5. QED
  BY <1>1, <1>2, <1>3, <1>4

\* The worker leaves its loop: its source's entry and its sender stay for its
\* last two steps, and whoever found it dead is right for ever.
LEMMA LeaveWorkerInv ==
    ASSUME IInv, NEW i \in Ids, LeaveWorker(i)
    PROVE  IInv'
<1> USE NoneAssumption DEF IInv
<1> DEFINE none == <<>>
<1>n. none \in Seq(Ids) /\ Len(none) = 0 /\ OfSession(none, i)
  BY OfNone
<1>a. /\ worker[i] = "run" /\ worker' = [worker EXCEPT ![i] = "ended"]
      /\ chan' = [chan EXCEPT ![i] = none] /\ wire' = [wire EXCEPT ![i] = none]
      /\ client' = [client EXCEPT ![i] = "gone"]
      /\ UNCHANGED <<from, pc, found, sessions, senders>>
  BY DEF LeaveWorker
<1> HIDE DEF none
<1>b. /\ worker'[i] = "ended" /\ \A k \in Ids \ {i} : worker'[k] = worker[k]
      /\ chan'[i] = none /\ \A k \in Ids \ {i} : chan'[k] = chan[k]
      /\ wire'[i] = none /\ \A k \in Ids \ {i} : wire'[k] = wire[k]
  BY <1>a DEF TypeOK
<1>1. TypeOK'
  <2>1. /\ chan' \in [Ids -> Seq(Ids)] /\ wire' \in [Ids -> Seq(Ids)]
        /\ worker' \in [Ids -> WorkerStates] /\ client' \in [Ids -> {"none", "open", "gone"}]
    BY <1>a, <1>n DEF TypeOK, WorkerStates
  <2>2. \A k \in Ids : Len(chan'[k]) <= Room
    <3>1. Len(none) <= Room
      BY <1>n, BoundsAssumption
    <3>2. QED
      BY <1>b, <3>1 DEF TypeOK
  <2>3. QED
    BY <1>a, <2>1, <2>2 DEF TypeOK
<1>2. ArrivedSound' /\ WorkerSound'
  BY <1>a, <1>b DEF ArrivedSound, WorkerSound
<1>3. FoundSound'
  BY <1>a, <1>b DEF FoundSound
<1>4. CarriedSound'
  <2>1. \A k \in Ids : OfSession(chan'[k], k) /\ OfSession(wire'[k], k)
    BY <1>b, <1>n DEF CarriedSound
  <2>2. QED
    BY <1>a, <2>1 DEF CarriedSound, OfSession
<1>5. EntriesAlive'
  BY <1>a, <1>b DEF TypeOK, EntriesAlive
<1>6. WorkersReachable'
  BY <1>a, <1>b DEF TypeOK, WorkersReachable
<1>7. QED
  BY <1>1, <1>2, <1>3, <1>4, <1>5, <1>6

\* The worker's last two steps: the entry of its source, then its sender.
LEMMA CleanInv ==
    ASSUME IInv, NEW i \in Ids, CleanSession(i) \/ CleanSender(i)
    PROVE  IInv'
<1> USE NoneAssumption DEF IInv
<1>a. /\ worker[i] \in {"ended", "cleaned"} /\ UNCHANGED <<from, pc, found, chan, wire, client>>
      /\ \E x \in {"cleaned", "gone"} : worker' = [worker EXCEPT ![i] = x]
  BY DEF CleanSession, CleanSender
<1>b. /\ worker'[i] \in {"cleaned", "gone"} /\ \A k \in Ids \ {i} : worker'[k] = worker[k]
      /\ worker' \in [Ids -> WorkerStates]
  BY <1>a DEF TypeOK, WorkerStates
<1>c. pc[i] = "done" /\ from[i] \in Sources
  BY <1>a DEF WorkerSound, ArrivedSound
<1>d. \/ /\ worker[i] = "ended" /\ worker'[i] = "cleaned" /\ senders' = senders
         /\ sessions' = [sessions EXCEPT ![from[i]] = None]
      \/ /\ worker[i] = "cleaned" /\ senders' = senders \ {i} /\ sessions' = sessions
         /\ \A q \in Ids : pc[q] # "send"
  BY <1>c DEF CleanSession, CleanSender, SendersUnread, TypeOK
<1>1. TypeOK'
  <2>1. sessions' \in [Sources -> Ids \cup {None}] /\ senders' \subseteq Ids
    BY <1>c, <1>d DEF TypeOK
  <2>2. QED
    BY <1>a, <1>b, <2>1 DEF TypeOK
<1>2. ArrivedSound' /\ WorkerSound'
  BY <1>a, <1>b, <1>c, <1>d DEF ArrivedSound, WorkerSound
<1>3. FoundSound'
  BY <1>a, <1>b, <1>d DEF FoundSound
<1>4. CarriedSound'
  BY <1>a, OfKept, CarriedKept
<1>5. EntriesAlive'
  <2>1. ASSUME NEW t \in Sources, sessions'[t] # None
        PROVE  sessions'[t] = sessions[t] /\ sessions[t] \in Ids \ {i} /\ from[sessions[t]] = t
    <3>1. sessions'[t] = sessions[t] /\ sessions[t] \in Ids /\ from[sessions[t]] = t
      BY <1>c, <1>d, <2>1 DEF TypeOK, EntriesAlive
    <3>2. sessions[t] # i
      <4>1. CASE worker[i] = "ended"
        BY <1>c, <1>d, <2>1, <3>1, <4>1 DEF TypeOK
      <4>2. CASE worker[i] = "cleaned"
        BY <1>c, <2>1, <3>1, <4>2 DEF EntriesAlive
      <4>3. QED
        BY <1>a, <4>1, <4>2
    <3>3. QED
      BY <3>1, <3>2
  <2>2. QED
    BY <1>a, <1>b, <2>1 DEF EntriesAlive
<1>6. WorkersReachable'
  BY <1>a, <1>b, <1>d DEF TypeOK, WorkersReachable
<1>7. QED
  BY <1>1, <1>2, <1>3, <1>4, <1>5, <1>6

\* The client's end takes a frame off the wire, or goes and drops them all.
LEMMA ClientInv ==
    ASSUME IInv, NEW i \in Ids, ClientReceive(i) \/ ClientFails(i)
    PROVE  IInv'
<1> USE NoneAssumption DEF IInv
<1>a. UNCHANGED <<from, pc, found, sessions, senders, chan, worker>>
  BY DEF ClientReceive, ClientFails, LeaveClient
<1> DEFINE w == wire'[i]
<1>b. wire' = [wire EXCEPT ![i] = w] /\ (w = <<>> \/ (wire[i] # <<>> /\ w = Tail(wire[i])))
  <2>1. \/ wire' = [wire EXCEPT ![i] = <<>>]
        \/ wire[i] # <<>> /\ wire' = [wire EXCEPT ![i] = Tail(wire[i])]
    BY DEF ClientReceive, ClientFails, LeaveClient
  <2>2. QED
    BY <2>1 DEF TypeOK
<1>c. w \in Seq(Ids) /\ OfSession(w, i)
  <2>1. wire[i] \in Seq(Ids) /\ OfSession(wire[i], i)
    BY DEF TypeOK, CarriedSound
  <2>2. QED
    BY <1>b, <2>1, OfNone, OfTail
<1>1. TypeOK'
  <2>1. wire' \in [Ids -> Seq(Ids)]
    BY <1>b, <1>c DEF TypeOK
  <2>2. client' \in [Ids -> {"none", "open", "gone"}]
    BY DEF ClientReceive, ClientFails, LeaveClient, TypeOK
  <2>3. QED
    BY <1>a, <2>1, <2>2 DEF TypeOK
<1>2. ArrivedSound' /\ FoundSound' /\ WorkerSound'
  BY <1>a DEF ArrivedSound, FoundSound, WorkerSound
<1>3. CarriedSound'
  <2>1. \A k \in Ids : OfSession(chan'[k], k) /\ OfSession(wire'[k], k)
    BY <1>a, <1>b, <1>c DEF TypeOK, CarriedSound
  <2>2. QED
    BY <1>a, <2>1 DEF CarriedSound, OfSession
<1>4. EntriesAlive' /\ WorkersReachable'
  BY <1>a DEF EntriesAlive, WorkersReachable
<1>5. QED
  BY <1>1, <1>2, <1>3, <1>4

\* Every step of a task, of a worker or of the client keeps the invariant.
LEMMA NextInv ==
    ASSUME IInv, [Next]_vars
    PROVE  IInv'
<1>1. CASE UNCHANGED vars
  BY <1>1 DEF vars, IInv, TypeOK, ArrivedSound, FoundSound, WorkerSound, CarriedSound,
              OfSession, EntriesAlive, WorkersReachable
<1>2. ASSUME NEW p \in Ids, Handle(p)  PROVE IInv'
  BY <1>2, MoveInv, SendInv, EntryInv, SendersInv, SendFirstInv DEF Handle
<1>3. ASSUME NEW i \in Ids, Work(i) \/ WorkerFails(i)  PROVE IInv'
  BY <1>3, ForwardInv, LeaveWorkerInv, CleanInv DEF Work, WireEnds, WorkerFails
<1>4. QED
  BY <1>1, <1>2, <1>3, ArriveInv, ClientInv DEF Next

\* No datagram has arrived at first.
LEMMA InitInv == Init => IInv
<1> SUFFICES ASSUME Init PROVE IInv
  OBVIOUS
<1> USE NoneAssumption DEF Init
<1> DEFINE none == <<>>
<1>n. none \in Seq(Ids) /\ Len(none) = 0 /\ \A i \in Ids : OfSession(none, i)
  BY OfNone
<1>a. chan = [i \in Ids |-> none] /\ wire = [i \in Ids |-> none]
  OBVIOUS
<1> HIDE DEF none
<1>1. TypeOK
  <2>1. /\ chan \in [Ids -> Seq(Ids)] /\ wire \in [Ids -> Seq(Ids)]
        /\ \A i \in Ids : Len(chan[i]) <= Room
    BY <1>a, <1>n, BoundsAssumption
  <2>2. QED
    BY <2>1 DEF TypeOK, PcStates, WorkerStates
<1>2. ArrivedSound /\ FoundSound /\ WorkerSound /\ EntriesAlive /\ WorkersReachable
  BY DEF ArrivedSound, FoundSound, WorkerSound, EntriesAlive, WorkersReachable
<1>3. CarriedSound
  BY <1>a, <1>n DEF CarriedSound
<1>4. QED
  BY <1>1, <1>2, <1>3 DEF IInv

\* IInv holds in every reachable state.
THEOREM Invariance == Spec => []IInv
  BY InitInv, NextInv, PTL DEF Spec

\* The state is well typed; no channel holds more than its capacity.
THEOREM TypeCorrect == Spec => []TypeOK
<1>1. IInv => TypeOK
  BY DEF IInv
<1>2. QED
  BY <1>1, Invariance, PTL

\* A session's datagrams are all from the source its worker answers to.
THEOREM SessionsSeparate == Spec => []OneSourcePerSession
<1>1. IInv => OneSourcePerSession
  <2> SUFFICES ASSUME IInv, NEW i \in Ids, NEW q \in {chan[i], wire[i]}, NEW n \in DOMAIN q
               PROVE  from[q[n]] = from[i]
    BY DEF OneSourcePerSession
  <2>1. q \in Seq(Ids) /\ OfSession(q, i)
    BY DEF IInv, TypeOK, CarriedSound
  <2>2. n \in 1 .. Len(q)
    BY <2>1, LenProperties
  <2>3. QED
    BY <2>1, <2>2 DEF OfSession
<1>2. QED
  BY <1>1, Invariance, PTL

\* No source keeps an entry that nobody will remove.
THEOREM EntriesRemovable == Spec => []EntriesAlive
<1>1. IInv => EntriesAlive
  BY DEF IInv
<1>2. QED
  BY <1>1, Invariance, PTL

\* No running worker loses its sender, and no sender outlives its session.
THEOREM SendersMatchWorkers == Spec => []WorkersReachable
<1>1. IInv => WorkersReachable
  BY DEF IInv
<1>2. QED
  BY <1>1, Invariance, PTL
=============================================================================
