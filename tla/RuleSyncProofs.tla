--------------------------- MODULE RuleSyncProofs ---------------------------
(***************************************************************************)
(* Proofs about RuleSync, for any clients, rules, versions, API calls and  *)
(* external connections under way and any room in the queues.              *)
(*                                                                         *)
(* IInv is inductive.  CallSound says what an API call under way will tell *)
(* the client, if no other call disturbs it: what the database holds.      *)
(* SettledSound extends InSync to a session that is registered but has not *)
(* been sent its rules: what is queued for it does not contradict what it  *)
(* will be sent first.  RequestsSound says of every request in the queue   *)
(* what SettledRequestsServed says of the first.                           *)
(***************************************************************************)
EXTENDS RuleSync, SequenceTheorems, TLAPS

\* What message m says of rule r, if it says anything.
Value(m, r) ==
    IF m.type = "push" THEN m.table[r] ELSE IF m.type = "assign" THEN m.version ELSE None

\* None of the first n messages of q says anything of r; the last of them that
\* does says v; a table t has v for r when they have been handled.
NoneSays(q, n, r) == \A i \in 1 .. n : ~Says(q[i], r)
LastSays(q, n, r, v) ==
    \E i \in 1 .. n : /\ Says(q[i], r) /\ Value(q[i], r) = v
                      /\ \A j \in 1 .. n : j > i => ~Says(q[j], r)
Knows(t, q, n, r, v) == (NoneSays(q, n, r) /\ t[r] = v) \/ LastSays(q, n, r, v)

\* A request that was made while its rule was settled.
Sure(m) == m.type = "work" /\ m.sure

\* A client without a session has no messages and no rules, and one that has
\* not been sent its rules has none.
SessionSound ==
    \A c \in Clients :
        /\ session[c] = "down" => queue[c] = <<>>
        /\ session[c] # "live" => known[c] = NoRules /\ Len(queue[c]) <= MaxQueue

\* A call on a rule that is not disturbed has it to itself and has written what
\* is in the database.
CallFits(a) ==
    /\ call[a].pc = "start" => call[a].new # None
    /\ call[a].new # None => call[a].to = call[a].new.client
    /\ ~disturbed[call[a].rule] =>
          /\ db[call[a].rule] = call[a].new
          /\ \A b \in Calls : call[b].pc # "idle" /\ call[b].rule = call[a].rule => b = a
CallSound == \A a \in Calls : call[a].pc # "idle" => CallFits(a)

\* No call on r is under way, and r is not disturbed.
Calm(r) == Quiet(r) /\ ~disturbed[r]

\* For a session in state sn, with q queued and table t: what is on its way to
\* the client ends with v for rule r; before the rules are pushed, there may be
\* nothing on its way.
Fits(sn, t, q, r, v) ==
    /\ sn = "registered" => NoneSays(q, Len(q), r) \/ LastSays(q, Len(q), r, v)
    /\ sn = "live" => Knows(t, q, Len(q), r, v)
SettledSound ==
    \A r \in Rules : db[r] # None /\ Calm(r) =>
        LET c == db[r].client
        IN  Fits(session[c], known[c], queue[c], r, db[r].version)

\* The first n messages leave the client with some version of r; before the
\* rules are pushed, they do not contradict them.
Served(sn, t, q, n, r) ==
    /\ sn = "registered" => NoneSays(q, n, r) \/ \E v \in Versions : LastSays(q, n, r, v)
    /\ sn = "live" => \E v \in Versions : Knows(t, q, n, r, v)
RequestsSound ==
    \A c \in Clients : \A i \in 1 .. Len(queue[c]) :
        Sure(queue[c][i]) => Served(session[c], known[c], queue[c], i - 1, queue[c][i].rule)

\* The inductive invariant.
IInv == TypeOK /\ SessionSound /\ CallSound /\ SettledSound /\ RequestsSound

-----------------------------------------------------------------------------
(* Messages and sequences of messages *)

LEMMA MessageFacts ==
    /\ \A m \in Messages :
          /\ m.type \in {"assign", "close", "work", "push"}
          /\ m.type \in {"assign", "close", "work"} => m.rule \in Rules
          /\ m.type = "assign" => m.version \in Versions
          /\ m.type = "push" => m.table \in Tables
    /\ \A m \in Messages, r \in Rules : Sure(m) => ~Says(m, r)
  BY DEF Messages, Sure, Says

\* What the client does with a message: the rules it speaks of are set to what
\* it says, and the others stay.
LEMMA ApplyFacts ==
    ASSUME NEW t \in Tables, NEW m \in Messages
    PROVE  /\ Apply(t, m) \in Tables
           /\ \A r \in Rules : Apply(t, m)[r] = IF Says(m, r) THEN Value(m, r) ELSE t[r]
<1>1. CASE m.type = "push"
  BY <1>1, MessageFacts DEF Apply, Says, Value
<1>2. CASE m.type = "assign"
  BY <1>2, MessageFacts DEF Apply, Says, Value, Tables
<1>3. CASE m.type = "close"
  BY <1>3, MessageFacts DEF Apply, Says, Value, Tables
<1>4. CASE m.type = "work"
  BY <1>4, MessageFacts DEF Apply, Says, Value, Tables
<1>5. QED
  BY <1>1, <1>2, <1>3, <1>4, MessageFacts

\* The messages the server sends.
LEMMA Constructors ==
    /\ \A r \in Rules, s \in Settings :
          /\ Assign(r, s) \in Messages /\ ~Sure(Assign(r, s))
          /\ \A x \in Rules : Says(Assign(r, s), x) <=> x = r
          /\ Value(Assign(r, s), r) = s.version
    /\ \A r \in Rules : /\ Close(r) \in Messages /\ ~Sure(Close(r))
                        /\ \A x \in Rules : Says(Close(r), x) <=> x = r
    /\ \A t \in Tables : /\ Push(t) \in Messages /\ ~Sure(Push(t))
                         /\ \A x \in Rules : Says(Push(t), x) /\ Value(Push(t), x) = t[x]
<1>1. \A r \in Rules, s \in Settings :
          /\ Assign(r, s) \in Messages /\ ~Sure(Assign(r, s))
          /\ \A x \in Rules : Says(Assign(r, s), x) <=> x = r
          /\ Value(Assign(r, s), r) = s.version
  BY DEF Assign, Messages, Settings, Sure, Says, Value
<1>2. \A r \in Rules : /\ Close(r) \in Messages /\ ~Sure(Close(r))
                        /\ \A x \in Rules : Says(Close(r), x) <=> x = r
  BY DEF Close, Messages, Sure, Says
<1>3. \A t \in Tables : /\ Push(t) \in Messages /\ ~Sure(Push(t))
                         /\ \A x \in Rules : Says(Push(t), x) /\ Value(Push(t), x) = t[x]
  BY DEF Push, Messages, Sure, Says, Value
<1>4. QED
  BY <1>1, <1>2, <1>3

LEMMA WorkFacts ==
    ASSUME NEW r \in Rules, NEW b \in BOOLEAN
    PROVE  /\ Work(r, b) \in Messages /\ Work(r, b).rule = r
           /\ \A x \in Rules : ~Says(Work(r, b), x)
           /\ Sure(Work(r, b)) => b
<1>1. /\ Work(r, b).rule = r /\ Work(r, b).type = "work"
      /\ \A x \in Rules : ~Says(Work(r, b), x)
  BY DEF Work, Says
<1>2. Work(r, b) \in [type : {"work"}, rule : Rules, sure : BOOLEAN]
  BY Zenon DEF Work
<1>3. Sure(Work(r, b)) => b
  BY DEF Work, Sure
<1>4. QED
  BY <1>1, <1>2, <1>3 DEF Messages

\* Two sequences that say the same about r in their first n messages.
LEMMA SamePrefix ==
    ASSUME NEW p, NEW q, NEW n \in Nat, NEW r,
           \A i \in 1 .. n : /\ Says(p[i], r) <=> Says(q[i], r)
                             /\ Says(q[i], r) => Value(p[i], r) = Value(q[i], r)
    PROVE  /\ NoneSays(q, n, r) => NoneSays(p, n, r)
           /\ \A v : LastSays(q, n, r, v) => LastSays(p, n, r, v)
<1>1. NoneSays(q, n, r) => NoneSays(p, n, r)
  BY DEF NoneSays
<1>2. ASSUME NEW v, LastSays(q, n, r, v)  PROVE LastSays(p, n, r, v)
  BY <1>2 DEF LastSays
<1>3. QED
  BY <1>1, <1>2

\* A message is queued: what is ahead of it stays as it is, and if it says
\* anything of r it is the last to do so.
LEMMA AppendSays ==
    ASSUME NEW q \in Seq(Messages), NEW m \in Messages, NEW r \in Rules
    PROVE  LET w == Append(q, m)
           IN  /\ w \in Seq(Messages) /\ Len(w) = Len(q) + 1 /\ Len(q) \in Nat
               /\ w[Len(q) + 1] = m /\ \A i \in 1 .. Len(q) : w[i] = q[i]
               /\ \A n \in 0 .. Len(q) :
                     /\ NoneSays(q, n, r) => NoneSays(w, n, r)
                     /\ \A v : LastSays(q, n, r, v) => LastSays(w, n, r, v)
               /\ ~Says(m, r) => /\ NoneSays(q, Len(q), r) => NoneSays(w, Len(w), r)
                                 /\ \A v : LastSays(q, Len(q), r, v) => LastSays(w, Len(w), r, v)
               /\ Says(m, r) => LastSays(w, Len(w), r, Value(m, r))
<1> DEFINE w == Append(q, m)
<1>1. /\ w \in Seq(Messages) /\ Len(w) = Len(q) + 1 /\ Len(q) \in Nat
      /\ w[Len(q) + 1] = m /\ \A i \in 1 .. Len(q) : w[i] = q[i]
  BY AppendProperties, LenProperties
<1> HIDE DEF w
<1>2. ASSUME NEW n \in 0 .. Len(q)
      PROVE  /\ NoneSays(q, n, r) => NoneSays(w, n, r)
             /\ \A v : LastSays(q, n, r, v) => LastSays(w, n, r, v)
  <2>1. n \in Nat /\ \A i \in 1 .. n : w[i] = q[i]
    BY <1>1
  <2>2. QED
    BY <2>1, SamePrefix
<1>3. \A i \in 1 .. Len(w) : i \in 1 .. Len(q) \/ i = Len(q) + 1
  BY <1>1
<1>4. ASSUME ~Says(m, r)
      PROVE  /\ NoneSays(q, Len(q), r) => NoneSays(w, Len(w), r)
             /\ \A v : LastSays(q, Len(q), r, v) => LastSays(w, Len(w), r, v)
  <2>1. NoneSays(q, Len(q), r) => NoneSays(w, Len(w), r)
    BY <1>1, <1>3, <1>4 DEF NoneSays
  <2>2. ASSUME NEW v, LastSays(q, Len(q), r, v)  PROVE LastSays(w, Len(w), r, v)
    <3>1. PICK i \in 1 .. Len(q) : /\ Says(q[i], r) /\ Value(q[i], r) = v
                                   /\ \A j \in 1 .. Len(q) : j > i => ~Says(q[j], r)
      BY <2>2 DEF LastSays
    <3>2. i \in 1 .. Len(w) /\ w[i] = q[i]
      BY <1>1
    <3>3. \A j \in 1 .. Len(w) : j > i => ~Says(w[j], r)
      BY <1>1, <1>3, <1>4, <3>1
    <3>4. QED
      BY <3>1, <3>2, <3>3 DEF LastSays
  <2>3. QED
    BY <2>1, <2>2
<1>5. ASSUME Says(m, r)  PROVE LastSays(w, Len(w), r, Value(m, r))
  <2>1. Len(q) + 1 \in 1 .. Len(w) /\ \A j \in 1 .. Len(w) : ~(j > Len(q) + 1)
    BY <1>1
  <2>2. QED
    BY <1>1, <1>5, <2>1 DEF LastSays
<1>6. QED
  BY <1>1, <1>2, <1>4, <1>5 DEF w

\* The head of the queue is handled: if it was the last to say anything of r,
\* the table now has what it said.
LEMMA TailKnows ==
    ASSUME NEW q \in Seq(Messages), q # <<>>, NEW t \in Tables, NEW r \in Rules,
           NEW n \in 1 .. Len(q), NEW v, Knows(t, q, n, r, v)
    PROVE  Knows(Apply(t, Head(q)), Tail(q), n - 1, r, v)
<1> DEFINE w == Tail(q)
           u == Apply(t, Head(q))
<1> SUFFICES Knows(u, w, n - 1, r, v)
  OBVIOUS
<1>1. /\ Head(q) = q[1] /\ q[1] \in Messages /\ Len(q) \in Nat /\ Len(w) = Len(q) - 1
      /\ \A i \in 1 .. Len(w) : w[i] = q[i + 1]
  BY HeadTailProperties, EmptySeq, LenProperties, ElementOfSeq
<1>2. u[r] = IF Says(q[1], r) THEN Value(q[1], r) ELSE t[r]
  BY <1>1, ApplyFacts
<1> HIDE DEF w, u
<1>3. /\ n \in Nat /\ n - 1 \in Nat /\ 1 \in 1 .. n
      /\ \A i \in 1 .. n - 1 : w[i] = q[i + 1] /\ i + 1 \in 1 .. n /\ i + 1 > 1
      /\ \A i \in 1 .. n : i = 1 \/ (i - 1 \in 1 .. n - 1 /\ w[i - 1] = q[i])
  BY <1>1
<1>4. CASE NoneSays(q, n, r) /\ t[r] = v
  BY <1>2, <1>3, <1>4 DEF NoneSays, Knows
<1>5. CASE LastSays(q, n, r, v)
  <2>1. PICK i \in 1 .. n : /\ Says(q[i], r) /\ Value(q[i], r) = v
                            /\ \A j \in 1 .. n : j > i => ~Says(q[j], r)
    BY <1>5 DEF LastSays
  <2>2. CASE i = 1
    <3>1. NoneSays(w, n - 1, r)
      BY <1>3, <2>1, <2>2 DEF NoneSays
    <3>2. QED
      BY <1>2, <2>1, <2>2, <3>1 DEF Knows
  <2>3. CASE i # 1
    <3>1. i - 1 \in 1 .. n - 1 /\ w[i - 1] = q[i]
      BY <1>3, <2>3
    <3>2. ASSUME NEW j \in 1 .. n - 1, j > i - 1  PROVE ~Says(w[j], r)
      <4>1. j + 1 \in 1 .. n /\ w[j] = q[j + 1] /\ j + 1 > i
        BY <1>3, <3>2
      <4>2. QED
        BY <2>1, <4>1
    <3>3. QED
      BY <2>1, <3>1, <3>2 DEF LastSays, Knows
  <2>4. QED
    BY <2>2, <2>3
<1>6. QED
  BY <1>4, <1>5 DEF Knows

\* The rules go out ahead of what is queued, whose requests may have been
\* marked: what is queued has the last word where it says anything.
LEMMA PushSays ==
    ASSUME NEW t \in Tables, NEW q \in Seq(Messages), NEW w \in Seq(Messages), NEW r \in Rules,
           w[1] = Push(t),
           \A i \in 1 .. Len(q) :
               \A x \in Rules : /\ Says(w[i + 1], x) <=> Says(q[i], x)
                                /\ Says(q[i], x) => Value(w[i + 1], x) = Value(q[i], x)
    PROVE  \A n \in 0 .. Len(q) :
               /\ NoneSays(q, n, r) => LastSays(w, n + 1, r, t[r])
               /\ \A v : LastSays(q, n, r, v) => LastSays(w, n + 1, r, v)
<1> SUFFICES ASSUME NEW n \in 0 .. Len(q)
             PROVE  /\ NoneSays(q, n, r) => LastSays(w, n + 1, r, t[r])
                    /\ \A v : LastSays(q, n, r, v) => LastSays(w, n + 1, r, v)
  OBVIOUS
<1>1. /\ n \in Nat /\ 1 \in 1 .. n + 1 /\ Len(q) \in Nat
      /\ \A j \in 1 .. n + 1 : j > 1 => j - 1 \in 1 .. n /\ j - 1 \in 1 .. Len(q) /\ j - 1 + 1 = j
      /\ \A i \in 1 .. n : i \in 1 .. Len(q) /\ i + 1 \in 1 .. n + 1 /\ i + 1 > 1
  BY LenProperties
<1>2. \A j \in 1 .. n + 1 : j > 1 =>
         /\ Says(w[j], r) <=> Says(q[j - 1], r)
         /\ Says(q[j - 1], r) => Value(w[j], r) = Value(q[j - 1], r)
  <2> SUFFICES ASSUME NEW j \in 1 .. n + 1, j > 1
               PROVE  /\ Says(w[j], r) <=> Says(q[j - 1], r)
                      /\ Says(q[j - 1], r) => Value(w[j], r) = Value(q[j - 1], r)
    OBVIOUS
  <2>1. j - 1 \in 1 .. Len(q) /\ (j - 1) + 1 = j
    BY <1>1
  <2>2. QED
    BY <2>1
<1>3. Says(w[1], r) /\ Value(w[1], r) = t[r]
  BY Constructors
<1>4. ASSUME NoneSays(q, n, r)  PROVE LastSays(w, n + 1, r, t[r])
  <2>1. \A j \in 1 .. n + 1 : j > 1 => ~Says(w[j], r)
    BY <1>1, <1>2, <1>4 DEF NoneSays
  <2>2. QED
    BY <1>1, <1>3, <2>1 DEF LastSays
<1>5. ASSUME NEW v, LastSays(q, n, r, v)  PROVE LastSays(w, n + 1, r, v)
  <2>1. PICK i \in 1 .. n : /\ Says(q[i], r) /\ Value(q[i], r) = v
                            /\ \A j \in 1 .. n : j > i => ~Says(q[j], r)
    BY <1>5 DEF LastSays
  <2>2. i + 1 \in 1 .. n + 1 /\ Says(w[i + 1], r) /\ Value(w[i + 1], r) = v
    BY <1>1, <2>1
  <2>3. ASSUME NEW j \in 1 .. n + 1, j > i + 1  PROVE ~Says(w[j], r)
    <3>1. j > 1 /\ j - 1 \in 1 .. n /\ j - 1 > i
      BY <1>1, <2>3
    <3>2. QED
      BY <1>2, <2>1, <3>1
  <2>4. QED
    BY <2>2, <2>3 DEF LastSays
<1>6. QED
  BY <1>4, <1>5

-----------------------------------------------------------------------------
(* The parts of the state *)

LEMMA CallFacts ==
    ASSUME TypeOK
    PROVE  /\ NoCall.pc = "idle"
           /\ \A a \in Calls :
                 /\ call[a].pc \in {"idle", "start", "stop", "notify"}
                 /\ call[a].pc # "idle" =>
                       /\ call[a].rule \in Rules /\ call[a].to \in Clients
                       /\ call[a].new \in Settings \cup {None}
  BY DEF TypeOK, CallRecords, NoCall

LEMMA SettingsFacts ==
    /\ \A s \in Settings : s.client \in Clients /\ s.version \in Versions /\ s # None
    /\ \A s \in Settings : s.version # None
  BY NoneAssumption DEF Settings

LEMMA TableFacts ==
    ASSUME TypeOK, NEW c \in Clients
    PROVE  /\ RulesOf(c) \in Tables /\ NoRules \in Tables
           /\ known[c] \in Tables /\ queue[c] \in Seq(Messages) /\ Len(queue[c]) \in Nat
           /\ \A i \in 1 .. Len(queue[c]) : queue[c][i] \in Messages
           /\ session[c] \in {"down", "registered", "live"}
<1>1. known[c] \in Tables /\ queue[c] \in Seq(Messages) /\ session[c] \in {"down", "registered", "live"}
  BY DEF TypeOK
<1>2. RulesOf(c) \in Tables /\ NoRules \in Tables
  BY SettingsFacts DEF TypeOK, RulesOf, NoRules, Tables
<1>3. QED
  BY <1>1, <1>2, LenProperties, ElementOfSeq

\* send_to: the message goes behind everything else, or nowhere.
LEMMA SendToKeeps ==
    ASSUME IInv, NEW c \in Clients, NEW m \in Messages, SendTo(c, m), UNCHANGED <<session, known>>,
           Sure(m) => m.rule \in Rules /\ Served(session[c], known[c], queue[c], Len(queue[c]), m.rule)
    PROVE  /\ queue' \in [Clients -> Seq(Messages)] /\ SessionSound' /\ RequestsSound'
           /\ \A d \in Clients : Len(queue'[d]) <= MaxQueue + 1
           /\ \A d \in Clients, r \in Rules : \A v :
                 /\ ~Says(m, r) /\ Fits(session[d], known[d], queue[d], r, v) =>
                       Fits(session'[d], known'[d], queue'[d], r, v)
                 /\ d # c /\ Fits(session[d], known[d], queue[d], r, v) =>
                       Fits(session'[d], known'[d], queue'[d], r, v)
           /\ \A r \in Rules : Says(m, r) =>
                 Fits(session'[c], known'[c], queue'[c], r, Value(m, r))
<1> USE DEF IInv
<1>t. TypeOK /\ MaxQueue \in Nat
  BY QueueAssumption
<1>1. CASE session[c] = "down"
  <2>1. queue' = queue
    BY <1>1 DEF SendTo
  <2>2. \A r, v : Fits(session'[c], known'[c], queue'[c], r, v)
    BY <1>1 DEF Fits
  <2>3. \A d \in Clients : Len(queue'[d]) <= MaxQueue + 1
    BY <1>t, <2>1 DEF TypeOK
  <2>4. SessionSound' /\ RequestsSound'
    BY <2>1 DEF SessionSound, RequestsSound
  <2>5. queue' \in [Clients -> Seq(Messages)]
    BY <2>1 DEF TypeOK
  <2>6. QED
    BY <2>1, <2>2, <2>3, <2>4, <2>5
<1>2. CASE session[c] # "down"
  <2> DEFINE q == queue[c]
             w == Append(q, m)
  <2>1. /\ Len(q) < MaxQueue /\ queue' = [queue EXCEPT ![c] = w]
        /\ q \in Seq(Messages)
    BY <1>2, <1>t, TableFacts DEF SendTo
  <2>2. /\ w \in Seq(Messages) /\ Len(w) = Len(q) + 1 /\ Len(q) \in Nat
        /\ w[Len(q) + 1] = m /\ \A i \in 1 .. Len(q) : w[i] = q[i]
    BY <2>1, AppendProperties, LenProperties
  <2>3. \A r \in Rules : \A n \in 0 .. Len(q) :
           /\ NoneSays(q, n, r) => NoneSays(w, n, r)
           /\ \A v : LastSays(q, n, r, v) => LastSays(w, n, r, v)
    BY <2>1, AppendSays
  <2>4. \A r \in Rules : ~Says(m, r) =>
           /\ NoneSays(q, Len(q), r) => NoneSays(w, Len(w), r)
           /\ \A v : LastSays(q, Len(q), r, v) => LastSays(w, Len(w), r, v)
    BY <2>1, AppendSays
  <2>5. \A r \in Rules : Says(m, r) => LastSays(w, Len(w), r, Value(m, r))
    BY <2>1, AppendSays
  <2> HIDE DEF w
  <2>6. queue'[c] = w /\ \A d \in Clients \ {c} : queue'[d] = queue[d]
    BY <1>t, <2>1 DEF TypeOK
  <2>7. \A d \in Clients : session'[d] = session[d] /\ known'[d] = known[d]
    OBVIOUS
  <2>8. queue' \in [Clients -> Seq(Messages)]
    BY <1>t, <2>1, <2>2 DEF TypeOK
  <2>9. \A d \in Clients : Len(queue'[d]) <= MaxQueue + 1
    <3>1. Len(w) <= MaxQueue + 1
      BY <1>t, <2>1, <2>2
    <3>2. QED
      BY <1>t, <2>6, <3>1 DEF TypeOK
  <2>10. SessionSound'
    <3>1. Len(w) <= MaxQueue
      BY <1>t, <2>1, <2>2
    <3>2. QED
      BY <1>2, <2>6, <2>7, <3>1 DEF SessionSound
  <2>11. RequestsSound'
    <3> SUFFICES ASSUME NEW d \in Clients, NEW i \in 1 .. Len(queue'[d]), Sure(queue'[d][i])
                 PROVE  Served(session[d], known[d], queue'[d], i - 1, queue'[d][i].rule)
      BY <2>7 DEF RequestsSound
    <3>1. CASE d # c
      BY <2>6, <3>1 DEF RequestsSound
    <3>2. CASE d = c
      <4>1. i \in 1 .. Len(w) /\ Sure(w[i]) /\ queue'[d] = w
        BY <2>6, <3>2
      <4>2. /\ i - 1 \in 0 .. Len(q) /\ (i \in 1 .. Len(q) \/ i = Len(q) + 1)
            /\ i = Len(q) + 1 => i - 1 = Len(q)
        BY <2>2, <4>1
      <4>3. w[i].rule \in Rules /\ Served(session[c], known[c], q, i - 1, w[i].rule)
        <5>1. CASE i = Len(q) + 1
          BY <2>2, <4>1, <4>2, <5>1
        <5>2. CASE i \in 1 .. Len(q)
          <6>1. w[i] = q[i] /\ q[i] \in Messages
            BY <1>t, <2>2, <5>2, TableFacts
          <6>2. w[i].rule \in Rules
            BY <4>1, <6>1, MessageFacts DEF Sure
          <6>3. QED
            BY <4>1, <5>2, <6>1, <6>2 DEF RequestsSound
        <5>3. QED
          BY <4>2, <5>1, <5>2
      <4>4. Served(session[c], known[c], w, i - 1, w[i].rule)
        BY <2>3, <4>2, <4>3 DEF Served, Knows
      <4>5. QED
        BY <3>2, <4>1, <4>4
    <3>3. QED
      BY <3>1, <3>2
  <2>12. \A r \in Rules : \A v :
            ~Says(m, r) /\ Fits(session[c], known[c], q, r, v) => Fits(session[c], known[c], w, r, v)
    BY <2>4 DEF Fits, Knows
  <2>13. \A r \in Rules : Says(m, r) => Fits(session[c], known[c], w, r, Value(m, r))
    BY <2>5 DEF Fits, Knows
  <2>14. \A d \in Clients, r \in Rules : \A v :
            /\ ~Says(m, r) /\ Fits(session[d], known[d], queue[d], r, v) =>
                  Fits(session'[d], known'[d], queue'[d], r, v)
            /\ d # c /\ Fits(session[d], known[d], queue[d], r, v) =>
                  Fits(session'[d], known'[d], queue'[d], r, v)
    BY <2>6, <2>7, <2>12
  <2>15. QED
    BY <2>6, <2>7, <2>8, <2>9, <2>10, <2>11, <2>13, <2>14
<1>3. QED
  BY <1>1, <1>2

-----------------------------------------------------------------------------
(* The steps *)

\* A call's first step: the rule is no longer settled until it has notified.
LEMMA BeginInv ==
    ASSUME IInv, NEW a \in Calls, NEW r \in Rules, NEW new \in Settings \cup {None},
           NEW p \in {"start", "stop"}, Begin(a, r, new, p),
           p = "start" => new # None, new = None => db[r] # None
    PROVE  IInv'
<1> USE DEF IInv
<1> DEFINE to == IF new = None THEN db[r].client ELSE new.client
           k == [pc |-> p, rule |-> r, new |-> new, to |-> to]
<1>a. /\ call[a] = NoCall /\ db' = [db EXCEPT ![r] = new] /\ call' = [call EXCEPT ![a] = k]
      /\ UNCHANGED <<listening, user, session, queue, known>>
  BY DEF Begin
<1>b. to \in Clients
  BY SettingsFacts DEF TypeOK
<1>c. /\ k \in CallRecords /\ k.pc = p /\ k.rule = r /\ k.new = new /\ k.to = to
  BY <1>b DEF CallRecords
<1>d. new # None => to = new.client
  OBVIOUS
<1> HIDE DEF to, k
<1>e. /\ call'[a] = k /\ \A b \in Calls \ {a} : call'[b] = call[b]
      /\ db'[r] = new /\ \A x \in Rules \ {r} : db'[x] = db[x]
      /\ call' \in [Calls -> CallRecords] /\ db' \in [Rules -> Settings \cup {None}]
      /\ call[a].pc = "idle"
  BY <1>a, <1>c, CallFacts DEF TypeOK
<1>f. disturbed' \in [Rules -> BOOLEAN] /\ disturbed'[r] = ~Quiet(r)
  <2>1. disturbed \in [Rules -> BOOLEAN] /\ disturbed' = [disturbed EXCEPT ![r] = ~Quiet(r)]
    BY DEF Begin, TypeOK
  <2>2. Quiet(r) \in BOOLEAN
    BY DEF Quiet
  <2>3. QED
    BY <2>1, <2>2, Zenon
<1>g. \A x \in Rules \ {r} : disturbed'[x] = disturbed[x]
  BY DEF Begin, TypeOK
<1>h. p \in {"start", "stop"} /\ p # "idle"
  OBVIOUS
<1>1. TypeOK'
  BY <1>a, <1>e, <1>f DEF TypeOK
<1>2. SessionSound'
  BY <1>a DEF SessionSound
<1>3. CallSound'
  <2> SUFFICES ASSUME NEW b \in Calls, call'[b].pc # "idle"
               PROVE  CallFits(b)'
    BY DEF CallSound
  <2>1. CASE b = a
    <3>1. ~disturbed'[r] => \A d \in Calls : call'[d].pc # "idle" /\ call'[d].rule = r => d = a
      BY <1>e, <1>f DEF Quiet
    <3>2. QED
      BY <1>c, <1>d, <1>e, <2>1, <3>1 DEF CallFits
  <2>2. CASE b # a /\ call[b].rule = r
    <3>1. ~Quiet(r)
      BY <1>e, <2>2 DEF Quiet
    <3>2. QED
      BY <1>e, <1>f, <2>2, <3>1 DEF CallSound, CallFits
  <2>3. CASE b # a /\ call[b].rule # r
    <3>1. call'[b] = call[b] /\ call[b].pc # "idle" /\ call[b].rule \in Rules \ {r}
      BY <1>e, <2>3, CallFacts
    <3>2. \A d \in Calls : call'[d].pc # "idle" /\ call'[d].rule = call[b].rule =>
             call[d].pc # "idle" /\ call[d].rule = call[b].rule
      BY <1>c, <1>e, <2>3
    <3>3. disturbed'[call[b].rule] = disturbed[call[b].rule] /\ db'[call[b].rule] = db[call[b].rule]
      BY <1>e, <1>g, <3>1
    <3>4. QED
      BY <3>1, <3>2, <3>3 DEF CallSound, CallFits
  <2>4. QED
    BY <2>1, <2>2, <2>3
<1>4. SettledSound'
  <2>1. ~Calm(r)'
    BY <1>c, <1>e, <1>h DEF Calm, Quiet
  <2>2. ASSUME NEW x \in Rules \ {r}, Calm(x)'  PROVE Calm(x) /\ db'[x] = db[x]
    BY <1>e, <1>g, <2>2 DEF Calm, Quiet
  <2>3. QED
    BY <1>a, <2>1, <2>2 DEF SettledSound
<1>5. RequestsSound'
  BY <1>a DEF RequestsSound
<1>6. QED
  BY <1>1, <1>2, <1>3, <1>4, <1>5

\* A step that leaves the database, the calls, the queues, the sessions and
\* the clients' tables alone.
LEMMA SameInv ==
    ASSUME IInv, UNCHANGED <<db, session, queue, known, disturbed>>, TypeOK', CallSound',
           \A r \in Rules : Quiet(r)' => Quiet(r)
    PROVE  IInv'
<1>1. SessionSound' /\ RequestsSound'
  BY DEF IInv, SessionSound, RequestsSound
<1>2. SettledSound'
  BY DEF IInv, SettledSound, Calm
<1>3. QED
  BY <1>1, <1>2 DEF IInv

\* The public listener is stopped and started: the client does not notice.
LEMMA ListenerInv ==
    ASSUME IInv, NEW a \in Calls, StopListener(a) \/ StartListener(a)
    PROVE  IInv'
<1> USE DEF IInv
<1>a. UNCHANGED <<db, user, session, queue, known, disturbed>>
  BY DEF StopListener, StartListener
<1>b. /\ call[a].pc \in {"stop", "start"} /\ call[a].rule \in Rules /\ call[a].to \in Clients
      /\ call[a].new \in Settings \cup {None} /\ (call[a].pc = "start" => call[a].new # None)
  BY CallFacts DEF StopListener, StartListener, CallSound, CallFits
<1>c. PICK p \in {"start", "notify"} :
         /\ call' = [call EXCEPT ![a].pc = p] /\ (p = "start" => call[a].new # None)
  BY DEF StopListener, StartListener
<1> DEFINE k == [call[a] EXCEPT !.pc = p]
<1>d. /\ k \in CallRecords /\ k.pc = p /\ k.rule = call[a].rule
      /\ k.new = call[a].new /\ k.to = call[a].to
  <2>1. call[a] \in [pc : {"start", "stop", "notify"}, rule : Rules,
                     new : Settings \cup {None}, to : Clients]
    BY <1>b DEF TypeOK, CallRecords, NoCall
  <2>2. QED
    BY <2>1 DEF CallRecords
<1>e. call' = [call EXCEPT ![a] = k]
  BY <1>c
<1> HIDE DEF k
<1>f. /\ call'[a] = k /\ \A b \in Calls \ {a} : call'[b] = call[b]
      /\ call' \in [Calls -> CallRecords]
  BY <1>d, <1>e DEF TypeOK
<1>1. TypeOK'
  <2>1. listening' \in [Rules -> Clients \cup {None}]
    <3>1. CASE StopListener(a)
      BY <3>1 DEF StopListener, TypeOK
    <3>2. CASE StartListener(a)
      <4>1. call[a].new.client \in Clients
        BY <1>b, <3>2, SettingsFacts DEF StartListener
      <4>2. QED
        BY <3>2, <4>1 DEF StartListener, TypeOK
    <3>3. QED
      BY <3>1, <3>2
  <2>2. QED
    BY <1>a, <1>f, <2>1 DEF TypeOK
<1>2. \A b \in Calls : /\ call'[b].pc # "idle" <=> call[b].pc # "idle"
                       /\ call[b].pc # "idle" => call'[b].rule = call[b].rule
  BY <1>b, <1>d, <1>f
<1>3. CallSound'
  <2> SUFFICES ASSUME NEW b \in Calls, call'[b].pc # "idle"
               PROVE  CallFits(b)'
    BY DEF CallSound
  <2>1. CallFits(b) /\ call[b].pc # "idle"
    BY <1>2 DEF CallSound
  <2>2. /\ call'[b].rule = call[b].rule /\ call'[b].new = call[b].new /\ call'[b].to = call[b].to
        /\ call'[b].pc = "start" => call[b].new # None
    BY <1>c, <1>d, <1>f, <2>1 DEF CallFits
  <2>3. QED
    BY <1>2, <1>a, <2>1, <2>2 DEF CallFits
<1>4. \A r \in Rules : Quiet(r)' => Quiet(r)
  BY <1>2 DEF Quiet
<1>5. QED
  BY <1>1, <1>3, <1>4, <1>a, SameInv

\* notify_client: the client of the rule is told what the database holds, if no
\* other call has come in between.
LEMMA NotifyInv ==
    ASSUME IInv, NEW a \in Calls, Notify(a)
    PROVE  IInv'
<1> USE DEF IInv
<1> DEFINE r == call[a].rule
           s == call[a].new
           c == call[a].to
           m == IF s = None THEN Close(r) ELSE Assign(r, s)
<1>a. /\ call[a].pc = "notify" /\ call' = [call EXCEPT ![a] = NoCall] /\ SendTo(c, m)
      /\ UNCHANGED <<db, listening, user, session, known, disturbed>>
  BY DEF Notify
<1>b. r \in Rules /\ s \in Settings \cup {None} /\ c \in Clients
  BY <1>a, CallFacts
<1>c. /\ m \in Messages /\ ~Sure(m)
      /\ \A x \in Rules \ {r} : ~Says(m, x)
      /\ s # None => Says(m, r) /\ Value(m, r) = s.version
  BY <1>b, Constructors
<1> HIDE DEF m
<1>d. /\ queue' \in [Clients -> Seq(Messages)] /\ SessionSound' /\ RequestsSound'
      /\ \A d \in Clients : Len(queue'[d]) <= MaxQueue + 1
      /\ \A d \in Clients, x \in Rules : \A v :
            ~Says(m, x) /\ Fits(session[d], known[d], queue[d], x, v) =>
                Fits(session'[d], known'[d], queue'[d], x, v)
      /\ \A x \in Rules : Says(m, x) => Fits(session'[c], known'[c], queue'[c], x, Value(m, x))
  BY <1>a, <1>b, <1>c, SendToKeeps
<1>e. /\ call'[a].pc = "idle" /\ \A b \in Calls \ {a} : call'[b] = call[b]
      /\ call' \in [Calls -> CallRecords]
  BY <1>a, CallFacts DEF TypeOK, CallRecords
<1>1. TypeOK'
  BY <1>a, <1>d, <1>e DEF TypeOK
<1>2. CallSound'
  <2> SUFFICES ASSUME NEW b \in Calls, call'[b].pc # "idle"
               PROVE  CallFits(b)'
    BY DEF CallSound
  <2>1. b # a /\ call'[b] = call[b] /\ CallFits(b)
    BY <1>e DEF CallSound
  <2>2. \A d \in Calls : call'[d].pc # "idle" => call'[d] = call[d]
    BY <1>e
  <2>3. QED
    BY <1>a, <2>1, <2>2 DEF CallFits
<1>3. SettledSound'
  <2> SUFFICES ASSUME NEW x \in Rules, db[x] # None, Calm(x)'
               PROVE  Fits(session'[db[x].client], known'[db[x].client], queue'[db[x].client],
                           x, db[x].version)
    BY <1>a DEF SettledSound
  <2>1. db[x].client \in Clients
    BY SettingsFacts DEF TypeOK
  <2>2. CASE x = r
    <3>1. ~disturbed[r]
      BY <1>a, <2>2 DEF Calm
    <3>2. db[r] = s /\ s # None /\ c = s.client
      BY <1>a, <2>2, <3>1 DEF CallSound, CallFits
    <3>3. QED
      BY <1>b, <1>c, <1>d, <2>2, <3>2
  <2>3. CASE x # r
    <3>1. Calm(x)
      BY <1>a, <1>e, <2>3 DEF Calm, Quiet
    <3>2. Fits(session[db[x].client], known[db[x].client], queue[db[x].client], x, db[x].version)
      BY <3>1 DEF SettledSound
    <3>3. QED
      BY <1>c, <1>d, <2>1, <2>3, <3>2
  <2>4. QED
    BY <2>2, <2>3
<1>4. QED
  BY <1>1, <1>2, <1>3, <1>d

\* A call is dropped half way: its rule is disturbed, and nothing else notices.
LEMMA AbandonInv ==
    ASSUME IInv, NEW a \in Calls, Abandon(a)
    PROVE  IInv'
<1> USE DEF IInv
<1> DEFINE r == call[a].rule
<1>a. /\ call[a].pc # "idle" /\ call' = [call EXCEPT ![a] = NoCall]
      /\ disturbed' = [disturbed EXCEPT ![r] = TRUE]
      /\ UNCHANGED <<db, listening, user, session, queue, known>>
  BY DEF Abandon
<1>b. r \in Rules
  BY <1>a, CallFacts
<1>c. /\ call'[a].pc = "idle" /\ \A b \in Calls \ {a} : call'[b] = call[b]
      /\ call' \in [Calls -> CallRecords]
  BY <1>a, CallFacts DEF TypeOK, CallRecords
<1>d. /\ disturbed' \in [Rules -> BOOLEAN] /\ disturbed'[r]
      /\ \A x \in Rules \ {r} : disturbed'[x] = disturbed[x]
  <2>1. disturbed \in [Rules -> BOOLEAN] /\ TRUE \in BOOLEAN
    BY Zenon DEF TypeOK
  <2>2. QED
    BY <1>a, <1>b, <2>1, Zenon
<1> HIDE DEF r
<1>e. \A x \in Rules : ~disturbed'[x] => x # r /\ ~disturbed[x]
  BY <1>d
<1>1. TypeOK'
  BY <1>a, <1>c, <1>d DEF TypeOK
<1>2. SessionSound' /\ RequestsSound'
  BY <1>a DEF SessionSound, RequestsSound
<1>3. CallSound'
  <2> SUFFICES ASSUME NEW b \in Calls, call'[b].pc # "idle"
               PROVE  CallFits(b)'
    BY DEF CallSound
  <2>1. b # a /\ call'[b] = call[b] /\ CallFits(b) /\ call[b].rule \in Rules
    BY <1>c, CallFacts DEF CallSound
  <2>2. \A d \in Calls : call'[d].pc # "idle" => call'[d] = call[d]
    BY <1>c
  <2>3. QED
    BY <1>a, <1>e, <2>1, <2>2 DEF CallFits
<1>4. SettledSound'
  <2>1. ASSUME NEW x \in Rules, Calm(x)'  PROVE Calm(x)
    <3>1. x # r /\ ~disturbed[x]
      BY <1>e, <2>1 DEF Calm
    <3>2. Quiet(x)
      BY <1>a, <1>c, <2>1, <3>1 DEF Calm, Quiet, r
    <3>3. QED
      BY <3>1, <3>2 DEF Calm
  <2>2. QED
    BY <1>a, <2>1 DEF SettledSound
<1>5. QED
  BY <1>1, <1>2, <1>3, <1>4

\* A connection is accepted.
LEMMA AcceptInv ==
    ASSUME IInv, NEW u \in Users, Accept(u)
    PROVE  IInv'
<1>1. UNCHANGED <<db, listening, call, session, queue, known, disturbed>>
  BY DEF Accept
<1>2. user' \in [Users -> [rule : Rules, client : Clients] \cup {None}]
  BY DEF IInv, TypeOK, Accept
<1>3. TypeOK'
  BY <1>1, <1>2 DEF IInv, TypeOK
<1>4. CallSound' /\ \A r \in Rules : Quiet(r)' => Quiet(r)
  BY <1>1 DEF IInv, CallSound, CallFits, Quiet
<1>5. QED
  BY <1>1, <1>3, <1>4, SameInv

\* The client is asked for a work connection: if the rule is settled and the
\* client's, the request is behind the rule.
LEMMA AskInv ==
    ASSUME IInv, NEW u \in Users, Ask(u)
    PROVE  IInv'
<1> USE DEF IInv
<1> DEFINE r == user[u].rule
           c == user[u].client
           b == Quiet(r) /\ ~disturbed[r] /\ RulesOf(c)[r] # None
           m == Work(r, b)
<1>a. /\ SendTo(c, m) /\ UNCHANGED <<db, listening, call, session, known, disturbed>>
      /\ user' = [user EXCEPT ![u] = None]
  BY DEF Ask
<1>b. r \in Rules /\ c \in Clients
  BY DEF Ask, TypeOK
<1>c. b \in BOOLEAN
  BY Zenon
<1>d. b => /\ Calm(r) /\ db[r] # None /\ db[r].client = c /\ db[r] \in Settings
  BY <1>b DEF Calm, RulesOf, TypeOK
<1> HIDE DEF b
<1>e. /\ m \in Messages /\ m.rule = r /\ (Sure(m) => b)
      /\ \A x \in Rules : ~Says(m, x)
  BY <1>b, <1>c, WorkFacts
<1> HIDE DEF m
<1>f. Sure(m) => Served(session[c], known[c], queue[c], Len(queue[c]), r)
  <2> SUFFICES ASSUME b PROVE Served(session[c], known[c], queue[c], Len(queue[c]), r)
    BY <1>e
  <2>1. Fits(session[c], known[c], queue[c], r, db[r].version) /\ db[r].version \in Versions
    BY <1>b, <1>d, SettingsFacts DEF SettledSound
  <2>2. QED
    BY <2>1 DEF Fits, Served
<1>g. /\ queue' \in [Clients -> Seq(Messages)] /\ SessionSound' /\ RequestsSound'
      /\ \A d \in Clients : Len(queue'[d]) <= MaxQueue + 1
      /\ \A d \in Clients, x \in Rules : \A v :
            ~Says(m, x) /\ Fits(session[d], known[d], queue[d], x, v) =>
                Fits(session'[d], known'[d], queue'[d], x, v)
  BY <1>a, <1>b, <1>e, <1>f, SendToKeeps
<1>1. TypeOK'
  BY <1>a, <1>g DEF TypeOK
<1>2. CallSound'
  BY <1>a DEF CallSound, CallFits
<1>3. SettledSound'
  <2> SUFFICES ASSUME NEW x \in Rules, db[x] # None, Calm(x)
               PROVE  Fits(session'[db[x].client], known'[db[x].client], queue'[db[x].client],
                           x, db[x].version)
    BY <1>a DEF SettledSound, Calm, Quiet
  <2>1. db[x].client \in Clients
    BY SettingsFacts DEF TypeOK
  <2>2. Fits(session[db[x].client], known[db[x].client], queue[db[x].client], x, db[x].version)
    BY DEF SettledSound
  <2>3. QED
    BY <1>e, <1>g, <2>1, <2>2
<1>4. QED
  BY <1>1, <1>2, <1>3, <1>g

\* What must be shown of a step of client c's session: its state, queue and table
\* change, and of the disturbed rules only c's can be put right, if no call on
\* them is under way.
LEMMA SessionStep ==
    ASSUME IInv, NEW c \in Clients, NEW sn \in {"down", "registered", "live"},
           NEW q \in Seq(Messages), NEW t \in Tables,
           session' = [session EXCEPT ![c] = sn], queue' = [queue EXCEPT ![c] = q],
           known' = [known EXCEPT ![c] = t], UNCHANGED <<db, listening, call, user>>,
           disturbed' \in [Rules -> BOOLEAN],
           \A r \in Rules : ~disturbed'[r] =>
               ~disturbed[r] \/ (Quiet(r) /\ db[r] # None /\ db[r].client = c),
           Len(q) <= MaxQueue + 1,
           sn = "down" => q = <<>>,
           sn # "live" => t = NoRules /\ Len(q) <= MaxQueue,
           \A r \in Rules : db[r] # None /\ Quiet(r) /\ ~disturbed'[r] /\ db[r].client = c =>
               Fits(sn, t, q, r, db[r].version),
           \A i \in 1 .. Len(q) : Sure(q[i]) => Served(sn, t, q, i - 1, q[i].rule)
    PROVE  IInv'
<1> USE DEF IInv
<1>1. /\ session'[c] = sn /\ queue'[c] = q /\ known'[c] = t
      /\ \A d \in Clients \ {c} :
            session'[d] = session[d] /\ queue'[d] = queue[d] /\ known'[d] = known[d]
      /\ session' \in [Clients -> {"down", "registered", "live"}]
      /\ queue' \in [Clients -> Seq(Messages)] /\ known' \in [Clients -> Tables]
  BY DEF TypeOK
<1>2. TypeOK'
  <2>1. \A d \in Clients : Len(queue'[d]) <= MaxQueue + 1
    BY <1>1 DEF TypeOK
  <2>2. QED
    BY <1>1, <2>1 DEF TypeOK
<1>3. SessionSound'
  BY <1>1 DEF SessionSound
<1>4. CallSound'
  <2> SUFFICES ASSUME NEW a \in Calls, call[a].pc # "idle"
               PROVE  CallFits(a)'
    BY DEF CallSound
  <2>1. CallFits(a) /\ call[a].rule \in Rules
    BY CallFacts DEF CallSound
  <2>2. ~disturbed'[call[a].rule] => ~disturbed[call[a].rule]
    BY <2>1 DEF Quiet
  <2>3. QED
    BY <2>1, <2>2 DEF CallFits
<1>5. SettledSound'
  <2> SUFFICES ASSUME NEW r \in Rules, db[r] # None, Quiet(r), ~disturbed'[r]
               PROVE  Fits(session'[db[r].client], known'[db[r].client], queue'[db[r].client],
                           r, db[r].version)
    BY DEF SettledSound, Calm, Quiet
  <2>1. db[r].client \in Clients
    BY SettingsFacts DEF TypeOK
  <2>2. CASE db[r].client = c
    BY <1>1, <2>2
  <2>3. CASE db[r].client # c
    BY <1>1, <2>1, <2>3 DEF SettledSound, Calm
  <2>4. QED
    BY <2>2, <2>3
<1>6. RequestsSound'
  BY <1>1 DEF RequestsSound
<1>7. QED
  BY <1>2, <1>3, <1>4, <1>5, <1>6

\* A client is registered, with nothing queued; or its session ends.
LEMMA RegisterInv ==
    ASSUME IInv, NEW c \in Clients, Register(c) \/ Disconnect(c)
    PROVE  IInv'
<1> USE DEF IInv
<1> DEFINE none == <<>>
<1>1. none \in Seq(Messages) /\ Len(none) = 0 /\ MaxQueue \in Nat /\ NoRules \in Tables
  BY EmptySeq, QueueAssumption, TableFacts
<1>2. /\ session' \in {[session EXCEPT ![c] = "registered"], [session EXCEPT ![c] = "down"]}
      /\ queue' = [queue EXCEPT ![c] = none] /\ known' = [known EXCEPT ![c] = NoRules]
      /\ UNCHANGED <<db, listening, call, user, disturbed>>
  <2>1. CASE Register(c)
    <3>1. queue[c] = none /\ known[c] = NoRules
      BY <2>1 DEF Register, SessionSound
    <3>2. QED
      BY <2>1, <3>1 DEF Register, TypeOK
  <2>2. CASE Disconnect(c)
    BY <2>2 DEF Disconnect
  <2>3. QED
    BY <2>1, <2>2
<1>3. \A r : NoneSays(none, Len(none), r)
  BY <1>1 DEF NoneSays
<1> HIDE DEF none
<1>4. /\ Len(none) <= MaxQueue /\ Len(none) <= MaxQueue + 1
      /\ \A i \in 1 .. Len(none) : FALSE
  BY <1>1
<1>5. \A sn \in {"registered", "down"} : \A r, v : Fits(sn, NoRules, none, r, v)
  BY <1>3 DEF Fits
<1>9. disturbed' \in [Rules -> BOOLEAN] /\ \A r \in Rules : ~disturbed'[r] =>
         ~disturbed[r] \/ (Quiet(r) /\ db[r] # None /\ db[r].client = c)
  BY <1>2 DEF TypeOK
<1>10. \A sn \in {"registered", "down"} :
          /\ \A r \in Rules : db[r] # None /\ Quiet(r) /\ ~disturbed'[r] /\ db[r].client = c =>
                Fits(sn, NoRules, none, r, db[r].version)
          /\ \A i \in 1 .. Len(none) : Sure(none[i]) => Served(sn, NoRules, none, i - 1, none[i].rule)
  BY <1>4, <1>5
<1>6. CASE session' = [session EXCEPT ![c] = "registered"]
  BY <1>1, <1>2, <1>4, <1>6, <1>9, <1>10, SessionStep
<1>7. CASE session' = [session EXCEPT ![c] = "down"]
  <2>1. none = <<>>
    BY DEF none
  <2>2. QED
    BY <1>1, <1>2, <1>4, <1>7, <1>9, <1>10, <2>1, SessionStep
<1>8. QED
  BY <1>2, <1>6, <1>7

\* What PushRules does to a queued message m when it sends the table t: a
\* request for a rule that t does not have is no longer sure.
Mark(t, m) == IF m.type = "work" /\ t[m.rule] = None THEN [m EXCEPT !.sure = FALSE] ELSE m

LEMMA MarkFacts ==
    ASSUME NEW t \in Tables, NEW m \in Messages
    PROVE  /\ Mark(t, m) \in Messages
           /\ \A r \in Rules : /\ Says(Mark(t, m), r) <=> Says(m, r)
                               /\ Says(m, r) => Value(Mark(t, m), r) = Value(m, r)
           /\ Sure(Mark(t, m)) => /\ Sure(m) /\ Mark(t, m).rule = m.rule
                                  /\ m.rule \in Rules /\ t[m.rule] # None
<1>1. CASE m.type = "work" /\ t[m.rule] = None
  <2> DEFINE w == [m EXCEPT !.sure = FALSE]
  <2>1. m \in [type : {"work"}, rule : Rules, sure : BOOLEAN]
    BY <1>1 DEF Messages
  <2>2. w.type = "work" /\ ~w.sure
    BY <1>1, <2>1
  <2>3. w \in [type : {"work"}, rule : Rules, sure : BOOLEAN]
    <3>1. \A B, x : x \in B /\ m \in [type : {"work"}, rule : Rules, sure : B] =>
              [m EXCEPT !.sure = x] \in [type : {"work"}, rule : Rules, sure : B]
      OBVIOUS
    <3>2. FALSE \in BOOLEAN
      BY Zenon
    <3>3. QED
      BY <2>1, <3>1, <3>2, Zenon
  <2>4. Mark(t, m) = w
    BY <1>1 DEF Mark
  <2> HIDE DEF w
  <2>5. Mark(t, m) \in Messages /\ ~Sure(Mark(t, m))
    BY <2>2, <2>3, <2>4 DEF Messages, Sure
  <2>6. \A r \in Rules : ~Says(Mark(t, m), r) /\ ~Says(m, r)
    BY <1>1, <2>2, <2>4 DEF Says
  <2>7. QED
    BY <2>5, <2>6
<1>2. CASE ~(m.type = "work" /\ t[m.rule] = None)
  <2>1. Mark(t, m) = m
    BY <1>2 DEF Mark
  <2>2. QED
    BY <1>2, <2>1, MessageFacts DEF Sure
<1>3. QED
  BY <1>1, <1>2

\* The rules that could be read go out ahead of what is queued.
LEMMA PushRulesInv ==
    ASSUME IInv, NEW c \in Clients, PushRules(c)
    PROVE  IInv'
<1> USE DEF IInv
<1>t. PICK t \in {RulesOf(c), NoRules} :
         /\ queue' = [queue EXCEPT ![c] = <<Push(t)>> \o [i \in 1 .. Len(@) |-> Mark(t, @[i])]]
         /\ disturbed' = [r \in Rules |-> IF r \in Untold(c) THEN t[r] = None ELSE disturbed[r]]
  BY DEF PushRules, Mark
<1> DEFINE q == queue[c]
           p == [i \in 1 .. Len(q) |-> Mark(t, q[i])]
           w == <<Push(t)>> \o p
<1>a. /\ session[c] = "registered" /\ session' = [session EXCEPT ![c] = "live"]
      /\ UNCHANGED <<db, listening, call, user, known>>
      /\ queue' = [queue EXCEPT ![c] = w]
  BY <1>t DEF PushRules
<1>b. /\ t \in Tables /\ q \in Seq(Messages) /\ Len(q) \in Nat /\ known[c] \in Tables
      /\ \A i \in 1 .. Len(q) : q[i] \in Messages
      /\ Len(q) <= MaxQueue /\ MaxQueue \in Nat
  BY <1>a, TableFacts, QueueAssumption DEF SessionSound
<1>c. \A r \in Rules : db[r] # None /\ db[r].client = c /\ t[r] # None => t[r] = db[r].version
  BY DEF RulesOf, NoRules
<1>h. disturbed' \in [Rules -> BOOLEAN]
  <2>1. \A r \in Rules : disturbed[r] \in BOOLEAN /\ (t[r] = None) \in BOOLEAN
    BY Zenon DEF TypeOK
  <2>2. QED
    BY <1>t, <2>1, Zenon
<1>i. \A r \in Rules : ~disturbed'[r] => IF r \in Untold(c) THEN t[r] # None ELSE ~disturbed[r]
  BY <1>t, Zenon
<1>j. \A r \in Rules : ~disturbed'[r] =>
         ~disturbed[r] \/ (Quiet(r) /\ db[r] # None /\ db[r].client = c)
  BY <1>i DEF Untold
<1>d. \A r \in Rules : t[r] # None => t[r] \in Versions
  BY <1>b DEF Tables
<1> HIDE DEF q
<1>e. p \in Seq(Messages) /\ Len(p) = Len(q) /\ \A i \in 1 .. Len(q) : p[i] = Mark(t, q[i])
  <2>1. \A i \in 1 .. Len(q) : Mark(t, q[i]) \in Messages
    BY <1>b, MarkFacts
  <2>2. p \in [1 .. Len(q) -> Messages]
    BY <2>1
  <2>3. QED
    BY <1>b, <2>2, SeqDef, LenProperties
<1> HIDE DEF p
<1>f. /\ w \in Seq(Messages) /\ Len(w) = Len(q) + 1 /\ w[1] = Push(t)
      /\ \A i \in 1 .. Len(q) : w[i + 1] = Mark(t, q[i])
  <2> DEFINE h == <<Push(t)>>
  <2>1. h \in Seq(Messages) /\ Len(h) = 1 /\ h[1] = Push(t)
    BY <1>b, Constructors
  <2> HIDE DEF h
  <2>2. /\ h \o p \in Seq(Messages) /\ Len(h \o p) = Len(q) + 1
        /\ \A i \in 1 .. Len(q) + 1 : (h \o p)[i] = IF i <= 1 THEN h[i] ELSE p[i - 1]
    <3>1. /\ h \o p \in Seq(Messages) /\ Len(h \o p) = Len(h) + Len(p)
          /\ \A i \in 1 .. Len(h) + Len(p) :
                (h \o p)[i] = IF i <= Len(h) THEN h[i] ELSE p[i - Len(h)]
      <4>1. \A x, y \in Seq(Messages) :
                /\ x \o y \in Seq(Messages) /\ Len(x \o y) = Len(x) + Len(y)
                /\ \A i \in 1 .. Len(x) + Len(y) :
                      (x \o y)[i] = IF i <= Len(x) THEN x[i] ELSE y[i - Len(x)]
        BY ConcatProperties
      <4>2. h \in Seq(Messages) /\ p \in Seq(Messages)
        BY <1>e, <2>1
      <4>3. QED
        BY <4>1, <4>2, Zenon
    <3>2. Len(h) + Len(p) = Len(q) + 1
      BY <1>b, <1>e, <2>1
    <3>3. QED
      BY <2>1, <3>1, <3>2
  <2>3. 1 \in 1 .. Len(q) + 1 /\ \A i \in 1 .. Len(q) : /\ i + 1 \in 1 .. Len(q) + 1 /\ ~(i + 1 <= 1)
                                                        /\ (i + 1) - 1 = i
    BY <1>b
  <2>4. \A i \in 1 .. Len(q) : (h \o p)[i + 1] = p[i]
    BY <2>2, <2>3
  <2>5. QED
    BY <1>e, <2>1, <2>2, <2>3, <2>4 DEF h
<1> HIDE DEF w
<1>g. \A r \in Rules : \A n \in 0 .. Len(q) :
          /\ NoneSays(q, n, r) => LastSays(w, n + 1, r, t[r])
          /\ \A v : LastSays(q, n, r, v) => LastSays(w, n + 1, r, v)
  BY <1>b, <1>f, MarkFacts, PushSays
<1>1. \A r \in Rules : db[r] # None /\ Quiet(r) /\ ~disturbed'[r] /\ db[r].client = c =>
          Fits("live", known[c], w, r, db[r].version)
  <2> SUFFICES ASSUME NEW r \in Rules, db[r] # None, Quiet(r), ~disturbed'[r], db[r].client = c
               PROVE  LastSays(w, Len(w), r, db[r].version)
    BY DEF Fits, Knows
  <2>1. Len(q) \in 0 .. Len(q) /\ Len(w) = Len(q) + 1
    BY <1>b, <1>f
  <2>2. r \in Untold(c) <=> NoneSays(q, Len(q), r)
    BY DEF Untold, NoneSays, q
  <2>3. CASE NoneSays(q, Len(q), r)
    BY <1>c, <1>g, <1>i, <2>1, <2>2, <2>3
  <2>4. CASE ~NoneSays(q, Len(q), r)
    <3>1. Calm(r)
      BY <1>i, <2>2, <2>4 DEF Calm
    <3>2. LastSays(q, Len(q), r, db[r].version)
      BY <1>a, <2>4, <3>1 DEF SettledSound, Fits, q
    <3>3. QED
      BY <1>g, <2>1, <3>2
  <2>5. QED
    BY <2>3, <2>4
<1>2. \A i \in 1 .. Len(w) : Sure(w[i]) => Served("live", known[c], w, i - 1, w[i].rule)
  <2> SUFFICES ASSUME NEW i \in 1 .. Len(w), Sure(w[i])
               PROVE  \E v \in Versions : LastSays(w, i - 1, w[i].rule, v)
    BY DEF Served, Knows
  <2>1. i # 1
    BY <1>b, <1>f, Constructors
  <2>2. PICK j \in 1 .. Len(q) : i = j + 1
    <3>1. i - 1 \in 1 .. Len(q) /\ i = (i - 1) + 1
      BY <1>b, <1>f, <2>1
    <3>2. QED
      BY <3>1
  <2>3. /\ Sure(q[j]) /\ w[i].rule = q[j].rule /\ q[j].rule \in Rules /\ t[q[j].rule] # None
    BY <1>b, <1>f, <2>2, MarkFacts
  <2>4. NoneSays(q, j - 1, q[j].rule) \/ \E v \in Versions : LastSays(q, j - 1, q[j].rule, v)
    BY <1>a, <2>3 DEF RequestsSound, Served, q
  <2>5. j - 1 \in 0 .. Len(q) /\ (j - 1) + 1 = i - 1
    BY <1>b, <2>2
  <2>6. QED
    BY <1>d, <1>g, <2>3, <2>4, <2>5
<1>3. known' = [known EXCEPT ![c] = known[c]]
  BY <1>a DEF TypeOK
<1>4. Len(w) <= MaxQueue + 1
  BY <1>b, <1>f
<1>5. QED
  BY <1>a, <1>b, <1>f, <1>h, <1>j, <1>1, <1>2, <1>3, <1>4, SessionStep

\* The client handles the next message.
LEMMA ClientReceiveInv ==
    ASSUME IInv, NEW c \in Clients, ClientReceive(c)
    PROVE  IInv'
<1> USE DEF IInv
<1> DEFINE q == queue[c]
           w == Tail(q)
           t == Apply(known[c], Head(q))
<1>a. /\ session[c] = "live" /\ q # <<>>
      /\ queue' = [queue EXCEPT ![c] = w] /\ known' = [known EXCEPT ![c] = t]
      /\ UNCHANGED <<db, listening, call, user, session, disturbed>>
  BY DEF ClientReceive
<1>b. /\ q \in Seq(Messages) /\ Len(q) \in Nat /\ known[c] \in Tables
      /\ Len(q) <= MaxQueue + 1 /\ MaxQueue \in Nat
      /\ \A i \in 1 .. Len(q) : q[i] \in Messages
  BY TableFacts, QueueAssumption DEF TypeOK
<1> HIDE DEF q
<1>c. /\ Head(q) \in Messages /\ w \in Seq(Messages) /\ Len(w) = Len(q) - 1 /\ Len(q) # 0
      /\ \A i \in 1 .. Len(w) : w[i] = q[i + 1]
  BY <1>a, <1>b, HeadTailProperties, EmptySeq
<1>d. t \in Tables
  BY <1>b, <1>c, ApplyFacts
<1>e. \A r \in Rules : \A n \in 1 .. Len(q) : \A v :
          Knows(known[c], q, n, r, v) => Knows(t, w, n - 1, r, v)
  BY <1>a, <1>b, TailKnows
<1> HIDE DEF w, t
<1>1. \A r \in Rules : db[r] # None /\ Calm(r) /\ db[r].client = c =>
          Fits("live", t, w, r, db[r].version)
  <2> SUFFICES ASSUME NEW r \in Rules, db[r] # None, Calm(r), db[r].client = c
               PROVE  Knows(t, w, Len(w), r, db[r].version)
    BY DEF Fits
  <2>1. Knows(known[c], q, Len(q), r, db[r].version)
    BY <1>a DEF SettledSound, Fits, q
  <2>2. Len(q) \in 1 .. Len(q)
    BY <1>b, <1>c
  <2>3. QED
    BY <1>c, <1>e, <2>1, <2>2
<1>2. \A i \in 1 .. Len(w) : Sure(w[i]) => Served("live", t, w, i - 1, w[i].rule)
  <2> SUFFICES ASSUME NEW i \in 1 .. Len(w), Sure(w[i])
               PROVE  \E v \in Versions : Knows(t, w, i - 1, w[i].rule, v)
    BY DEF Served
  <2>1. i \in 1 .. Len(q) /\ i + 1 \in 1 .. Len(q) /\ (i + 1) - 1 = i /\ w[i] = q[i + 1]
    BY <1>b, <1>c
  <2>2. w[i].rule \in Rules
    BY <1>b, <2>1, MessageFacts DEF Sure
  <2>3. Served("live", known[c], q, (i + 1) - 1, q[i + 1].rule)
    BY <1>a, <2>1 DEF RequestsSound, q
  <2>4. \E v \in Versions : Knows(known[c], q, i, w[i].rule, v)
    BY <2>1, <2>3 DEF Served
  <2>5. QED
    BY <1>e, <2>1, <2>2, <2>4
<1>3. session' = [session EXCEPT ![c] = "live"]
  BY <1>a DEF TypeOK
<1>4. Len(w) <= MaxQueue + 1
  BY <1>b, <1>c
<1>5. disturbed' \in [Rules -> BOOLEAN] /\ \A r \in Rules : ~disturbed'[r] => Calm(r) \/ ~Quiet(r)
  BY <1>a DEF TypeOK, Calm
<1>6. QED
  BY <1>a, <1>b, <1>c, <1>d, <1>1, <1>2, <1>3, <1>4, <1>5, SessionStep DEF Calm

\* The server starts again, with no sessions and no calls.
LEMMA RestartInv ==
    ASSUME IInv, Restart
    PROVE  IInv'
<1> USE DEF IInv
<1> DEFINE none == <<>>
<1>1. none \in Seq(Messages) /\ Len(none) = 0 /\ MaxQueue \in Nat
  BY EmptySeq, QueueAssumption
<1>2. /\ call' = [a \in Calls |-> NoCall] /\ user' = [u \in Users |-> None]
      /\ session' = [c \in Clients |-> "down"] /\ queue' = [c \in Clients |-> none]
      /\ known' = [c \in Clients |-> NoRules] /\ UNCHANGED db
      /\ disturbed' = [r \in Rules |-> FALSE]
  BY DEF Restart
<1> HIDE DEF none
<1>3. listening' \in [Rules -> Clients \cup {None}]
  BY SettingsFacts DEF Restart, TypeOK
<1>4. NoRules \in Tables
  BY DEF NoRules, Tables
<1>5. disturbed' \in [Rules -> BOOLEAN]
  BY <1>2, Zenon
<1>6. \A c \in Clients : session'[c] = "down" /\ queue'[c] = none /\ known'[c] = NoRules
  BY <1>2
<1>7. TypeOK'
  <2>1. db' \in [Rules -> Settings \cup {None}] /\ call' \in [Calls -> CallRecords]
    BY <1>2 DEF TypeOK, CallRecords
  <2>2. user' \in [Users -> [rule : Rules, client : Clients] \cup {None}]
    BY <1>2
  <2>3. /\ session' \in [Clients -> {"down", "registered", "live"}]
        /\ queue' \in [Clients -> Seq(Messages)] /\ known' \in [Clients -> Tables]
        /\ \A c \in Clients : Len(queue'[c]) <= MaxQueue + 1
    BY <1>1, <1>2, <1>4
  <2>4. QED
    BY <1>3, <1>5, <2>1, <2>2, <2>3 DEF TypeOK
<1>8. SessionSound'
  <2>1. Len(none) <= MaxQueue
    BY <1>1
  <2>2. \A c \in Clients : queue'[c] = <<>>
    BY <1>6 DEF none
  <2>3. QED
    BY <1>6, <2>1, <2>2 DEF SessionSound
<1>9. CallSound'
  BY <1>2 DEF CallSound, NoCall
<1>10. SettledSound'
  <2>1. \A r \in Rules : db'[r] # None => db'[r].client \in Clients
    BY <1>2, SettingsFacts DEF TypeOK
  <2>2. QED
    BY <1>6, <2>1 DEF SettledSound, Fits
<1>11. RequestsSound'
  BY <1>1, <1>6 DEF RequestsSound
<1>12. QED
  BY <1>7, <1>8, <1>9, <1>10, <1>11

LEMMA InitInv == Init => IInv
<1> SUFFICES ASSUME Init PROVE IInv
  OBVIOUS
<1> DEFINE none == <<>>
<1>1. none \in Seq(Messages) /\ Len(none) = 0 /\ MaxQueue \in Nat
  BY EmptySeq, QueueAssumption
<1>2. /\ call = [a \in Calls |-> NoCall] /\ user = [u \in Users |-> None]
      /\ session = [c \in Clients |-> "down"] /\ queue = [c \in Clients |-> none]
      /\ known = [c \in Clients |-> NoRules] /\ db = [r \in Rules |-> None]
      /\ listening = [r \in Rules |-> None] /\ disturbed = [r \in Rules |-> FALSE]
  BY DEF Init
<1> HIDE DEF none
<1>3. NoRules \in Tables
  BY DEF NoRules, Tables
<1>4. disturbed \in [Rules -> BOOLEAN]
  BY <1>2, Zenon
<1>5. TypeOK
  <2>1. /\ session \in [Clients -> {"down", "registered", "live"}]
        /\ queue \in [Clients -> Seq(Messages)] /\ known \in [Clients -> Tables]
        /\ \A c \in Clients : Len(queue[c]) <= MaxQueue + 1
    BY <1>1, <1>2, <1>3
  <2>2. /\ db \in [Rules -> Settings \cup {None}] /\ call \in [Calls -> CallRecords]
        /\ listening \in [Rules -> Clients \cup {None}]
        /\ user \in [Users -> [rule : Rules, client : Clients] \cup {None}]
    BY <1>2 DEF CallRecords
  <2>3. QED
    BY <1>4, <2>1, <2>2 DEF TypeOK
<1>6. \A c \in Clients : session[c] = "down" /\ queue[c] = none /\ known[c] = NoRules
  BY <1>2
<1>7. SessionSound
  <2>1. Len(none) <= MaxQueue
    BY <1>1
  <2>2. \A c \in Clients : queue[c] = <<>>
    BY <1>6 DEF none
  <2>3. QED
    BY <1>6, <2>1, <2>2 DEF SessionSound
<1>8. CallSound
  BY <1>2 DEF CallSound, NoCall
<1>9. SettledSound
  BY <1>2 DEF SettledSound
<1>10. RequestsSound
  BY <1>1, <1>6 DEF RequestsSound
<1>11. QED
  BY <1>5, <1>7, <1>8, <1>9, <1>10 DEF IInv

LEMMA NextInv == IInv /\ [Next]_vars => IInv'
<1> SUFFICES ASSUME IInv, [Next]_vars PROVE IInv'
  OBVIOUS
<1>1. ASSUME NEW a \in Calls, create_proxy(a) \/ update_proxy(a) \/ delete_proxy(a)
      PROVE  IInv'
  <2>1. PICK r \in Rules, new \in Settings \cup {None}, p \in {"start", "stop"} :
           /\ Begin(a, r, new, p) /\ (p = "start" => new # None) /\ (new = None => db[r] # None)
    BY <1>1, SettingsFacts DEF create_proxy, update_proxy, delete_proxy
  <2>2. QED
    BY <2>1, BeginInv
<1>2. ASSUME NEW a \in Calls, StopListener(a) \/ StartListener(a) \/ Notify(a) \/ Abandon(a)
      PROVE  IInv'
  BY <1>2, ListenerInv, NotifyInv, AbandonInv
<1>3. ASSUME NEW u \in Users, Accept(u) \/ Ask(u)  PROVE IInv'
  BY <1>3, AcceptInv, AskInv
<1>4. ASSUME NEW c \in Clients,
             Register(c) \/ PushRules(c) \/ ClientReceive(c) \/ Disconnect(c)
      PROVE  IInv'
  BY <1>4, RegisterInv, PushRulesInv, ClientReceiveInv
<1>5. CASE Restart
  BY <1>5, RestartInv
<1>6. CASE UNCHANGED vars
  BY <1>6 DEF vars, IInv, TypeOK, SessionSound, CallSound, CallFits, SettledSound, Calm, Quiet,
              RequestsSound
<1>7. QED
  BY <1>1, <1>2, <1>3, <1>4, <1>5, <1>6 DEF Next

-----------------------------------------------------------------------------
(* The theorems *)

\* Whatever is queued, requested or under way fits the database in every
\* reachable state.
THEOREM Invariance == Spec => []IInv
  BY InitInv, NextInv, PTL DEF Spec

\* Every table, call and message of the server and the clients is well formed,
\* and no session's channel grows beyond its capacity and the pushed rules,
\* for any number of clients, rules and concurrent API calls.
THEOREM TypeCorrect == Spec => []TypeOK
<1>1. IInv => TypeOK
  BY DEF IInv
<1>2. QED
  BY Invariance, <1>1, PTL

\* No client misses a change: when a rule's last API call had it to itself and
\* has notified its client (notify_client), or the client was sent the rule when
\* it connected, the client has the settings or they are on their way, however
\* the calls, the registration, the pushed rules and crashes of the server
\* interleave, and whatever calls on other rules were abandoned.
THEOREM ClientsInSync == Spec => []InSync
<1>1. ASSUME IInv  PROVE InSync
  <2> USE <1>1 DEF IInv
  <2> SUFFICES ASSUME NEW r \in Rules, db[r] # None, Quiet(r), ~disturbed[r],
                      session[db[r].client] = "live"
               PROVE  KnowsAfter(db[r].client, Len(queue[db[r].client]), r, db[r].version)
    BY DEF InSync
  <2> DEFINE c == db[r].client
             q == queue[c]
             v == db[r].version
  <2>1. c \in Clients
    BY SettingsFacts DEF TypeOK
  <2>2. Knows(known[c], q, Len(q), r, v)
    BY DEF SettledSound, Calm, Fits
  <2>3. /\ known[c] \in Tables /\ \A i \in 1 .. Len(q) : q[i] \in Messages
    BY <2>1, TableFacts
  <2>4. \A i \in 1 .. Len(q) : Says(q[i], r) => Apply(known[c], q[i])[r] = Value(q[i], r)
    BY <2>3, ApplyFacts
  <2>5. QED
    BY <2>2, <2>4 DEF Knows, NoneSays, LastSays, KnowsAfter
<1>2. QED
  BY Invariance, <1>1, PTL

\* A request for a work connection that was made while its rule was settled
\* finds the rule in the client's table, so that the client never ignores it,
\* unless the rules could not be read when the client connected.
THEOREM RequestsServed == Spec => []SettledRequestsServed
<1>1. ASSUME IInv  PROVE SettledRequestsServed
  <2> USE <1>1 DEF IInv
  <2> SUFFICES ASSUME NEW c \in Clients, session[c] = "live", queue[c] # <<>>, Sure(Head(queue[c]))
               PROVE  known[c][Head(queue[c]).rule] # None
    BY DEF SettledRequestsServed, Sure
  <2> DEFINE q == queue[c]
  <2>1. q \in Seq(Messages) /\ Len(q) \in Nat /\ q # <<>>
    BY TableFacts
  <2>2. Head(q) = q[1] /\ 1 \in 1 .. Len(q)
    BY <2>1, HeadTailProperties, EmptySeq
  <2>3. Served("live", known[c], q, 1 - 1, q[1].rule)
    BY <2>2 DEF RequestsSound
  <2>4. PICK v \in Versions : Knows(known[c], q, 0, q[1].rule, v)
    BY <2>3 DEF Served
  <2>5. known[c][q[1].rule] = v
    BY <2>4 DEF Knows, LastSays
  <2>6. QED
    BY <2>2, <2>5, NoneAssumption
<1>2. QED
  BY Invariance, <1>1, PTL
=============================================================================
