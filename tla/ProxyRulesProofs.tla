--------------------------- MODULE ProxyRulesProofs ---------------------------
(***************************************************************************)
(* Proofs about ProxyRules, for any rules, ports, domains and API calls.   *)
(*                                                                         *)
(* IInv is inductive.  HandleSound follows every loop through the places   *)
(* its handle can be in (the map, the call that has just bound the socket, *)
(* the call that is about to abort the loop): whoever has a handle has it  *)
(* alone, and the loop runs.  LoopSound says the converse for a rule that  *)
(* is not disturbed: no loop of it runs without a handle.                  *)
(* RuleSound says at each step of a call what the tables hold of its rule. *)
(* RouteSound, HeldSound and ReachSound do so for domains: a rule's routes *)
(* are for domains it has or is giving up, two rules do not have a domain  *)
(* unless it is marked as shared, and a domain that is not leads to its    *)
(* rule.                                                                   *)
(***************************************************************************)
EXTENDS ProxyRules, TLAPS

Dom(e) == IF e = None THEN {} ELSE e.domains

\* What the calls are about to do with rule r: the records of the calls on it,
\* or NoCall when there are none.
Now(r) ==
    {k \in {call[a] : a \in Calls} \cup {NoCall} : IF k = NoCall THEN Quiet(r) ELSE k.rule = r}

\* A rule that is not disturbed has at most one call.
OneCall ==
    \A a, b \in Calls :
        call[a] # NoCall /\ call[b] # NoCall /\ call[a].rule = call[b].rule /\ ~disturbed[call[a].rule]
            => a = b

\* What a call's record says of the endpoint it is to write or start.
Shape(k) ==
    /\ k.pc \in {"insert", "insert_runtime", "update", "start", "insert_handle"} => k.new # None
    /\ k.pc = "delete" => k.new = None
CallSound == \A a \in Calls : Shape(call[a])

\* The handle that call k has in its hands.
Handle(k) == IF k.pc = "insert_handle" THEN k.new ELSE IF k.pc = "join" THEN k.was ELSE None

HandleSound ==
    /\ \A r \in Rules : listeners[r] # None => Serves(r, listeners[r])
    /\ \A a \in Calls : Handle(call[a]) # None =>
          /\ Handle(call[a]) \in Sockets /\ Serves(call[a].rule, Handle(call[a]))
          /\ \A r \in Rules : listeners[r] # Handle(call[a])
          /\ \A b \in Calls : Handle(call[b]) = Handle(call[a]) => b = a

LoopSound ==
    \A r \in Rules : ~disturbed[r] =>
        \A k \in Now(r), e \in Sockets : Serves(r, e) => listeners[r] = e \/ Handle(k) = e

\* The listener l of a rule with endpoint x, if there is one.
Own(l, x) == l = None \/ (l = x /\ x \in Sockets)

\* Endpoint x, status s and listener l of a rule that nobody is changing.
Rest(x, s, l) ==
    /\ Own(l, x)
    /\ s = None <=> x = None
    /\ x \in Sockets \cup NoPort => s \in {"running", "error"} /\ (s = "running" <=> l # None)

\* The same, when call k is at work.
Fits(k, x, s, l) ==
    /\ k.pc = "idle" => Rest(x, s, l)
    /\ k.pc = "insert" => x = None /\ s = None /\ l = None
    /\ k.pc = "insert_runtime" => x = k.new /\ x # None /\ l = None
    /\ k.pc \in {"start", "insert_handle"} => x = k.new /\ x # None /\ s # None /\ l = None
    /\ k.pc = "running" => s # None /\ x # None /\ Own(l, x) /\ (x \notin ByDomain => l = x)
    /\ k.pc = "error" => s # None /\ x # None /\ x \notin ByDomain /\ l = None
    /\ k.pc \in {"update", "delete"} => x = k.was /\ x # None /\ Rest(x, s, l)
    /\ k.pc = "remove_runtime" => x = None /\ k.new = None /\ k.was # None /\ Own(l, k.was)
    /\ k.pc = "stop" => x = k.new /\ k.was # None /\ (s = None <=> x = None) /\ Own(l, k.was)
    /\ k.pc \in {"join", "stopped"} => x = k.new /\ (s = None <=> x = None) /\ l = None

RuleSound ==
    \A r \in Rules : ~disturbed[r] => \A k \in Now(r) : Fits(k, db[r], runtime[r], listeners[r])

\* The endpoint that a rule may still have routes for, x being the one in the
\* database.
Routed(k, x) ==
    IF k.pc \in {"idle", "update", "delete", "running"} THEN x
    ELSE IF k.pc \in {"remove_runtime", "stop"} THEN k.was ELSE None

RouteSound ==
    \A r \in Rules : ~disturbed[r] =>
        \A k \in Now(r), d \in Domains : routes[d] = r => d \in Dom(Routed(k, db[r]))

\* What a call has written.
Written(k) == IF k.pc \in {"insert", "update"} THEN None ELSE k.new

\* Rule r has domain d, or a call on it has given it d or is taking d away.
Has(r, d) ==
    \/ d \in Dom(db[r])
    \/ \E a \in Calls : /\ call[a] # NoCall /\ call[a].rule = r
                        /\ d \in Dom(call[a].was) \cup Dom(Written(call[a]))

HeldSound ==
    \A q, r \in Rules, d \in Domains : q # r /\ Has(q, d) /\ Has(r, d) => d \in shared

ReachSound ==
    \A r \in Rules : ~disturbed[r] =>
        \A k \in Now(r), d \in Domains :
            k.pc \in {"idle", "update", "delete", "running"} /\ d \in Dom(db[r]) /\ d \notin shared
                => routes[d] = r

\* The inductive invariant.
IInv ==
    /\ TypeOK /\ OneCall /\ CallSound /\ HandleSound /\ LoopSound /\ RuleSound
    /\ RouteSound /\ HeldSound /\ ReachSound

-----------------------------------------------------------------------------
(* The parts of the state *)

LEMMA EndpointFacts ==
    /\ None \notin Sockets /\ None \notin Endpoints /\ None \notin ByDomain
    /\ Sockets \subseteq Endpoints /\ ByDomain \subseteq Endpoints
    /\ \A e \in Endpoints : e \in Sockets \/ e \in NoPort \/ e \in ByDomain
    /\ \A e \in Sockets \cup NoPort : e \notin ByDomain
    /\ \A e \in Sockets : e \notin NoPort
    /\ Dom(None) = {}
    /\ \A e \in Endpoints : Dom(e) = e.domains /\ Dom(e) \subseteq Domains
    /\ \A e \in Endpoints : e \notin ByDomain => Dom(e) = {}
<1>1. None \notin Sockets /\ None \notin Endpoints /\ None \notin ByDomain
  BY NoneAssumption DEF Endpoints
<1>2. \A e \in Sockets \cup NoPort : e \notin ByDomain
  BY TypesAssumption DEF Sockets, NoPort, ByDomain
<1>3. \A e \in Sockets : e \notin NoPort
  BY PortsAssumption DEF Sockets, NoPort
<1>4. \A e \in Endpoints : Dom(e) = e.domains
  BY <1>1 DEF Dom
<1>5. \A e \in Sockets \cup NoPort : e.domains = {}
  BY DEF Sockets, NoPort
<1>6. \A e \in ByDomain : e.domains \subseteq Domains
  BY DEF ByDomain
<1>7. QED
  BY <1>1, <1>2, <1>3, <1>4, <1>5, <1>6 DEF Endpoints, Dom

PCs == {"insert", "insert_runtime", "update", "delete", "remove_runtime", "start",
        "insert_handle", "running", "error", "stop", "join", "stopped"}

LEMMA RecordFacts ==
    /\ NoCall \in CallRecords /\ NoCall.pc = "idle" /\ Handle(NoCall) = None
    /\ \A k \in CallRecords : k = NoCall <=> k.pc = "idle"
    /\ \A k \in CallRecords : k # NoCall =>
          /\ k.pc \in PCs /\ k.rule \in Rules
          /\ k.was \in Endpoints \cup {None} /\ k.new \in Endpoints \cup {None}
  BY DEF CallRecords, NoCall, Handle, PCs

\* A call's record with another pc.
LEMMA NewPc ==
    ASSUME NEW k \in CallRecords, k # NoCall, NEW p \in PCs
    PROVE  LET w == [k EXCEPT !.pc = p]
           IN  /\ w \in CallRecords /\ w # NoCall
               /\ w.pc = p /\ w.rule = k.rule /\ w.was = k.was /\ w.new = k.new
<1> DEFINE R == [pc : PCs, rule : Rules, was : Endpoints \cup {None}, new : Endpoints \cup {None}]
           w == [k EXCEPT !.pc = p]
<1>1. k \in R /\ R \subseteq CallRecords /\ \A x \in R : x # NoCall
  BY DEF CallRecords, PCs, NoCall
<1>2. w \in R /\ w.pc = p /\ w.rule = k.rule /\ w.was = k.was /\ w.new = k.new
  BY <1>1
<1>3. QED
  BY <1>1, <1>2, Zenon

LEMMA StateFacts ==
    ASSUME TypeOK
    PROVE  /\ \A a \in Calls : call[a] \in CallRecords
           /\ \A r \in Rules : /\ db[r] \in Endpoints \cup {None} /\ runtime[r] \in Statuses \cup {None}
                               /\ listeners[r] \in Sockets \cup {None}
           /\ \A d \in Domains : routes[d] \in Rules \cup {None}
  BY DEF TypeOK

LEMMA QuietFacts ==
    ASSUME TypeOK, NEW r \in Rules
    PROVE  Quiet(r) <=> \A a \in Calls : call[a] # NoCall => call[a].rule # r
  BY StateFacts, RecordFacts DEF Quiet

LEMMA NowFacts ==
    ASSUME TypeOK, NEW r \in Rules, NEW k
    PROVE  k \in Now(r) <=> \/ k = NoCall /\ Quiet(r)
                            \/ \E a \in Calls : k = call[a] /\ k # NoCall /\ k.rule = r
  BY DEF Now

\* No rule's loop is another's.
LEMMA ServesFacts ==
    ASSUME TypeOK, NEW e \in Sockets, NEW q \in Rules, NEW r \in Rules, Serves(q, e), Serves(r, e)
    PROVE  q = r
  BY DEF Serves

-----------------------------------------------------------------------------
(* Steps of calls *)

\* A step of call a, on rule r, whose record becomes k.  Either the call was
\* under way before, or it begins when the rule is quiet or becomes disturbed.
Step(a, r, k) ==
    /\ call' = [call EXCEPT ![a] = k]
    /\ call[a] # NoCall => call[a].rule = r
    /\ k # NoCall => k.rule = r
    /\ \A q \in Rules \ {r} : disturbed'[q] <=> disturbed[q]
    /\ ~disturbed'[r] => ~disturbed[r] /\ (call[a] # NoCall \/ Quiet(r))

LEMMA CallStep ==
    ASSUME TypeOK, OneCall, NEW a \in Calls, NEW r \in Rules, NEW k \in CallRecords, Step(a, r, k)
    PROVE  /\ call' \in [Calls -> CallRecords] /\ call'[a] = k
           /\ \A b \in Calls \ {a} : call'[b] = call[b]
           /\ OneCall'
           /\ \A q \in Rules \ {r} : \A w \in Now(q)' : w \in Now(q)
           /\ ~disturbed'[r] => /\ ~disturbed[r] /\ call[a] \in Now(r)
                           /\ \A w \in Now(r)' : w = k
<1>1. /\ call' \in [Calls -> CallRecords] /\ call'[a] = k
      /\ \A b \in Calls \ {a} : call'[b] = call[b]
  BY DEF Step, TypeOK
<1>2. /\ call[a] # NoCall => call[a].rule = r
      /\ k # NoCall => k.rule = r
      /\ \A q \in Rules \ {r} : disturbed'[q] <=> disturbed[q]
      /\ ~disturbed'[r] => ~disturbed[r] /\ (call[a] # NoCall \/ Quiet(r))
  BY DEF Step
<1>3. \A b \in Calls : call[b] \in CallRecords /\ call'[b] \in CallRecords
  BY <1>1 DEF TypeOK
<1>4. \A q \in Rules : /\ Quiet(q) <=> \A b \in Calls : call[b] # NoCall => call[b].rule # q
                       /\ Quiet(q)' <=> \A b \in Calls : call'[b] # NoCall => call'[b].rule # q
  BY <1>3, RecordFacts DEF Quiet
<1>5. ~disturbed'[r] => \A b \in Calls \ {a} : call[b] # NoCall => call[b].rule # r
  BY <1>2, <1>4 DEF OneCall
<1>6. OneCall'
  <2> SUFFICES ASSUME NEW b \in Calls, NEW d \in Calls, call'[b] # NoCall, call'[d] # NoCall,
                      call'[b].rule = call'[d].rule, ~disturbed'[call'[b].rule]
               PROVE  b = d
    BY DEF OneCall
  <2>1. CASE call'[b].rule = r
    BY <1>1, <1>5, <2>1
  <2>2. CASE call'[b].rule # r
    <3>1. b # a /\ d # a
      BY <1>1, <1>2, <2>2
    <3>2. call'[b] = call[b] /\ call'[d] = call[d] /\ call[b].rule \in Rules \ {r}
      BY <1>1, <1>3, <2>2, <3>1, RecordFacts
    <3>3. ~disturbed[call[b].rule]
      BY <1>2, <3>2
    <3>4. QED
      BY <3>2, <3>3 DEF OneCall
  <2>3. QED
    BY <2>1, <2>2
<1>7. ASSUME NEW q \in Rules \ {r}, NEW w \in Now(q)'  PROVE w \in Now(q)
  <2>1. \/ w = NoCall /\ Quiet(q)'
        \/ \E b \in Calls : w = call'[b] /\ w # NoCall /\ w.rule = q
    BY <1>7 DEF Now
  <2>2. CASE w = NoCall /\ Quiet(q)'
    <3>1. Quiet(q)
      BY <1>1, <1>2, <1>4, <2>2
    <3>2. QED
      BY <2>2, <3>1, NowFacts
  <2>3. CASE \E b \in Calls : w = call'[b] /\ w # NoCall /\ w.rule = q
    <3>1. PICK b \in Calls : w = call'[b] /\ w # NoCall /\ w.rule = q
      BY <2>3
    <3>2. b # a
      BY <1>1, <1>2, <3>1
    <3>3. QED
      BY <1>1, <3>1, <3>2, NowFacts
  <2>4. QED
    BY <2>1, <2>2, <2>3
<1>8. ASSUME ~disturbed'[r]
      PROVE  ~disturbed[r] /\ call[a] \in Now(r) /\ \A w \in Now(r)' : w = k
  <2>1. ~disturbed[r] /\ call[a] \in Now(r)
    BY <1>2, <1>8, NowFacts
  <2>2. ASSUME NEW w \in Now(r)'  PROVE w = k
    <3>1. \/ w = NoCall /\ Quiet(r)'
          \/ \E b \in Calls : w = call'[b] /\ w # NoCall /\ w.rule = r
      BY <2>2 DEF Now
    <3>2. CASE w = NoCall /\ Quiet(r)'
      BY <1>1, <1>2, <1>4, <3>2
    <3>3. CASE \E b \in Calls : w = call'[b] /\ w # NoCall /\ w.rule = r
      BY <1>1, <1>5, <1>8, <3>3
    <3>4. QED
      BY <3>1, <3>2, <3>3
  <2>3. QED
    BY <2>1, <2>2
<1>9. QED
  BY <1>1, <1>6, <1>7, <1>8

LEMMA ShapeStep ==
    ASSUME IInv, NEW a \in Calls, NEW r \in Rules, NEW k \in CallRecords, Step(a, r, k), Shape(k)
    PROVE  CallSound'
<1>1. call'[a] = k /\ \A b \in Calls \ {a} : call'[b] = call[b]
  BY CallStep DEF IInv
<1>2. QED
  BY <1>1 DEF IInv, CallSound

\* The tables after a step of call a: nothing is said of the other rules.
LEMMA RuleStep ==
    ASSUME IInv, NEW a \in Calls, NEW r \in Rules, NEW k \in CallRecords, Step(a, r, k),
           \A q \in Rules \ {r} :
               db'[q] = db[q] /\ runtime'[q] = runtime[q] /\ listeners'[q] = listeners[q],
           ~disturbed'[r] /\ Fits(call[a], db[r], runtime[r], listeners[r]) =>
               Fits(k, db'[r], runtime'[r], listeners'[r])
    PROVE  RuleSound'
<1> SUFFICES ASSUME NEW q \in Rules, ~disturbed'[q], NEW w \in Now(q)'
             PROVE  Fits(w, db'[q], runtime'[q], listeners'[q])
  BY DEF RuleSound
<1>1. CASE q = r
  <2>1. ~disturbed[r] /\ call[a] \in Now(r) /\ w = k
    BY <1>1, CallStep DEF IInv
  <2>2. QED
    BY <1>1, <2>1 DEF IInv, RuleSound
<1>2. CASE q # r
  <2>1. w \in Now(q) /\ ~disturbed[q]
    BY <1>2, CallStep DEF IInv, Step
  <2>2. QED
    BY <1>2, <2>1 DEF IInv, RuleSound
<1>3. QED
  BY <1>1, <1>2

\* A step that touches no socket and no handle.
LEMMA HandleStep ==
    ASSUME IInv, NEW a \in Calls, NEW r \in Rules, NEW k \in CallRecords, Step(a, r, k),
           UNCHANGED <<sock, listeners>>, Handle(call[a]) = None, Handle(k) = None
    PROVE  HandleSound' /\ LoopSound'
<1>1. /\ call'[a] = k /\ \A b \in Calls \ {a} : call'[b] = call[b]
      /\ \A q \in Rules \ {r} : \A w \in Now(q)' : w \in Now(q)
      /\ ~disturbed'[r] => /\ ~disturbed[r] /\ call[a] \in Now(r)
                      /\ \A w \in Now(r)' : w = k
  BY CallStep DEF IInv
<1>2. \A q, e : Serves(q, e)' <=> Serves(q, e)
  BY DEF Serves
<1>3. HandleSound'
  <2>1. \A q \in Rules : listeners[q] # None => Serves(q, listeners[q])
    BY DEF IInv, HandleSound
  <2>2. ASSUME NEW b \in Calls
        PROVE  Handle(call'[b]) # None =>
                   /\ Handle(call'[b]) \in Sockets /\ Serves(call'[b].rule, Handle(call'[b]))
                   /\ \A q \in Rules : listeners'[q] # Handle(call'[b])
                   /\ \A d \in Calls : Handle(call'[d]) = Handle(call'[b]) => d = b
    BY <1>1 DEF IInv, HandleSound
  <2>3. QED
    BY <2>1, <2>2 DEF HandleSound, Serves
<1>4. LoopSound'
  <2> SUFFICES ASSUME NEW q \in Rules, ~disturbed'[q], NEW w \in Now(q)', NEW e \in Sockets, Serves(q, e)
               PROVE  listeners[q] = e \/ Handle(w) = e
    BY <1>2 DEF LoopSound
  <2>1. CASE q = r
    BY <1>1, <2>1 DEF IInv, LoopSound
  <2>2. CASE q # r
    BY <1>1, <2>2 DEF IInv, LoopSound, Step
  <2>3. QED
    BY <2>1, <2>2
<1>5. QED
  BY <1>3, <1>4

\* Domains: what a step may do to rule r without giving it a domain that
\* another has.
LEMMA HeldStep ==
    ASSUME IInv, NEW a \in Calls, NEW r \in Rules, NEW k \in CallRecords, Step(a, r, k),
           \A q \in Rules \ {r} : db'[q] = db[q], shared \subseteq shared',
           \A d \in Domains :
               d \in Dom(db'[r]) \/ (k # NoCall /\ d \in Dom(k.was) \cup Dom(Written(k))) =>
                   Has(r, d) \/ d \in shared' \/ \A q \in Rules \ {r} : ~Has(q, d)
    PROVE  HeldSound'
<1>1. /\ call'[a] = k /\ \A b \in Calls \ {a} : call'[b] = call[b]
  BY CallStep DEF IInv
<1>2. ASSUME NEW q \in Rules \ {r}, NEW d \in Domains, Has(q, d)'  PROVE Has(q, d)
  BY <1>1, <1>2 DEF Has, Step
<1>3. ASSUME NEW d \in Domains, Has(r, d)'
      PROVE  Has(r, d) \/ d \in shared' \/ \A q \in Rules \ {r} : ~Has(q, d)
  <2>1. CASE d \in Dom(db'[r])
    BY <2>1
  <2>2. CASE \E b \in Calls : /\ call'[b] # NoCall /\ call'[b].rule = r
                              /\ d \in Dom(call'[b].was) \cup Dom(Written(call'[b]))
    <3>1. PICK b \in Calls : /\ call'[b] # NoCall /\ call'[b].rule = r
                             /\ d \in Dom(call'[b].was) \cup Dom(Written(call'[b]))
      BY <2>2
    <3>2. CASE b = a
      BY <1>1, <3>1, <3>2
    <3>3. CASE b # a
      BY <1>1, <3>1, <3>3 DEF Has
    <3>4. QED
      BY <3>2, <3>3
  <2>3. QED
    BY <1>3, <2>1, <2>2 DEF Has
<1> SUFFICES ASSUME NEW p \in Rules, NEW q \in Rules, NEW d \in Domains, p # q,
                    Has(p, d)', Has(q, d)'
             PROVE  d \in shared'
  BY DEF HeldSound
<1>4. CASE p = r
  BY <1>2, <1>3, <1>4 DEF IInv, HeldSound
<1>5. CASE q = r
  BY <1>2, <1>3, <1>5 DEF IInv, HeldSound
<1>6. CASE p # r /\ q # r
  BY <1>2, <1>6 DEF IInv, HeldSound
<1>7. QED
  BY <1>4, <1>5, <1>6

Served == {"idle", "update", "delete", "running"}

\* A step that touches no route.
LEMMA RouteStep ==
    ASSUME IInv, NEW a \in Calls, NEW r \in Rules, NEW k \in CallRecords, Step(a, r, k),
           UNCHANGED routes, shared \subseteq shared', \A q \in Rules \ {r} : db'[q] = db[q],
           ~disturbed'[r] => \A d \in Domains : routes[d] = r /\ d \in Dom(Routed(call[a], db[r])) =>
                            d \in Dom(Routed(k, db'[r])),
           ~disturbed'[r] /\ k.pc \in Served =>
               \A d \in Domains : d \in Dom(db'[r]) =>
                   (call[a].pc \in Served /\ d \in Dom(db[r])) \/ routes[d] = r \/ d \in shared'
    PROVE  RouteSound' /\ ReachSound'
<1>1. /\ \A q \in Rules \ {r} : \A w \in Now(q)' : w \in Now(q)
      /\ ~disturbed'[r] => /\ ~disturbed[r] /\ call[a] \in Now(r)
                      /\ \A w \in Now(r)' : w = k
      /\ \A q \in Rules \ {r} : disturbed'[q] <=> disturbed[q]
  BY CallStep DEF IInv, Step
<1>2. RouteSound'
  <2> SUFFICES ASSUME NEW q \in Rules, ~disturbed'[q], NEW w \in Now(q)', NEW d \in Domains, routes[d] = q
               PROVE  d \in Dom(Routed(w, db'[q]))
    BY DEF RouteSound
  <2>1. CASE q = r
    BY <1>1, <2>1 DEF IInv, RouteSound
  <2>2. CASE q # r
    BY <1>1, <2>2 DEF IInv, RouteSound
  <2>3. QED
    BY <2>1, <2>2
<1>3. ReachSound'
  <2> SUFFICES ASSUME NEW q \in Rules, ~disturbed'[q], NEW w \in Now(q)', NEW d \in Domains,
                      w.pc \in Served, d \in Dom(db'[q]), d \notin shared'
               PROVE  routes[d] = q
    BY DEF ReachSound, Served
  <2>1. CASE q = r
    BY <1>1, <2>1 DEF IInv, ReachSound, Served
  <2>2. CASE q # r
    BY <1>1, <2>2 DEF IInv, ReachSound, Served
  <2>3. QED
    BY <2>1, <2>2
<1>4. QED
  BY <1>2, <1>3

-----------------------------------------------------------------------------
(* The steps *)

\* A call begins: nothing but its record changes.
LEMMA BeginInv ==
    ASSUME IInv, NEW a \in Calls, NEW r \in Rules, NEW p \in {"insert", "update", "delete"},
           NEW was \in Endpoints \cup {None}, NEW new \in Endpoints \cup {None},
           Begin(a, r, p, was, new), UNCHANGED <<db, runtime, sock, listeners, routes, shared>>,
           p = "insert" => runtime[r] = None /\ was = None,
           p # "insert" => was = db[r] /\ was # None,
           p \in {"insert", "update"} => new # None,
           p = "delete" => new = None
    PROVE  IInv'
<1> DEFINE k == [pc |-> p, rule |-> r, was |-> was, new |-> new]
<1>a. /\ k \in CallRecords /\ k # NoCall /\ k.pc = p /\ k.rule = r /\ k.was = was /\ k.new = new
      /\ Handle(k) = None
  BY DEF CallRecords, NoCall, Handle
<1>b. call' = [call EXCEPT ![a] = k] /\ call[a] = NoCall
  BY DEF Begin
<1> HIDE DEF k
<1>c. disturbed' \in [Rules -> BOOLEAN] /\ (disturbed'[r] <=> disturbed[r] \/ ~Quiet(r))
  <2>1. disturbed \in [Rules -> BOOLEAN] /\ disturbed' = [disturbed EXCEPT ![r] = disturbed[r] \/ ~Quiet(r)]
    BY DEF Begin, IInv, TypeOK
  <2>2. (disturbed[r] \/ ~Quiet(r)) \in BOOLEAN
    BY Zenon
  <2>3. QED
    BY <2>1, <2>2, Zenon
<1>d. \A q \in Rules \ {r} : disturbed'[q] = disturbed[q]
  BY DEF Begin, IInv, TypeOK
<1>e. Step(a, r, k)
  BY <1>a, <1>b, <1>c, <1>d DEF Step
<1>f. Fits(call[a], db[r], runtime[r], listeners[r]) => Rest(db[r], runtime[r], listeners[r])
  BY <1>b, RecordFacts DEF Fits
<1>1. TypeOK' /\ OneCall' /\ CallSound'
  <2>1. Shape(k)
    BY <1>a DEF Shape
  <2>2. TypeOK' /\ OneCall'
    BY <1>a, <1>c, <1>e, CallStep DEF IInv, TypeOK
  <2>3. QED
    BY <1>a, <1>e, <2>1, <2>2, ShapeStep
<1>2. RuleSound'
  <2>1. ASSUME Rest(db[r], runtime[r], listeners[r])
        PROVE  Fits(k, db[r], runtime[r], listeners[r])
    BY <1>a, <2>1, EndpointFacts DEF Rest, Fits, Own
  <2>2. QED
    BY <1>a, <1>e, <1>f, <2>1, RuleStep
<1>3. HandleSound' /\ LoopSound'
  BY <1>a, <1>b, <1>e, HandleStep, RecordFacts
<1>4. HeldSound'
  <2>1. \A d \in Domains : d \in Dom(was) => d \in Dom(db[r])
    BY EndpointFacts
  <2>2. \A d \in Domains : d \in Dom(Written(k)) => FALSE
    BY <1>a, EndpointFacts DEF Written
  <2>3. \A d \in Domains : d \in Dom(db[r]) => Has(r, d)
    BY DEF Has
  <2>4. QED
    BY <1>a, <1>e, <2>1, <2>2, <2>3, HeldStep
<1>5. RouteSound' /\ ReachSound'
  <2>1. call[a].pc = "idle"
    BY <1>b, RecordFacts
  <2>2. p = "insert" /\ ~disturbed'[r] => db[r] = None
    <3>1. ASSUME ~disturbed'[r]  PROVE Rest(db[r], runtime[r], listeners[r])
      BY <1>a, <1>e, <1>f, <3>1, CallStep DEF IInv, RuleSound
    <3>2. QED
      BY <3>1 DEF Rest
  <2>3. ~disturbed'[r] => \A d \in Domains : d \in Dom(Routed(call[a], db[r])) => d \in Dom(Routed(k, db[r]))
    BY <1>a, <2>1, <2>2, EndpointFacts DEF Routed
  <2>4. QED
    BY <1>a, <1>e, <2>1, <2>3, RouteStep DEF Served
<1>6. QED
  BY <1>1, <1>2, <1>3, <1>4, <1>5 DEF IInv

\* What is already a rule's is in DomainsOf.
LEMMA HasDomains ==
    ASSUME TypeOK, NEW q \in Rules, NEW d \in Domains, Has(q, d)
    PROVE  d \in DomainsOf(q)
<1>1. CASE d \in Dom(db[q])
  BY <1>1 DEF Dom, DomainsOf
<1>2. CASE \E a \in Calls : /\ call[a] # NoCall /\ call[a].rule = q
                            /\ d \in Dom(call[a].was) \cup Dom(Written(call[a]))
  BY <1>2 DEF Written, Dom, DomainsOf
<1>3. QED
  BY <1>1, <1>2 DEF Has

\* A call writes its new endpoint into the database, or deletes the row.
LEMMA WriteInv ==
    ASSUME IInv, NEW a \in Calls, NEW p \in {"insert_runtime", "stop", "remove_runtime"},
           call[a] # NoCall, call' = [call EXCEPT ![a].pc = p],
           Write(call[a].rule, call[a].new), UNCHANGED <<runtime, sock, listeners, routes, disturbed>>,
           p = "insert_runtime" => call[a].pc = "insert",
           p = "stop" => call[a].pc = "update",
           p = "remove_runtime" => call[a].pc = "delete"
    PROVE  IInv'
<1> DEFINE r == call[a].rule
           e == call[a].new
           k == [call[a] EXCEPT !.pc = p]
<1>a. /\ call[a] \in CallRecords /\ r \in Rules /\ e \in Endpoints \cup {None} /\ p \in PCs
      /\ call[a].was \in Endpoints \cup {None}
  BY StateFacts, RecordFacts DEF IInv, PCs
<1>b. /\ k \in CallRecords /\ k # NoCall /\ k.pc = p /\ k.rule = r /\ k.was = call[a].was /\ k.new = e
  BY <1>a, NewPc
<1>c. call' = [call EXCEPT ![a] = k]
  OBVIOUS
<1> HIDE DEF k
<1>d. Step(a, r, k)
  BY <1>b, <1>c DEF Step
<1>e. db'[r] = e /\ \A q \in Rules \ {r} : db'[q] = db[q]
  BY <1>a DEF Write, IInv, TypeOK
<1>f. db' \in [Rules -> Endpoints \cup {None}]
  BY <1>a DEF Write, IInv, TypeOK
<1>g. /\ shared \subseteq shared' /\ shared' \subseteq Domains
      /\ \A d \in Domains : d \in Dom(e) /\ d \notin shared' => \A q \in Rules \ {r} : ~Has(q, d)
  <2> DEFINE others == UNION {DomainsOf(q) : q \in Rules \ {r}}
  <2>1. \A q \in Rules \ {r}, d \in Domains : Has(q, d) => d \in others
    BY HasDomains DEF IInv
  <2>2. shared' = shared \cup IF e = None THEN {} ELSE e.domains \cap others
    BY DEF Write
  <2> HIDE DEF others
  <2>3. shared' = shared \cup (Dom(e) \cap others)
    BY <2>2 DEF Dom
  <2>4. QED
    BY <1>a, <2>1, <2>3, EndpointFacts DEF IInv, TypeOK
<1>h. Handle(call[a]) = None /\ Handle(k) = None
  BY <1>b DEF Handle
<1>i. Shape(k) /\ (p # "remove_runtime" => e # None) /\ (p = "remove_runtime" => e = None)
  BY <1>a, <1>b DEF IInv, CallSound, Shape
<1>1. TypeOK' /\ OneCall' /\ CallSound'
  <2>1. call' \in [Calls -> CallRecords] /\ OneCall'
    BY <1>a, <1>b, <1>d, CallStep DEF IInv
  <2>2. CallSound'
    BY <1>a, <1>b, <1>d, <1>i, ShapeStep
  <2>3. QED
    BY <1>f, <1>g, <2>1, <2>2 DEF IInv, TypeOK
<1>2. RuleSound'
  <2>1. ASSUME Fits(call[a], db[r], runtime[r], listeners[r])
        PROVE  Fits(k, e, runtime[r], listeners[r])
    <3>1. CASE p = "insert_runtime"
      BY <1>b, <1>i, <2>1, <3>1 DEF Fits
    <3>2. CASE p = "stop"
      BY <1>b, <1>i, <2>1, <3>2 DEF Fits, Rest
    <3>3. CASE p = "remove_runtime"
      BY <1>b, <1>i, <2>1, <3>3 DEF Fits, Rest
    <3>4. QED
      BY <3>1, <3>2, <3>3
  <2>2. QED
    BY <1>a, <1>b, <1>d, <1>e, <2>1, RuleStep
<1>3. HandleSound' /\ LoopSound'
  BY <1>a, <1>b, <1>d, <1>h, HandleStep
<1>4. HeldSound'
  <2>1. \A d \in Domains : d \in Dom(k.was) => Has(r, d)
    BY <1>b DEF Has
  <2>2. Dom(Written(k)) = Dom(e)
    BY <1>b DEF Written
  <2>3. QED
    BY <1>a, <1>b, <1>d, <1>e, <1>g, <2>1, <2>2, HeldStep
<1>5. RouteSound' /\ ReachSound'
  <2>1. ASSUME ~disturbed[r]  PROVE Fits(call[a], db[r], runtime[r], listeners[r])
    BY <1>a, <1>b, <1>d, <2>1, CallStep DEF IInv, RuleSound
  <2>2. ASSUME ~disturbed[r], NEW d \in Domains, d \in Dom(Routed(call[a], db[r]))
        PROVE  d \in Dom(Routed(k, e))
    <3>1. CASE p = "insert_runtime"
      BY <2>1, <2>2, <3>1, EndpointFacts DEF Fits, Routed
    <3>2. CASE p # "insert_runtime"
      <4>1. db[r] = call[a].was /\ call[a].pc \in {"update", "delete"}
        BY <2>1, <2>2, <3>2 DEF Fits
      <4>2. Routed(k, e) = call[a].was /\ Routed(call[a], db[r]) = db[r]
        BY <1>b, <3>2, <4>1 DEF Routed
      <4>3. QED
        BY <2>2, <4>1, <4>2
    <3>3. QED
      BY <3>1, <3>2
  <2>3. k.pc \notin Served
    BY <1>b DEF Served
  <2>4. QED
    BY <1>a, <1>b, <1>d, <1>e, <1>g, <2>2, <2>3, RouteStep
<1>6. QED
  BY <1>1, <1>2, <1>3, <1>4, <1>5 DEF IInv

\* A step of a call that changes its rule's status at most, and neither the
\* database nor sockets nor routes.
LEMMA StatusInv ==
    ASSUME IInv, NEW a \in Calls, NEW r \in Rules, NEW k \in CallRecords, Step(a, r, k),
           call[a] # NoCall, UNCHANGED <<db, sock, listeners, routes, disturbed, shared>>,
           NEW s \in Statuses \cup {None}, runtime' = [runtime EXCEPT ![r] = s],
           Shape(k), Handle(call[a]) = None, Handle(k) = None,
           k # NoCall => Dom(k.was) \cup Dom(Written(k)) \subseteq
                             Dom(call[a].was) \cup Dom(Written(call[a])),
           ~disturbed[r] /\ Fits(call[a], db[r], runtime[r], listeners[r]) =>
               /\ Fits(k, db[r], s, listeners[r])
               /\ Dom(Routed(call[a], db[r])) \subseteq Dom(Routed(k, db[r]))
               /\ k.pc \in Served => call[a].pc \in Served \/ Dom(db[r]) = {}
    PROVE  IInv'
<1>a. runtime'[r] = s /\ \A q \in Rules \ {r} : runtime'[q] = runtime[q]
  BY DEF IInv, TypeOK
<1>b. ~disturbed[r] => Fits(call[a], db[r], runtime[r], listeners[r])
  BY CallStep DEF IInv, RuleSound
<1>c. call[a].rule = r
  BY DEF Step
<1>1. TypeOK' /\ OneCall' /\ CallSound'
  <2>1. runtime' \in [Rules -> Statuses \cup {None}]
    BY DEF IInv, TypeOK
  <2>2. QED
    BY <2>1, CallStep, ShapeStep DEF IInv, TypeOK
<1>2. RuleSound'
  BY <1>a, RuleStep
<1>3. HandleSound' /\ LoopSound'
  BY HandleStep
<1>4. HeldSound'
  <2>1. \A d \in Domains : d \in Dom(db[r]) \/ d \in Dom(call[a].was) \cup Dom(Written(call[a])) =>
            Has(r, d)
    BY <1>c DEF Has
  <2>2. QED
    BY <2>1, HeldStep
<1>5. RouteSound' /\ ReachSound'
  BY <1>b, RouteStep
<1>6. QED
  BY <1>1, <1>2, <1>3, <1>4, <1>5 DEF IInv

\* A call ends because its write failed: its rule is left as it was.
LEMMA GiveUpInv ==
    ASSUME IInv, NEW a \in Calls, call[a].pc \in {"insert", "update", "delete"}, End(a),
           UNCHANGED <<db, runtime, sock, listeners, routes, disturbed, shared>>
    PROVE  IInv'
<1> DEFINE r == call[a].rule
<1>1. /\ call[a] \in CallRecords /\ call[a] # NoCall /\ r \in Rules /\ NoCall \in CallRecords
      /\ NoCall.pc = "idle"
  BY StateFacts, RecordFacts DEF IInv
<1>2. Step(a, r, NoCall)
  BY <1>1 DEF Step, End
<1>3. Handle(call[a]) = None /\ Handle(NoCall) = None /\ Shape(NoCall)
  BY <1>1, RecordFacts DEF Handle, Shape
<1>4. runtime' = [runtime EXCEPT ![r] = runtime[r]] /\ runtime[r] \in Statuses \cup {None}
  BY <1>1 DEF IInv, TypeOK
<1>5. ASSUME Fits(call[a], db[r], runtime[r], listeners[r])
      PROVE  /\ Fits(NoCall, db[r], runtime[r], listeners[r])
             /\ Dom(Routed(call[a], db[r])) \subseteq Dom(Routed(NoCall, db[r]))
             /\ call[a].pc \in Served \/ Dom(db[r]) = {}
  <2>1. CASE call[a].pc = "insert"
    <3>1. db[r] = None /\ runtime[r] = None /\ listeners[r] = None
      BY <1>5, <2>1 DEF Fits
    <3>2. None \notin Sockets \cup NoPort
      BY EndpointFacts DEF Endpoints
    <3>3. Rest(db[r], runtime[r], listeners[r])
      BY <3>1, <3>2 DEF Rest, Own
    <3>4. QED
      BY <1>1, <2>1, <3>1, <3>3, EndpointFacts DEF Fits, Routed
  <2>2. CASE call[a].pc \in {"update", "delete"}
    <3>1. Rest(db[r], runtime[r], listeners[r])
      BY <1>5, <2>2 DEF Fits
    <3>2. QED
      BY <1>1, <2>2, <3>1 DEF Fits, Routed, Served
  <2>3. QED
    BY <2>1, <2>2
<1>6. QED
  BY <1>1, <1>2, <1>3, <1>4, <1>5, StatusInv

LEMMA RowInv ==
    ASSUME IInv, NEW a \in Calls, InsertRow(a) \/ UpdateRow(a) \/ DeleteRow(a)
    PROVE  IInv'
<1>1. call[a] # NoCall /\ UNCHANGED <<runtime, sock, listeners, routes, disturbed>>
  BY StateFacts, RecordFacts DEF IInv, InsertRow, UpdateRow, DeleteRow
<1>2. CASE InsertRow(a)
  <2>1. CASE Write(call[a].rule, call[a].new) /\ Goto(a, "insert_runtime")
    BY <1>1, <1>2, <2>1, WriteInv DEF InsertRow, Goto
  <2>2. CASE End(a) /\ UNCHANGED <<db, shared>>
    BY <1>1, <1>2, <2>2, GiveUpInv DEF InsertRow
  <2>3. QED
    BY <1>2, <2>1, <2>2 DEF InsertRow
<1>3. CASE UpdateRow(a)
  <2>1. CASE Write(call[a].rule, call[a].new) /\ Goto(a, "stop")
    BY <1>1, <1>3, <2>1, WriteInv DEF UpdateRow, Goto
  <2>2. CASE End(a) /\ UNCHANGED <<db, shared>>
    BY <1>1, <1>3, <2>2, GiveUpInv DEF UpdateRow
  <2>3. QED
    BY <1>3, <2>1, <2>2 DEF UpdateRow
<1>4. CASE DeleteRow(a)
  <2>1. call[a].new = None /\ call[a].pc = "delete"
    BY <1>4 DEF DeleteRow, IInv, CallSound, Shape
  <2>2. CASE Write(call[a].rule, None) /\ Goto(a, "remove_runtime")
    BY <1>1, <2>1, <2>2, WriteInv DEF Goto
  <2>3. CASE End(a) /\ UNCHANGED <<db, shared>>
    BY <1>1, <2>1, <2>3, GiveUpInv
  <2>4. QED
    BY <1>4, <2>2, <2>3 DEF DeleteRow
<1>5. QED
  BY <1>2, <1>3, <1>4

\* The record of a call under way, and what a new record needs for Step.
LEMMA UnderWay ==
    ASSUME IInv, NEW a \in Calls, call[a].pc # "idle"
    PROVE  /\ call[a] \in CallRecords /\ call[a] # NoCall /\ call[a].rule \in Rules
           /\ call[a].pc \in PCs
           /\ call[a].was \in Endpoints \cup {None} /\ call[a].new \in Endpoints \cup {None}
           /\ \A k \in CallRecords :
                 /\ call' = [call EXCEPT ![a] = k] /\ disturbed' = disturbed
                 /\ (k # NoCall => k.rule = call[a].rule)
                 => Step(a, call[a].rule, k)
           /\ ~disturbed[call[a].rule] =>
                 Fits(call[a], db[call[a].rule], runtime[call[a].rule], listeners[call[a].rule])
<1>1. /\ call[a] \in CallRecords /\ call[a] # NoCall /\ call[a].rule \in Rules /\ call[a].pc \in PCs
      /\ call[a].was \in Endpoints \cup {None} /\ call[a].new \in Endpoints \cup {None}
  BY StateFacts, RecordFacts DEF IInv
<1>2. \A k \in CallRecords :
         /\ call' = [call EXCEPT ![a] = k] /\ disturbed' = disturbed
         /\ (k # NoCall => k.rule = call[a].rule)
         => Step(a, call[a].rule, k)
  BY <1>1 DEF Step
<1>3. call[a] \in Now(call[a].rule)
  BY <1>1, NowFacts DEF IInv
<1>4. QED
  BY <1>1, <1>2, <1>3 DEF IInv, RuleSound

\* update_status for rule r.
LEMMA StatusFacts ==
    ASSUME TypeOK, NEW r \in Rules, NEW s \in Statuses, Status(r, s)
    PROVE  \E t \in {s, None} : /\ t = None <=> runtime[r] = None
                                /\ runtime' = [runtime EXCEPT ![r] = t]
  BY NoneAssumption DEF Status, TypeOK

LEMMA RuntimeInv ==
    ASSUME IInv, NEW a \in Calls, InsertRuntime(a) \/ RemoveRuntime(a)
    PROVE  IInv'
<1> DEFINE r == call[a].rule
<1>a. PICK p \in PCs, s \in Statuses \cup {None} :
         /\ \/ call[a].pc = "insert_runtime" /\ p = "start" /\ s = "starting"
            \/ call[a].pc = "remove_runtime" /\ p = "stop" /\ s = None
         /\ call' = [call EXCEPT ![a].pc = p] /\ runtime' = [runtime EXCEPT ![r] = s]
  BY DEF InsertRuntime, RemoveRuntime, Goto, PCs, Statuses
<1> DEFINE k == [call[a] EXCEPT !.pc = p]
<1>b. call[a].pc # "idle" /\ UNCHANGED <<db, sock, listeners, routes, disturbed, shared>>
  BY <1>a DEF InsertRuntime, RemoveRuntime
<1>c. /\ k \in CallRecords /\ k # NoCall /\ k.pc = p /\ k.rule = r
      /\ k.was = call[a].was /\ k.new = call[a].new
  <2>1. call[a] \in CallRecords /\ call[a] # NoCall
    BY <1>b, UnderWay
  <2>2. QED
    BY <2>1, NewPc
<1>d. call' = [call EXCEPT ![a] = k]
  BY <1>a
<1> HIDE DEF k
<1>e. Step(a, r, k) /\ call[a] # NoCall /\ r \in Rules
  BY <1>b, <1>c, <1>d, UnderWay
<1>f. Handle(call[a]) = None /\ Handle(k) = None /\ Written(k) = call[a].new
      /\ Written(call[a]) = call[a].new
  BY <1>a, <1>c DEF Handle, Written
<1>g. Shape(k)
  BY <1>a, <1>c DEF IInv, CallSound, Shape
<1>h. None \notin Statuses /\ "starting" \in Statuses
  BY NoneAssumption DEF Statuses
<1>i. ASSUME Fits(call[a], db[r], runtime[r], listeners[r])
      PROVE  /\ Fits(k, db[r], s, listeners[r])
             /\ Dom(Routed(call[a], db[r])) \subseteq Dom(Routed(k, db[r]))
  <2>1. Fits(k, db[r], s, listeners[r])
    BY <1>a, <1>c, <1>h, <1>i DEF Fits
  <2>2. Dom(Routed(call[a], db[r])) \subseteq Dom(Routed(k, db[r]))
    BY <1>a, <1>c DEF Routed
  <2>3. QED
    BY <2>1, <2>2
<1>j. k.pc \notin Served
  BY <1>a, <1>c DEF Served
<1>1. QED
  BY <1>a, <1>b, <1>c, <1>e, <1>f, <1>g, <1>i, <1>j, StatusInv

\* Running or Error, and the call ends.
LEMMA FinishStartInv ==
    ASSUME IInv, NEW a \in Calls, FinishStart(a)
    PROVE  IInv'
<1> DEFINE r == call[a].rule
<1>a. /\ call[a].pc \in {"running", "error"} /\ call[a].pc # "idle"
      /\ call' = [call EXCEPT ![a] = NoCall]
      /\ Status(r, call[a].pc) /\ UNCHANGED <<db, sock, listeners, routes, disturbed, shared>>
  BY DEF FinishStart, End
<1>b. Step(a, r, NoCall) /\ call[a] # NoCall /\ r \in Rules /\ NoCall \in CallRecords
  BY <1>a, UnderWay, RecordFacts
<1>c. call[a].pc \in Statuses /\ None \notin Statuses
  BY <1>a, NoneAssumption DEF Statuses
<1>d. PICK s \in {call[a].pc, None} : /\ s = None <=> runtime[r] = None
                                      /\ runtime' = [runtime EXCEPT ![r] = s]
  BY <1>a, <1>b, <1>c, StatusFacts DEF IInv
<1>e. Handle(call[a]) = None /\ Handle(NoCall) = None /\ NoCall.pc = "idle" /\ Shape(NoCall)
  BY <1>a, RecordFacts DEF Handle, Shape
<1>f. ASSUME Fits(call[a], db[r], runtime[r], listeners[r])
      PROVE  /\ Fits(NoCall, db[r], s, listeners[r])
             /\ Dom(Routed(call[a], db[r])) \subseteq Dom(Routed(NoCall, db[r]))
             /\ call[a].pc \in Served \/ Dom(db[r]) = {}
  <2>1. s = call[a].pc /\ db[r] # None /\ Own(listeners[r], db[r])
    BY <1>a, <1>d, <1>f DEF Fits, Own
  <2>2. db[r] \notin ByDomain => (s = "running" <=> listeners[r] # None)
    BY <1>a, <1>f, <2>1 DEF Fits
  <2>3. Fits(NoCall, db[r], s, listeners[r])
    BY <1>a, <1>c, <1>e, <2>1, <2>2, EndpointFacts DEF Fits, Rest
  <2>4. Dom(Routed(call[a], db[r])) \subseteq Dom(Routed(NoCall, db[r]))
    BY <1>a, <1>e, EndpointFacts DEF Routed
  <2>5. call[a].pc = "error" => Dom(db[r]) = {}
    BY <1>b, <1>f, <2>1, EndpointFacts, StateFacts DEF Fits, IInv
  <2>6. QED
    BY <1>a, <2>3, <2>4, <2>5 DEF Served
<1>1. QED
  BY <1>a, <1>b, <1>c, <1>d, <1>e, <1>f, StatusInv

\* Stopped: the call ends, or goes on to start the listener.
LEMMA FinishStopInv ==
    ASSUME IInv, NEW a \in Calls, FinishStop(a)
    PROVE  IInv'
<1> DEFINE r == call[a].rule
           w == [call[a] EXCEPT !.pc = "start", !.was = None]
           k == IF call[a].new = None THEN NoCall ELSE w
<1>a. /\ call[a].pc = "stopped" /\ call[a].pc # "idle" /\ Status(r, "stopped")
      /\ UNCHANGED <<db, sock, listeners, routes, disturbed, shared>>
  BY DEF FinishStop
<1>b. call' = [call EXCEPT ![a] = k]
  BY DEF FinishStop, End
<1>c. /\ w \in CallRecords /\ w # NoCall /\ w.pc = "start" /\ w.rule = r
      /\ w.was = None /\ w.new = call[a].new
  <2>1. call[a] \in CallRecords /\ call[a] # NoCall
    BY <1>a, UnderWay
  <2>2. QED
    BY <2>1 DEF CallRecords, NoCall
<1> HIDE DEF w
<1>d. /\ k \in CallRecords /\ (k # NoCall => k.rule = r) /\ Handle(k) = None /\ Shape(k)
      /\ (call[a].new = None => k = NoCall /\ k.pc = "idle")
      /\ (call[a].new # None => k = w /\ k.pc = "start")
  BY <1>c, RecordFacts DEF Handle, Shape
<1> HIDE DEF k
<1>e. Step(a, r, k) /\ call[a] # NoCall /\ r \in Rules /\ Handle(call[a]) = None
  BY <1>a, <1>b, <1>d, UnderWay DEF Handle
<1>f. "stopped" \in Statuses /\ None \notin Statuses
  BY NoneAssumption DEF Statuses
<1>g. PICK s \in {"stopped", None} : /\ s = None <=> runtime[r] = None
                                     /\ runtime' = [runtime EXCEPT ![r] = s]
  BY <1>a, <1>e, <1>f, StatusFacts DEF IInv
<1>h. k # NoCall => Dom(k.was) \cup Dom(Written(k)) \subseteq
                        Dom(call[a].was) \cup Dom(Written(call[a]))
  BY <1>a, <1>c, <1>d, EndpointFacts DEF Written
<1>i. ASSUME Fits(call[a], db[r], runtime[r], listeners[r])
      PROVE  /\ Fits(k, db[r], s, listeners[r])
             /\ Dom(Routed(call[a], db[r])) \subseteq Dom(Routed(k, db[r]))
             /\ k.pc \in Served => Dom(db[r]) = {}
  <2>1. /\ db[r] = call[a].new /\ listeners[r] = None
        /\ s = None <=> db[r] = None
    BY <1>a, <1>g, <1>i DEF Fits
  <2>2. Routed(call[a], db[r]) = None
    BY <1>a DEF Routed
  <2>3. CASE call[a].new = None
    <3>1. Fits(k, db[r], s, listeners[r])
      BY <1>d, <2>1, <2>3, EndpointFacts DEF Fits, Rest, Own, Endpoints
    <3>2. QED
      BY <2>1, <2>2, <2>3, <3>1, EndpointFacts
  <2>4. CASE call[a].new # None
    <3>1. Fits(k, db[r], s, listeners[r])
      BY <1>c, <1>d, <2>1, <2>4 DEF Fits
    <3>2. QED
      BY <1>d, <2>2, <2>4, <3>1, EndpointFacts DEF Served
  <2>5. QED
    BY <2>3, <2>4
<1>1. QED
  BY <1>a, <1>d, <1>e, <1>f, <1>g, <1>h, <1>i, StatusInv

\* on_proxy_create: the socket is bound.
LEMMA BindPortInv ==
    ASSUME IInv, NEW a \in Calls, Start(a), BindPort(a)
    PROVE  IInv'
<1> DEFINE r == call[a].rule
           e == call[a].new
           k == [call[a] EXCEPT !.pc = "insert_handle"]
           u == [rule |-> r, loop |-> TRUE, held |-> FALSE]
<1>a. /\ call[a].pc = "start" /\ call[a].pc # "idle" /\ e \in Sockets /\ sock[e] = None
      /\ Status(r, "starting") /\ sock' = [sock EXCEPT ![e] = u]
      /\ call' = [call EXCEPT ![a].pc = "insert_handle"]
      /\ UNCHANGED <<db, listeners, routes, disturbed, shared>>
  BY DEF Start, BindPort, Goto
<1>b. /\ k \in CallRecords /\ k # NoCall /\ k.pc = "insert_handle" /\ k.rule = r
      /\ k.was = call[a].was /\ k.new = e
  <2>1. call[a] \in CallRecords /\ call[a] # NoCall /\ "insert_handle" \in PCs
    BY <1>a, UnderWay DEF PCs
  <2>2. QED
    BY <2>1 DEF CallRecords, NoCall
<1>c. call' = [call EXCEPT ![a] = k]
  BY <1>a
<1> HIDE DEF k
<1>d. Step(a, r, k) /\ call[a] # NoCall /\ r \in Rules
  BY <1>a, <1>b, <1>c, UnderWay
<1>e. /\ u \in Uses /\ u # None /\ u.rule = r /\ u.loop
  <2>1. u \in Uses
    BY <1>d, Zenon DEF Uses
  <2>2. QED
    BY <2>1, NoneAssumption
<1> HIDE DEF u
<1>f. sock' \in [Sockets -> Uses \cup {None}] /\ sock'[e] = u /\ \A x \in Sockets \ {e} : sock'[x] = sock[x]
  BY <1>a, <1>e DEF IInv, TypeOK
<1>g. \A q \in Rules, x \in Sockets : Serves(q, x)' <=> (Serves(q, x) \/ (x = e /\ q = r))
  BY <1>a, <1>e, <1>f DEF Serves
<1>h. ~Serves(r, e) /\ \A q \in Rules : ~Serves(q, e)
  BY <1>a DEF Serves
<1>i. Handle(call[a]) = None /\ Handle(k) = e /\ e # None
  BY <1>a, <1>b, EndpointFacts DEF Handle
<1>j. PICK s \in {"starting", None} : /\ s = None <=> runtime[r] = None
                                      /\ runtime' = [runtime EXCEPT ![r] = s]
  BY <1>a, <1>d, StatusFacts DEF IInv, Statuses
<1>k. /\ call'[a] = k /\ \A b \in Calls \ {a} : call'[b] = call[b]
      /\ call' \in [Calls -> CallRecords] /\ OneCall'
      /\ \A q \in Rules \ {r} : \A w \in Now(q)' : w \in Now(q)
      /\ ~disturbed'[r] => /\ ~disturbed[r] /\ call[a] \in Now(r)
                      /\ \A w \in Now(r)' : w = k
  BY <1>b, <1>d, CallStep DEF IInv
<1>l. \A b \in Calls : call[b] \in CallRecords
  BY StateFacts DEF IInv
<1>m. \A b \in Calls \ {a} : Handle(call[b]) # None =>
          Handle(call[b]) \in Sockets /\ Handle(call[b]) # e /\ call[b].rule \in Rules
  <2> SUFFICES ASSUME NEW b \in Calls \ {a}, Handle(call[b]) # None
               PROVE  Handle(call[b]) \in Sockets /\ Handle(call[b]) # e /\ call[b].rule \in Rules
    OBVIOUS
  <2>1. call[b].rule \in Rules
    BY <1>l, RecordFacts
  <2>2. QED
    BY <1>h, <2>1 DEF IInv, HandleSound
<1>1. TypeOK' /\ OneCall' /\ CallSound'
  <2>1. runtime' \in [Rules -> Statuses \cup {None}]
    BY <1>j DEF IInv, TypeOK, Statuses
  <2>2. Shape(k)
    BY <1>b, <1>i DEF Shape
  <2>3. QED
    BY <1>a, <1>b, <1>d, <1>f, <1>k, <2>1, <2>2, ShapeStep DEF IInv, TypeOK
<1>2. RuleSound'
  <2>1. runtime'[r] = s /\ \A q \in Rules \ {r} : runtime'[q] = runtime[q]
    BY <1>d, <1>j DEF IInv, TypeOK
  <2>2. ASSUME Fits(call[a], db[r], runtime[r], listeners[r])
        PROVE  Fits(k, db[r], s, listeners[r])
    BY <1>a, <1>b, <1>j, <2>2 DEF Fits
  <2>3. QED
    BY <1>a, <1>b, <1>d, <2>1, <2>2, RuleStep
<1>3. HandleSound'
  <2>1. ASSUME NEW q \in Rules, listeners'[q] # None  PROVE Serves(q, listeners[q])'
    <3>1. listeners[q] \in Sockets /\ Serves(q, listeners[q])
      BY <1>a, <2>1, StateFacts DEF IInv, HandleSound
    <3>2. QED
      BY <1>a, <1>g, <3>1
  <2>2. ASSUME NEW b \in Calls, Handle(call'[b]) # None
        PROVE  /\ Handle(call'[b]) \in Sockets /\ Serves(call[b].rule, Handle(call[b]))'
               /\ \A q \in Rules : listeners'[q] # Handle(call'[b])
               /\ \A d \in Calls : Handle(call'[d]) = Handle(call'[b]) => d = b
    <3>1. CASE b = a
      <4>1. \A q \in Rules : listeners[q] # e
        BY <1>h, <1>i DEF IInv, HandleSound
      <4>2. Serves(r, e)'
        BY <1>d, <1>a, <1>g
      <4>3. Serves(call[b].rule, Handle(call[b]))'
        BY <1>b, <1>i, <1>k, <3>1, <4>2 DEF Serves
      <4>4. QED
        BY <1>a, <1>i, <1>k, <1>m, <3>1, <4>1, <4>3
    <3>2. CASE b # a
      <4>1. call'[b] = call[b]
        BY <1>k, <3>2
      <4>2. /\ Handle(call[b]) \in Sockets /\ Serves(call[b].rule, Handle(call[b]))
            /\ \A q \in Rules : listeners[q] # Handle(call[b])
            /\ \A d \in Calls : Handle(call[d]) = Handle(call[b]) => d = b
        BY <2>2, <4>1 DEF IInv, HandleSound
      <4>3. Handle(call[b]) # e /\ call[b].rule \in Rules
        BY <1>m, <2>2, <3>2, <4>1
      <4>4. Serves(call[b].rule, Handle(call[b]))'
        BY <1>f, <4>1, <4>2, <4>3 DEF Serves
      <4>5. QED
        BY <1>a, <1>i, <1>k, <4>1, <4>2, <4>3, <4>4
    <3>3. QED
      BY <3>1, <3>2
  <2>3. QED
    BY <2>1, <2>2 DEF HandleSound
<1>4. LoopSound'
  <2> SUFFICES ASSUME NEW q \in Rules, ~disturbed'[q], NEW w \in Now(q)', NEW x \in Sockets, Serves(q, x)'
               PROVE  listeners[q] = x \/ Handle(w) = x
    BY <1>a DEF LoopSound
  <2>1. CASE q = r
    BY <1>a, <1>d, <1>g, <1>i, <1>k, <2>1, EndpointFacts DEF IInv, LoopSound
  <2>2. CASE q # r
    BY <1>a, <1>d, <1>g, <1>k, <2>2 DEF IInv, LoopSound
  <2>3. QED
    BY <2>1, <2>2
<1>5. HeldSound' /\ RouteSound' /\ ReachSound'
  <2>1. Dom(k.was) \cup Dom(Written(k)) = Dom(call[a].was) \cup Dom(Written(call[a]))
    BY <1>a, <1>b DEF Written
  <2>2. \A d \in Domains : d \in Dom(db[r]) \/ d \in Dom(call[a].was) \cup Dom(Written(call[a])) =>
            Has(r, d)
    BY <1>d DEF Has
  <2>3. HeldSound'
    BY <1>a, <1>b, <1>d, <2>1, <2>2, HeldStep
  <2>4. Routed(call[a], db[r]) = None /\ k.pc \notin Served
    BY <1>a, <1>b DEF Routed, Served
  <2>5. RouteSound' /\ ReachSound'
    BY <1>a, <1>b, <1>d, <2>4, RouteStep, EndpointFacts
  <2>6. QED
    BY <2>3, <2>5
<1>6. QED
  BY <1>1, <1>2, <1>3, <1>4, <1>5 DEF IInv

\* A step of call a that touches neither the database nor the routes.
LEMMA DomainsKept ==
    ASSUME IInv, NEW a \in Calls, NEW r \in Rules, NEW k \in CallRecords, Step(a, r, k),
           call[a] # NoCall, UNCHANGED <<db, routes, disturbed, shared>>,
           k # NoCall => Dom(k.was) \cup Dom(Written(k)) \subseteq
                             Dom(call[a].was) \cup Dom(Written(call[a])),
           ~disturbed[r] =>
               /\ Dom(Routed(call[a], db[r])) \subseteq Dom(Routed(k, db[r]))
               /\ k.pc \in Served => call[a].pc \in Served \/ Dom(db[r]) = {}
    PROVE  HeldSound' /\ RouteSound' /\ ReachSound'
<1>1. call[a].rule = r
  BY DEF Step
<1>2. \A d \in Domains : d \in Dom(db[r]) \/ d \in Dom(call[a].was) \cup Dom(Written(call[a])) =>
          Has(r, d)
  BY <1>1 DEF Has
<1>3. HeldSound'
  BY <1>2, HeldStep
<1>4. RouteSound' /\ ReachSound'
  BY RouteStep
<1>5. QED
  BY <1>3, <1>4

\* The record of a call whose start is over.
LEMMA StartedFacts ==
    ASSUME IInv, NEW a \in Calls, call[a].pc # "idle", NEW p \in {"running", "error"},
           Started(a, p), UNCHANGED disturbed
    PROVE  \E k \in CallRecords :
              /\ k # NoCall /\ k.pc = p /\ k.rule = call[a].rule
              /\ k.was = call[a].was /\ k.new = None
              /\ Step(a, call[a].rule, k) /\ Shape(k) /\ Handle(k) = None
              /\ Dom(k.was) \cup Dom(Written(k)) = Dom(call[a].was)
<1> DEFINE k == [call[a] EXCEPT !.pc = p, !.new = None]
<1>1. call[a] \in CallRecords /\ call[a] # NoCall /\ p \in PCs
  BY UnderWay DEF PCs
<1>2. /\ k \in CallRecords /\ k # NoCall /\ k.pc = p /\ k.rule = call[a].rule
      /\ k.was = call[a].was /\ k.new = None
  BY <1>1 DEF CallRecords, NoCall
<1>3. call' = [call EXCEPT ![a] = k]
  BY DEF Started
<1> HIDE DEF k
<1>4. Step(a, call[a].rule, k)
  BY <1>2, <1>3, UnderWay
<1>5. Shape(k) /\ Handle(k) = None /\ Written(k) = None
  BY <1>2 DEF Shape, Handle, Written
<1>6. QED
  BY <1>2, <1>4, <1>5, EndpointFacts

\* The socket is not bound.
LEMMA BindFailsInv ==
    ASSUME IInv, NEW a \in Calls, Start(a), BindFails(a)
    PROVE  IInv'
<1> DEFINE r == call[a].rule
<1>a. /\ call[a].pc = "start" /\ call[a].pc # "idle" /\ call[a].new \notin ByDomain
      /\ Status(r, "starting") /\ Started(a, "error")
      /\ UNCHANGED <<db, sock, listeners, routes, disturbed, shared>>
  BY DEF Start, BindFails
<1>b. PICK k \in CallRecords :
         /\ k # NoCall /\ k.pc = "error" /\ k.rule = r /\ k.was = call[a].was /\ k.new = None
         /\ Step(a, r, k) /\ Shape(k) /\ Handle(k) = None
         /\ Dom(k.was) \cup Dom(Written(k)) = Dom(call[a].was)
  BY <1>a, StartedFacts
<1>c. r \in Rules /\ call[a] # NoCall /\ Handle(call[a]) = None
  BY <1>a, UnderWay DEF Handle
<1>d. PICK s \in {"starting", None} : /\ s = None <=> runtime[r] = None
                                      /\ runtime' = [runtime EXCEPT ![r] = s]
  BY <1>a, <1>c, StatusFacts DEF IInv, Statuses
<1>e. s \in Statuses \cup {None}
  BY DEF Statuses
<1>f. ASSUME Fits(call[a], db[r], runtime[r], listeners[r])
      PROVE  Fits(k, db[r], s, listeners[r])
  BY <1>a, <1>b, <1>d, <1>f DEF Fits
<1>g. Dom(Routed(call[a], db[r])) \subseteq Dom(Routed(k, db[r])) /\ k.pc \notin Served
  BY <1>a, <1>b, EndpointFacts DEF Routed, Served
<1>1. QED
  BY <1>a, <1>b, <1>c, <1>d, <1>e, <1>f, <1>g, StatusInv

\* register_domain_route: no domain that another rule has alone is taken.
LEMMA AddRoutesInv ==
    ASSUME IInv, NEW a \in Calls, NEW r \in Rules, r = call[a].rule,
           Start(a), AddRoutes(a)
    PROVE  IInv'
<1> DEFINE e == call[a].new
<1>a. /\ call[a].pc = "start" /\ call[a].pc # "idle" /\ e \in ByDomain
      /\ Status(r, "starting") /\ Started(a, "running")
      /\ routes' = [d \in Domains |-> IF d \in e.domains THEN r ELSE routes[d]]
      /\ UNCHANGED <<db, sock, listeners, disturbed, shared>>
  BY DEF Start, AddRoutes
<1>b. PICK k \in CallRecords :
         /\ k # NoCall /\ k.pc = "running" /\ k.rule = r /\ k.was = call[a].was /\ k.new = None
         /\ Step(a, r, k) /\ Shape(k) /\ Handle(k) = None
         /\ Dom(k.was) \cup Dom(Written(k)) = Dom(call[a].was)
  BY <1>a, StartedFacts
<1>c. r \in Rules /\ call[a] # NoCall /\ Handle(call[a]) = None
  BY <1>a, UnderWay DEF Handle
<1>d. PICK s \in {"starting", None} : /\ s = None <=> runtime[r] = None
                                      /\ runtime' = [runtime EXCEPT ![r] = s]
  BY <1>a, <1>c, StatusFacts DEF IInv, Statuses
<1>e. /\ \A q \in Rules \ {r} : \A w \in Now(q)' : w \in Now(q)
      /\ ~disturbed'[r] => /\ ~disturbed[r] /\ call[a] \in Now(r)
                      /\ \A w \in Now(r)' : w = k
      /\ call' \in [Calls -> CallRecords] /\ OneCall'
  BY <1>b, <1>c, CallStep DEF IInv
<1>f. ~disturbed[r] => Fits(call[a], db[r], runtime[r], listeners[r])
  BY <1>a, UnderWay
<1>g. Dom(e) = e.domains
  BY <1>a, EndpointFacts
<1>h. \A d \in Domains : routes'[d] = IF d \in Dom(e) THEN r ELSE routes[d]
  BY <1>a, <1>g
<1>i. \A d \in Domains : d \in Dom(e) => Has(r, d)
  BY <1>a, <1>c DEF Has, Written
<1>1. TypeOK' /\ OneCall' /\ CallSound'
  <2>1. runtime' \in [Rules -> Statuses \cup {None}]
    BY <1>d DEF IInv, TypeOK, Statuses
  <2>2. routes' \in [Domains -> Rules \cup {None}]
    BY <1>a, <1>c DEF IInv, TypeOK
  <2>3. QED
    BY <1>a, <1>b, <1>c, <1>e, <2>1, <2>2, ShapeStep DEF IInv, TypeOK
<1>2. RuleSound'
  <2>1. runtime'[r] = s /\ \A q \in Rules \ {r} : runtime'[q] = runtime[q]
    BY <1>c, <1>d DEF IInv, TypeOK
  <2>2. ASSUME Fits(call[a], db[r], runtime[r], listeners[r])
        PROVE  Fits(k, db[r], s, listeners[r])
    BY <1>a, <1>b, <1>d, <2>2 DEF Fits, Own
  <2>3. QED
    BY <1>a, <1>b, <1>c, <2>1, <2>2, RuleStep
<1>3. HandleSound' /\ LoopSound'
  BY <1>a, <1>b, <1>c, HandleStep
<1>4. HeldSound'
  <2>1. \A d \in Domains : d \in Dom(db[r]) \/ d \in Dom(call[a].was) => Has(r, d)
    BY <1>c DEF Has
  <2>2. QED
    BY <1>a, <1>b, <1>c, <2>1, HeldStep
<1>5. RouteSound'
  <2> SUFFICES ASSUME NEW q \in Rules, ~disturbed'[q], NEW w \in Now(q)', NEW d \in Domains,
                      routes'[d] = q
               PROVE  d \in Dom(Routed(w, db[q]))
    BY <1>a DEF RouteSound
  <2>1. CASE q = r
    <3>1. w = k /\ db[r] = e /\ Routed(k, db[r]) = e
      <4>1. ~disturbed[r] /\ w = k
        BY <1>e, <2>1
      <4>2. db[r] = e
        BY <1>a, <1>f, <4>1 DEF Fits
      <4>3. Routed(k, db[r]) = db[r]
        BY <1>b DEF Routed
      <4>4. QED
        BY <4>1, <4>2, <4>3
    <3>2. d \notin Dom(e) => FALSE
      <4>1. Dom(Routed(call[a], db[r])) = {}
        BY <1>a, EndpointFacts DEF Routed
      <4>2. QED
        BY <1>e, <1>h, <2>1, <4>1 DEF IInv, RouteSound
    <3>3. QED
      BY <2>1, <3>1, <3>2
  <2>2. CASE q # r
    BY <1>a, <1>e, <1>h, <2>2 DEF IInv, RouteSound
  <2>3. QED
    BY <2>1, <2>2
<1>6. ReachSound'
  <2> SUFFICES ASSUME NEW q \in Rules, ~disturbed'[q], NEW w \in Now(q)', NEW d \in Domains,
                      w.pc \in Served, d \in Dom(db[q]), d \notin shared
               PROVE  routes'[d] = q
    BY <1>a DEF ReachSound, Served
  <2>1. CASE q = r
    BY <1>a, <1>e, <1>f, <1>h, <2>1 DEF Fits
  <2>2. CASE q # r
    <3>1. routes[d] = q
      BY <1>a, <1>e, <2>2 DEF IInv, ReachSound, Served
    <3>2. Has(q, d)
      BY DEF Has
    <3>3. d \notin Dom(e)
      BY <1>c, <1>i, <2>2, <3>2 DEF IInv, HeldSound
    <3>4. QED
      BY <1>h, <3>1, <3>3
  <2>3. QED
    BY <2>1, <2>2
<1>7. QED
  BY <1>1, <1>2, <1>3, <1>4, <1>5, <1>6 DEF IInv

\* The handle goes from the call into the map.
LEMMA InsertHandleInv ==
    ASSUME IInv, NEW a \in Calls, NEW r \in Rules, r = call[a].rule,
           InsertHandle(a)
    PROVE  IInv'
<1> DEFINE e == call[a].new
<1>a. /\ call[a].pc = "insert_handle" /\ call[a].pc # "idle"
      /\ listeners' = [listeners EXCEPT ![r] = e] /\ Started(a, "running")
      /\ UNCHANGED <<db, runtime, sock, routes, disturbed, shared>>
  BY DEF InsertHandle
<1>b. PICK k \in CallRecords :
         /\ k # NoCall /\ k.pc = "running" /\ k.rule = r /\ k.was = call[a].was /\ k.new = None
         /\ Step(a, r, k) /\ Shape(k) /\ Handle(k) = None
         /\ Dom(k.was) \cup Dom(Written(k)) = Dom(call[a].was)
  BY <1>a, StartedFacts
<1>c. r \in Rules /\ call[a] # NoCall /\ Handle(call[a]) = e /\ e # None
  BY <1>a, UnderWay DEF Handle, IInv, CallSound, Shape
<1>d. /\ e \in Sockets /\ Serves(r, e) /\ (\A q \in Rules : listeners[q] # e)
      /\ \A b \in Calls : Handle(call[b]) = e => b = a
  BY <1>c DEF IInv, HandleSound
<1>e. /\ call'[a] = k /\ (\A b \in Calls \ {a} : call'[b] = call[b])
      /\ \A q \in Rules \ {r} : \A w \in Now(q)' : w \in Now(q)
      /\ ~disturbed'[r] => /\ ~disturbed[r] /\ call[a] \in Now(r)
                      /\ \A w \in Now(r)' : w = k
      /\ call' \in [Calls -> CallRecords] /\ OneCall'
  BY <1>b, <1>c, CallStep DEF IInv
<1>f. ~disturbed[r] => db[r] = e /\ listeners[r] = None /\ runtime[r] # None
  BY <1>a, UnderWay DEF Fits
<1>g. /\ listeners'[r] = e /\ \A q \in Rules \ {r} : listeners'[q] = listeners[q]
      /\ listeners' \in [Rules -> Sockets \cup {None}]
  BY <1>a, <1>c, <1>d DEF IInv, TypeOK
<1>h. \A q, x : Serves(q, x)' <=> Serves(q, x)
  BY <1>a DEF Serves
<1>1. TypeOK' /\ OneCall' /\ CallSound'
  BY <1>a, <1>b, <1>c, <1>e, <1>g, ShapeStep DEF IInv, TypeOK
<1>2. RuleSound'
  <2>1. ~disturbed[r] => Fits(k, db[r], runtime[r], e)
    BY <1>b, <1>c, <1>d, <1>f DEF Fits, Own
  <2>2. QED
    BY <1>a, <1>b, <1>c, <1>g, <2>1, RuleStep
<1>3. HandleSound'
  <2>1. ASSUME NEW q \in Rules, listeners'[q] # None  PROVE Serves(q, listeners'[q])
    BY <1>d, <1>g, <2>1 DEF IInv, HandleSound
  <2>2. ASSUME NEW b \in Calls, Handle(call'[b]) # None
        PROVE  /\ Handle(call'[b]) \in Sockets /\ Serves(call'[b].rule, Handle(call'[b]))
               /\ \A q \in Rules : listeners'[q] # Handle(call'[b])
               /\ \A d \in Calls : Handle(call'[d]) = Handle(call'[b]) => d = b
    <3>1. b # a /\ call'[b] = call[b]
      BY <1>b, <1>e, <2>2
    <3>2. /\ Handle(call[b]) \in Sockets /\ Serves(call[b].rule, Handle(call[b]))
          /\ \A q \in Rules : listeners[q] # Handle(call[b])
          /\ \A d \in Calls : Handle(call[d]) = Handle(call[b]) => d = b
      BY <2>2, <3>1 DEF IInv, HandleSound
    <3>3. \A q \in Rules : listeners'[q] # Handle(call[b])
      BY <1>d, <1>g, <3>1, <3>2
    <3>4. \A d \in Calls : Handle(call'[d]) = Handle(call[b]) => d = b
      BY <1>b, <1>e, <2>2, <3>1, <3>2
    <3>5. QED
      BY <3>1, <3>2, <3>3, <3>4
  <2>3. QED
    BY <1>a, <2>1, <2>2 DEF HandleSound, Serves
<1>4. LoopSound'
  <2> SUFFICES ASSUME NEW q \in Rules, ~disturbed'[q], NEW w \in Now(q)', NEW x \in Sockets, Serves(q, x)
               PROVE  listeners'[q] = x \/ Handle(w) = x
    BY <1>h DEF LoopSound
  <2>1. CASE q = r
    BY <1>c, <1>e, <1>f, <1>g, <2>1, EndpointFacts DEF IInv, LoopSound
  <2>2. CASE q # r
    BY <1>a, <1>e, <1>g, <2>2 DEF IInv, LoopSound
  <2>3. QED
    BY <2>1, <2>2
<1>5. HeldSound' /\ RouteSound' /\ ReachSound'
  <2>1. Routed(call[a], db[r]) = None /\ (~disturbed[r] => Dom(db[r]) = {})
    BY <1>a, <1>d, <1>f, EndpointFacts DEF Routed
  <2>2. QED
    BY <1>a, <1>b, <1>c, <2>1, DomainsKept, EndpointFacts
<1>6. QED
  BY <1>1, <1>2, <1>3, <1>4, <1>5 DEF IInv

\* on_proxy_delete for a rule with domains: its routes go, and no other's that
\* is not shared.
LEMMA StopRoutesInv ==
    ASSUME IInv, NEW a \in Calls, NEW r \in Rules, r = call[a].rule,
           Stop(a), call[a].was \in ByDomain
    PROVE  IInv'
<1> DEFINE e == call[a].was
           k == [call[a] EXCEPT !.pc = "stopped"]
<1>a. /\ call[a].pc = "stop" /\ call[a].pc # "idle"
      /\ Status(r, "stopping") /\ call' = [call EXCEPT ![a].pc = "stopped"]
      /\ routes' = [d \in Domains |-> IF d \in e.domains THEN None ELSE routes[d]]
      /\ UNCHANGED <<db, sock, listeners, disturbed, shared>>
  BY DEF Stop, StopEndpoint, Goto
<1>b. /\ k \in CallRecords /\ k # NoCall /\ k.pc = "stopped" /\ k.rule = r
      /\ k.was = e /\ k.new = call[a].new
  <2>1. call[a] \in CallRecords /\ call[a] # NoCall
    BY <1>a, UnderWay
  <2>2. QED
    BY <2>1 DEF CallRecords, NoCall
<1>c. call' = [call EXCEPT ![a] = k]
  BY <1>a
<1> HIDE DEF k
<1>d. Step(a, r, k) /\ call[a] # NoCall /\ r \in Rules
  BY <1>a, <1>b, <1>c, UnderWay
<1>e. /\ Handle(call[a]) = None /\ Handle(k) = None /\ Shape(k)
      /\ Written(k) = call[a].new /\ Written(call[a]) = call[a].new
  BY <1>a, <1>b DEF Handle, Shape, Written
<1>f. PICK s \in {"stopping", None} : /\ s = None <=> runtime[r] = None
                                      /\ runtime' = [runtime EXCEPT ![r] = s]
  BY <1>a, <1>d, StatusFacts DEF IInv, Statuses
<1>g. /\ \A q \in Rules \ {r} : \A w \in Now(q)' : w \in Now(q)
      /\ ~disturbed'[r] => /\ ~disturbed[r] /\ call[a] \in Now(r)
                      /\ \A w \in Now(r)' : w = k
      /\ call' \in [Calls -> CallRecords] /\ OneCall'
  BY <1>b, <1>d, CallStep DEF IInv
<1>h. \A d \in Domains : routes'[d] = IF d \in Dom(e) THEN None ELSE routes[d]
  BY <1>a, EndpointFacts
<1>i. \A d \in Domains : d \in Dom(db[r]) \/ d \in Dom(e) \/ d \in Dom(Written(k)) => Has(r, d)
  BY <1>d, <1>e DEF Has
<1>1. TypeOK' /\ OneCall' /\ CallSound'
  <2>1. runtime' \in [Rules -> Statuses \cup {None}]
    BY <1>f DEF IInv, TypeOK, Statuses
  <2>2. routes' \in [Domains -> Rules \cup {None}]
    BY <1>a DEF IInv, TypeOK
  <2>3. QED
    BY <1>a, <1>b, <1>d, <1>e, <1>g, <2>1, <2>2, ShapeStep DEF IInv, TypeOK
<1>2. RuleSound'
  <2>1. runtime'[r] = s /\ \A q \in Rules \ {r} : runtime'[q] = runtime[q]
    BY <1>d, <1>f DEF IInv, TypeOK
  <2>2. ASSUME Fits(call[a], db[r], runtime[r], listeners[r])
        PROVE  Fits(k, db[r], s, listeners[r])
    <3>1. listeners[r] = None
      BY <1>a, <2>2, EndpointFacts DEF Fits, Own
    <3>2. db[r] = k.new /\ (s = None <=> db[r] = None)
      BY <1>a, <1>b, <1>f, <2>2 DEF Fits
    <3>3. QED
      BY <1>b, <3>1, <3>2 DEF Fits
  <2>3. QED
    BY <1>a, <1>b, <1>d, <2>1, <2>2, RuleStep
<1>3. HandleSound' /\ LoopSound'
  BY <1>a, <1>b, <1>d, <1>e, HandleStep
<1>4. HeldSound'
  BY <1>a, <1>b, <1>d, <1>i, HeldStep
<1>5. RouteSound'
  <2> SUFFICES ASSUME NEW q \in Rules, ~disturbed'[q], NEW w \in Now(q)', NEW d \in Domains,
                      routes'[d] = q
               PROVE  d \in Dom(Routed(w, db[q]))
    BY <1>a DEF RouteSound
  <2>1. d \notin Dom(e) /\ routes[d] = q
    BY <1>h, NoneAssumption
  <2>2. CASE q = r
    <3>1. Routed(call[a], db[r]) = e
      BY <1>a DEF Routed
    <3>2. QED
      BY <1>g, <2>1, <2>2, <3>1 DEF IInv, RouteSound
  <2>3. CASE q # r
    BY <1>a, <1>g, <2>1, <2>3 DEF IInv, RouteSound
  <2>4. QED
    BY <2>2, <2>3
<1>6. ReachSound'
  <2> SUFFICES ASSUME NEW q \in Rules, ~disturbed'[q], NEW w \in Now(q)', NEW d \in Domains,
                      w.pc \in Served, d \in Dom(db[q]), d \notin shared
               PROVE  routes'[d] = q
    BY <1>a DEF ReachSound, Served
  <2>1. CASE q = r
    BY <1>b, <1>g, <2>1 DEF Served
  <2>2. CASE q # r
    <3>1. routes[d] = q
      BY <1>a, <1>g, <2>2 DEF IInv, ReachSound, Served
    <3>2. Has(q, d)
      BY DEF Has
    <3>3. d \notin Dom(e)
      BY <1>d, <1>i, <2>2, <3>2 DEF IInv, HeldSound
    <3>4. QED
      BY <1>h, <3>1, <3>3
  <2>3. QED
    BY <2>1, <2>2
<1>7. QED
  BY <1>1, <1>2, <1>3, <1>4, <1>5, <1>6 DEF IInv

\* on_proxy_delete for a rule with a port: its handle goes from the map into
\* the call's hands.
LEMMA StopListenerInv ==
    ASSUME IInv, NEW a \in Calls, NEW r \in Rules, r = call[a].rule,
           Stop(a), call[a].was \notin ByDomain
    PROVE  IInv'
<1> DEFINE l == listeners[r]
           k == [call[a] EXCEPT !.pc = "join", !.was = l]
<1>a. /\ call[a].pc = "stop" /\ call[a].pc # "idle" /\ Status(r, "stopping")
      /\ listeners' = [listeners EXCEPT ![r] = None]
      /\ call' = [call EXCEPT ![a].pc = "join", ![a].was = l]
      /\ UNCHANGED <<db, sock, routes, disturbed, shared>>
  BY DEF Stop, StopEndpoint
<1>b. /\ call[a] \in CallRecords /\ call[a] # NoCall /\ r \in Rules
      /\ call[a].was \in Endpoints \cup {None}
  BY <1>a, UnderWay
<1>c. l \in Sockets \cup {None} /\ l \in Endpoints \cup {None}
  BY <1>b, EndpointFacts, StateFacts DEF IInv
<1>d. call' = [call EXCEPT ![a] = k]
  BY <1>a
<1>e. /\ k \in CallRecords /\ k # NoCall /\ k.pc = "join" /\ k.rule = r
      /\ k.was = l /\ k.new = call[a].new
  <2> HIDE DEF l
  <2>1. QED
    BY <1>b, <1>c DEF CallRecords, NoCall
<1> HIDE DEF k
<1>f. Step(a, r, k)
  BY <1>a, <1>b, <1>d, <1>e DEF Step
<1>g. /\ Handle(call[a]) = None /\ Handle(k) = l /\ Shape(k)
      /\ Written(k) = call[a].new /\ Written(call[a]) = call[a].new
  BY <1>a, <1>e DEF Handle, Shape, Written
<1>h. PICK s \in {"stopping", None} : /\ s = None <=> runtime[r] = None
                                      /\ runtime' = [runtime EXCEPT ![r] = s]
  BY <1>a, <1>b, StatusFacts DEF IInv, Statuses
<1>i. /\ call'[a] = k /\ (\A b \in Calls \ {a} : call'[b] = call[b])
      /\ \A q \in Rules \ {r} : \A w \in Now(q)' : w \in Now(q)
      /\ ~disturbed'[r] => /\ ~disturbed[r] /\ call[a] \in Now(r)
                      /\ \A w \in Now(r)' : w = k
      /\ call' \in [Calls -> CallRecords] /\ OneCall'
  BY <1>b, <1>e, <1>f, CallStep DEF IInv
<1>j. /\ listeners'[r] = None /\ (\A q \in Rules \ {r} : listeners'[q] = listeners[q])
      /\ listeners' \in [Rules -> Sockets \cup {None}]
  BY <1>a, <1>b DEF IInv, TypeOK
<1>k. \A q, x : Serves(q, x)' <=> Serves(q, x)
  BY <1>a DEF Serves
<1>l. l # None => /\ l \in Sockets /\ Serves(r, l)
                  /\ \A q \in Rules \ {r} : listeners[q] # l
                  /\ \A b \in Calls : Handle(call[b]) # l
  <2> SUFFICES ASSUME l # None
               PROVE  /\ l \in Sockets /\ Serves(r, l)
                      /\ \A q \in Rules \ {r} : listeners[q] # l
                      /\ \A b \in Calls : Handle(call[b]) # l
    OBVIOUS
  <2>1. l \in Sockets /\ Serves(r, l)
    BY <1>b, <1>c DEF IInv, HandleSound
  <2>2. ASSUME NEW q \in Rules \ {r}, listeners[q] = l  PROVE FALSE
    <3>1. Serves(q, l)
      BY <2>2 DEF IInv, HandleSound
    <3>2. QED
      BY <1>b, <2>1, <3>1, ServesFacts DEF IInv
  <2>3. \A b \in Calls : Handle(call[b]) # l
    BY <1>b DEF IInv, HandleSound
  <2>4. QED
    BY <2>1, <2>2, <2>3
<1>1. TypeOK' /\ OneCall' /\ CallSound'
  <2>1. runtime' \in [Rules -> Statuses \cup {None}]
    BY <1>h DEF IInv, TypeOK, Statuses
  <2>2. CallSound'
    BY <1>b, <1>e, <1>f, <1>g, ShapeStep
  <2>3. QED
    BY <1>a, <1>i, <1>j, <2>1, <2>2 DEF IInv, TypeOK
<1>2. RuleSound'
  <2>1. runtime'[r] = s /\ \A q \in Rules \ {r} : runtime'[q] = runtime[q]
    BY <1>b, <1>h DEF IInv, TypeOK
  <2>2. ASSUME Fits(call[a], db[r], runtime[r], listeners[r])
        PROVE  Fits(k, db[r], s, None)
    <3>1. db[r] = k.new /\ (s = None <=> db[r] = None)
      BY <1>a, <1>e, <1>h, <2>2 DEF Fits
    <3>2. QED
      BY <1>e, <3>1 DEF Fits
  <2>3. QED
    BY <1>a, <1>b, <1>e, <1>f, <1>j, <2>1, <2>2, RuleStep
<1>3. HandleSound'
  <2>1. ASSUME NEW q \in Rules, listeners'[q] # None  PROVE Serves(q, listeners'[q])
    BY <1>j, <2>1 DEF IInv, HandleSound
  <2>2. ASSUME NEW b \in Calls, Handle(call'[b]) # None
        PROVE  /\ Handle(call'[b]) \in Sockets /\ Serves(call'[b].rule, Handle(call'[b]))
               /\ \A q \in Rules : listeners'[q] # Handle(call'[b])
               /\ \A d \in Calls : Handle(call'[d]) = Handle(call'[b]) => d = b
    <3>1. CASE b = a
      <4>1. Handle(call'[b]) = l /\ call'[b].rule = r
        BY <1>e, <1>g, <1>i, <3>1
      <4>2. \A d \in Calls : Handle(call'[d]) = l => d = a
        BY <1>i, <1>l, <2>2, <4>1
      <4>3. \A q \in Rules : listeners'[q] # l
        BY <1>j, <1>l, <2>2, <4>1
      <4>4. QED
        BY <1>l, <2>2, <3>1, <4>1, <4>2, <4>3
    <3>2. CASE b # a
      <4>1. call'[b] = call[b]
        BY <1>i, <3>2
      <4>2. /\ Handle(call[b]) \in Sockets /\ Serves(call[b].rule, Handle(call[b]))
            /\ \A q \in Rules : listeners[q] # Handle(call[b])
            /\ \A d \in Calls : Handle(call[d]) = Handle(call[b]) => d = b
        BY <2>2, <4>1 DEF IInv, HandleSound
      <4>3. \A q \in Rules : listeners'[q] # Handle(call[b])
        BY <1>j, <2>2, <4>1, <4>2
      <4>4. \A d \in Calls : Handle(call'[d]) = Handle(call[b]) => d = b
        BY <1>b, <1>g, <1>i, <4>2
      <4>5. QED
        BY <4>1, <4>2, <4>3, <4>4
    <3>3. QED
      BY <3>1, <3>2
  <2>3. QED
    BY <1>a, <2>1, <2>2 DEF HandleSound, Serves
<1>4. LoopSound'
  <2> SUFFICES ASSUME NEW q \in Rules, ~disturbed'[q], NEW w \in Now(q)', NEW x \in Sockets, Serves(q, x)
               PROVE  listeners'[q] = x \/ Handle(w) = x
    BY <1>k DEF LoopSound
  <2>1. CASE q = r
    BY <1>g, <1>i, <2>1, EndpointFacts DEF IInv, LoopSound
  <2>2. CASE q # r
    BY <1>a, <1>i, <1>j, <2>2 DEF IInv, LoopSound
  <2>3. QED
    BY <2>1, <2>2
<1>5. HeldSound' /\ RouteSound' /\ ReachSound'
  <2>1. Dom(l) = {} /\ Dom(call[a].was) = {}
    BY <1>b, <1>c, EndpointFacts
  <2>2. Routed(call[a], db[r]) = call[a].was /\ k.pc \notin Served
    BY <1>a, <1>e DEF Routed, Served
  <2>3. QED
    BY <1>a, <1>b, <1>e, <1>f, <1>g, <2>1, <2>2, DomainsKept
<1>6. QED
  BY <1>1, <1>2, <1>3, <1>4, <1>5 DEF IInv

\* The aborted loop of endpoint l ends, whose handle call a had, if anyone; the
\* call has no handle any more.
LEMMA LoopEnds ==
    ASSUME IInv, NEW a \in Calls, NEW r \in Rules, NEW k \in CallRecords, Step(a, r, k),
           Handle(k) = None, NEW l, l # None => Handle(call[a]) = l,
           disturbed'[r] \/ Handle(call[a]) = l, UNCHANGED listeners,
           sock' = [e \in Sockets |-> IF e = l THEN Unloop(sock[e]) ELSE sock[e]]
    PROVE  sock' \in [Sockets -> Uses \cup {None}] /\ HandleSound' /\ LoopSound'
<1>1. /\ call'[a] = k /\ (\A b \in Calls \ {a} : call'[b] = call[b])
      /\ \A q \in Rules \ {r} : \A w \in Now(q)' : w \in Now(q)
      /\ ~disturbed'[r] => /\ ~disturbed[r] /\ call[a] \in Now(r)
                           /\ \A w \in Now(r)' : w = k
      /\ \A q \in Rules \ {r} : disturbed'[q] <=> disturbed[q]
  BY CallStep DEF IInv, Step
<1>2. \A e \in Sockets : e # l => sock'[e] = sock[e]
  OBVIOUS
<1>3. l # None => /\ l \in Sockets /\ sock[l] \in Uses /\ sock'[l] = Unloop(sock[l])
                  /\ \A q \in Rules : listeners[q] # l
                  /\ \A b \in Calls : Handle(call[b]) = l => b = a
  <2> SUFFICES ASSUME l # None
               PROVE  /\ l \in Sockets /\ sock[l] \in Uses /\ sock'[l] = Unloop(sock[l])
                      /\ \A q \in Rules : listeners[q] # l
                      /\ \A b \in Calls : Handle(call[b]) = l => b = a
    OBVIOUS
  <2>1. /\ l \in Sockets /\ Serves(call[a].rule, l) /\ \A q \in Rules : listeners[q] # l
        /\ \A b \in Calls : Handle(call[b]) = l => b = a
    BY DEF IInv, HandleSound
  <2>2. QED
    BY <2>1 DEF IInv, TypeOK, Serves
<1>4. \A u \in Uses : Unloop(u) \in Uses \cup {None} /\ (Unloop(u) # None => ~Unloop(u).loop)
  <2> SUFFICES ASSUME NEW u \in Uses
               PROVE  Unloop(u) \in Uses \cup {None} /\ (Unloop(u) # None => ~Unloop(u).loop)
    OBVIOUS
  <2>1. \A B, x : x \in B /\ u \in [rule : Rules, loop : B, held : B] =>
            /\ [u EXCEPT !.loop = x] \in [rule : Rules, loop : B, held : B]
            /\ [u EXCEPT !.loop = x].loop = x
    OBVIOUS
  <2>2. FALSE \in BOOLEAN /\ u \in [rule : Rules, loop : BOOLEAN, held : BOOLEAN]
    BY Zenon DEF Uses
  <2>3. [u EXCEPT !.loop = FALSE] \in Uses /\ [u EXCEPT !.loop = FALSE].loop = FALSE
    BY <2>1, <2>2, Zenon DEF Uses
  <2>4. QED
    BY <2>3 DEF Unloop
<1>5. \A q \in Rules, e \in Sockets : Serves(q, e)' <=> Serves(q, e) /\ e # l
  <2> SUFFICES ASSUME NEW q \in Rules, NEW e \in Sockets
               PROVE  Serves(q, e)' <=> Serves(q, e) /\ e # l
    OBVIOUS
  <2>1. CASE e # l
    BY <1>2, <2>1 DEF Serves
  <2>2. CASE e = l
    BY <1>3, <1>4, <2>2, EndpointFacts DEF Serves
  <2>3. QED
    BY <2>1, <2>2
<1>6. sock' \in [Sockets -> Uses \cup {None}]
  <2>1. ASSUME NEW e \in Sockets
        PROVE  (IF e = l THEN Unloop(sock[e]) ELSE sock[e]) \in Uses \cup {None}
    <3>1. sock[e] \in Uses \cup {None}
      BY DEF IInv, TypeOK
    <3>2. e = l => sock[e] \in Uses
      BY <1>3, EndpointFacts
    <3>3. QED
      BY <1>4, <3>1, <3>2
  <2>2. QED
    BY <2>1
<1>7. HandleSound'
  <2>1. ASSUME NEW q \in Rules, listeners[q] # None  PROVE Serves(q, listeners[q])'
    <3>1. Serves(q, listeners[q]) /\ listeners[q] \in Sockets /\ listeners[q] # l
      BY <1>3, <2>1, StateFacts DEF IInv, HandleSound
    <3>2. QED
      BY <1>2, <3>1 DEF Serves
  <2>2. ASSUME NEW b \in Calls, Handle(call'[b]) # None
        PROVE  /\ Handle(call'[b]) \in Sockets /\ Serves(call[b].rule, Handle(call[b]))'
               /\ \A q \in Rules : listeners'[q] # Handle(call'[b])
               /\ \A d \in Calls : Handle(call'[d]) = Handle(call'[b]) => d = b
    <3>1. b # a /\ call'[b] = call[b]
      BY <1>1, <2>2
    <3>2. /\ Handle(call[b]) \in Sockets /\ Serves(call[b].rule, Handle(call[b]))
          /\ \A q \in Rules : listeners[q] # Handle(call[b])
          /\ \A d \in Calls : Handle(call[d]) = Handle(call[b]) => d = b
      BY <2>2, <3>1 DEF IInv, HandleSound
    <3>3. Handle(call[b]) # l
      BY <2>2, <3>1, <3>2
    <3>4. Serves(call[b].rule, Handle(call[b]))'
      BY <1>1, <1>2, <3>1, <3>2, <3>3 DEF Serves
    <3>5. \A d \in Calls : Handle(call'[d]) = Handle(call[b]) => d = b
      BY <1>1, <2>2, <3>1, <3>2
    <3>6. QED
      BY <3>1, <3>2, <3>4, <3>5
  <2>3. QED
    BY <2>1, <2>2 DEF HandleSound
<1>8. LoopSound'
  <2> SUFFICES ASSUME NEW q \in Rules, ~disturbed'[q], NEW w \in Now(q)', NEW x \in Sockets,
                      Serves(q, x), x # l
               PROVE  listeners[q] = x \/ Handle(w) = x
    BY <1>5 DEF LoopSound
  <2>1. CASE q = r
    BY <1>1, <2>1 DEF IInv, LoopSound
  <2>2. CASE q # r
    BY <1>1, <2>2 DEF IInv, LoopSound
  <2>3. QED
    BY <2>1, <2>2
<1>9. QED
  BY <1>6, <1>7, <1>8

\* handle.await: the loop ends, and the call has no handle any more.
LEMMA JoinInv ==
    ASSUME IInv, NEW a \in Calls, NEW r \in Rules, r = call[a].rule, Join(a)
    PROVE  IInv'
<1> DEFINE l == call[a].was
           k == [call[a] EXCEPT !.pc = "stopped"]
<1>a. /\ call[a].pc = "join" /\ call[a].pc # "idle" /\ call' = [call EXCEPT ![a].pc = "stopped"]
      /\ sock' = [e \in Sockets |-> IF e = l THEN Unloop(sock[e]) ELSE sock[e]]
      /\ UNCHANGED <<db, runtime, listeners, routes, disturbed, shared>>
  BY DEF Join, Goto
<1>b. call[a] \in CallRecords /\ call[a] # NoCall
  BY <1>a, UnderWay
<1>c. /\ k \in CallRecords /\ k # NoCall /\ k.pc = "stopped" /\ k.rule = r
      /\ k.was = call[a].was /\ k.new = call[a].new
  BY <1>b DEF CallRecords, NoCall
<1>d. call' = [call EXCEPT ![a] = k]
  BY <1>a
<1> HIDE DEF k
<1>e. Step(a, r, k)
  BY <1>a, <1>b, <1>c, <1>d DEF Step
<1>f. /\ Handle(call[a]) = l /\ Handle(k) = None /\ Shape(k)
      /\ Written(k) = call[a].new /\ Written(call[a]) = call[a].new
  BY <1>a, <1>c DEF Handle, Shape, Written
<1>1. sock' \in [Sockets -> Uses \cup {None}] /\ HandleSound' /\ LoopSound'
  BY <1>a, <1>c, <1>e, <1>f, LoopEnds
<1>2. TypeOK' /\ OneCall' /\ CallSound'
  <2>1. CallSound'
    BY <1>c, <1>e, <1>f, ShapeStep
  <2>2. QED
    BY <1>a, <1>c, <1>e, <1>1, <2>1, CallStep DEF IInv, TypeOK
<1>3. RuleSound'
  <2>1. ASSUME Fits(call[a], db[r], runtime[r], listeners[r])
        PROVE  Fits(k, db[r], runtime[r], listeners[r])
    BY <1>a, <1>c, <2>1 DEF Fits
  <2>2. QED
    BY <1>a, <1>c, <1>e, <2>1, RuleStep
<1>4. HeldSound' /\ RouteSound' /\ ReachSound'
  <2>1. Routed(call[a], db[r]) = None /\ k.pc \notin Served
    BY <1>a, <1>c DEF Routed, Served
  <2>2. QED
    BY <1>a, <1>b, <1>c, <1>e, <1>f, <2>1, DomainsKept, EndpointFacts
<1>5. QED
  BY <1>1, <1>2, <1>3, <1>4 DEF IInv

\* A call is dropped half way: its rule is disturbed, a loop that it had aborted
\* ends, and the handles of all other loops are where they were.
LEMMA AbandonInv ==
    ASSUME IInv, NEW a \in Calls, Abandon(a)
    PROVE  IInv'
<1> DEFINE r == call[a].rule
           l == IF call[a].pc = "join" THEN call[a].was ELSE None
<1>a. /\ call[a].pc # "idle" /\ call' = [call EXCEPT ![a] = NoCall]
      /\ disturbed' = [disturbed EXCEPT ![r] = TRUE]
      /\ UNCHANGED <<db, runtime, listeners, routes, shared>>
  BY DEF Abandon, End
<1>b. call[a] \in CallRecords /\ call[a] # NoCall /\ r \in Rules
  BY <1>a, UnderWay
<1>c. NoCall \in CallRecords /\ Handle(NoCall) = None /\ Shape(NoCall)
  BY RecordFacts DEF Shape
<1>d. sock' = [e \in Sockets |-> IF e = l THEN Unloop(sock[e]) ELSE sock[e]]
  BY EndpointFacts DEF Abandon
<1>e. l # None => Handle(call[a]) = l
  BY DEF Handle
<1> HIDE DEF l, r
<1>f. /\ disturbed' \in [Rules -> BOOLEAN] /\ disturbed'[r]
      /\ \A q \in Rules \ {r} : disturbed'[q] <=> disturbed[q]
  <2>1. disturbed \in [Rules -> BOOLEAN] /\ TRUE \in BOOLEAN
    BY Zenon DEF IInv, TypeOK
  <2>2. QED
    BY <1>a, <1>b, <2>1, Zenon
<1>g. Step(a, r, NoCall)
  BY <1>a, <1>f DEF Step, r
<1>1. sock' \in [Sockets -> Uses \cup {None}] /\ HandleSound' /\ LoopSound'
  BY <1>a, <1>b, <1>c, <1>d, <1>e, <1>f, <1>g, LoopEnds
<1>2. TypeOK' /\ OneCall' /\ CallSound'
  <2>1. CallSound'
    BY <1>b, <1>c, <1>g, ShapeStep
  <2>2. QED
    BY <1>a, <1>b, <1>c, <1>f, <1>g, <1>1, <2>1, CallStep DEF IInv, TypeOK
<1>3. RuleSound'
  BY <1>a, <1>b, <1>c, <1>f, <1>g, RuleStep
<1>4. HeldSound'
  BY <1>a, <1>b, <1>c, <1>g, HeldStep DEF Has
<1>5. RouteSound' /\ ReachSound'
  BY <1>a, <1>b, <1>c, <1>f, <1>g, RouteStep
<1>6. QED
  BY <1>1, <1>2, <1>3, <1>4, <1>5 DEF IInv

\* UDP sessions take hold of a socket and let go: its loop is not concerned.
LEMMA SocketInv ==
    ASSUME IInv, NEW e \in Sockets, HoldSocket(e) \/ ReleaseSocket(e)
    PROVE  IInv'
<1> DEFINE u == sock[e]
<1>a. UNCHANGED <<db, runtime, listeners, routes, call, disturbed, shared>>
  BY DEF HoldSocket, ReleaseSocket
<1>b. u \in Uses /\ u # None
  BY DEF HoldSocket, ReleaseSocket, IInv, TypeOK
<1>c. ASSUME NEW b \in BOOLEAN
      PROVE  LET v == [u EXCEPT !.held = b]
             IN  v \in Uses /\ v # None /\ v.rule = u.rule /\ v.loop = u.loop
  <2>1. \A B : b \in B /\ u \in [rule : Rules, loop : B, held : B] =>
            /\ [u EXCEPT !.held = b] \in [rule : Rules, loop : B, held : B]
            /\ [u EXCEPT !.held = b].rule = u.rule /\ [u EXCEPT !.held = b].loop = u.loop
    OBVIOUS
  <2>2. u \in [rule : Rules, loop : BOOLEAN, held : BOOLEAN]
    BY <1>b DEF Uses
  <2>3. [u EXCEPT !.held = b] \in Uses /\ [u EXCEPT !.held = b].rule = u.rule
        /\ [u EXCEPT !.held = b].loop = u.loop
    BY <1>c, <2>1, <2>2, Zenon DEF Uses
  <2>4. QED
    BY <2>3, NoneAssumption
<1>d. TRUE \in BOOLEAN /\ FALSE \in BOOLEAN
  BY Zenon
<1>e. PICK v \in Uses \cup {None} :
         /\ sock' = [sock EXCEPT ![e] = v]
         /\ v # None => v.rule = u.rule /\ v.loop = u.loop
         /\ v = None => ~u.loop
  <2>1. CASE HoldSocket(e)
    <3>1. sock' = [sock EXCEPT ![e] = [u EXCEPT !.held = TRUE]]
      BY <2>1 DEF HoldSocket
    <3>2. QED
      BY <1>c, <1>d, <3>1
  <2>2. CASE ReleaseSocket(e)
    <3>1. sock' = [sock EXCEPT ![e] = IF u.loop THEN [u EXCEPT !.held = FALSE] ELSE None]
      BY <2>2 DEF ReleaseSocket
    <3>2. CASE u.loop
      BY <1>c, <1>d, <3>1, <3>2
    <3>3. CASE ~u.loop
      BY <3>1, <3>3
    <3>4. QED
      BY <3>2, <3>3
  <2>3. QED
    BY <2>1, <2>2
<1>f. \A q \in Rules, x \in Sockets : Serves(q, x)' <=> Serves(q, x)
  BY <1>b, <1>e DEF Serves, IInv, TypeOK
<1>1. TypeOK'
  <2>1. sock' \in [Sockets -> Uses \cup {None}]
    BY <1>e DEF IInv, TypeOK
  <2>2. QED
    BY <1>a, <2>1 DEF IInv, TypeOK
<1>2. \A q : Now(q)' = Now(q)
  BY <1>a DEF Now, Quiet
<1>3. OneCall' /\ CallSound' /\ RuleSound' /\ RouteSound' /\ HeldSound' /\ ReachSound'
  <2>1. OneCall' /\ CallSound'
    BY <1>a DEF IInv, OneCall, CallSound
  <2>2. RuleSound' /\ RouteSound' /\ ReachSound'
    BY <1>a, <1>2 DEF IInv, RuleSound, RouteSound, ReachSound
  <2>3. HeldSound'
    BY <1>a DEF IInv, HeldSound, Has
  <2>4. QED
    BY <2>1, <2>2, <2>3
<1>4. LoopSound'
  BY <1>a, <1>2, <1>f DEF IInv, LoopSound
<1>5. HandleSound'
  <2>1. ASSUME NEW q \in Rules, listeners[q] # None  PROVE Serves(q, listeners[q])'
    <3>1. listeners[q] \in Sockets /\ Serves(q, listeners[q])
      BY <2>1, StateFacts DEF IInv, HandleSound
    <3>2. QED
      BY <1>a, <1>f, <3>1
  <2>2. ASSUME NEW b \in Calls, Handle(call[b]) # None
        PROVE  Serves(call[b].rule, Handle(call[b]))'
    <3>1. Handle(call[b]) \in Sockets /\ Serves(call[b].rule, Handle(call[b]))
      BY <2>2 DEF IInv, HandleSound
    <3>2. call[b] # NoCall /\ call[b] \in CallRecords
      BY <2>2, RecordFacts, StateFacts DEF IInv
    <3>3. call[b].rule \in Rules
      BY <3>2, RecordFacts
    <3>4. QED
      BY <1>a, <1>f, <3>1, <3>3
  <2>3. QED
    BY <1>a, <2>1, <2>2 DEF IInv, HandleSound
<1>6. QED
  BY <1>1, <1>3, <1>4, <1>5 DEF IInv

\* What makes a state with no calls good.
LEMMA AtRest ==
    ASSUME TypeOK, \A a \in Calls : call[a] = NoCall,
           \A r \in Rules : /\ ~disturbed[r] => Rest(db[r], runtime[r], listeners[r])
                            /\ \A e \in Sockets : Serves(r, e) <=> listeners[r] = e,
           \A r \in Rules, d \in Domains :
               /\ routes[d] = r => d \in Dom(db[r])
               /\ ~disturbed[r] /\ d \in Dom(db[r]) /\ d \notin shared => routes[d] = r,
           \A q, r \in Rules, d \in Domains :
               q # r /\ d \in Dom(db[q]) /\ d \in Dom(db[r]) => d \in shared
    PROVE  IInv
<1>1. \A r \in Rules : \A k \in Now(r) : k = NoCall
  BY NowFacts
<1>2. NoCall.pc = "idle" /\ Handle(NoCall) = None
  BY RecordFacts
<1>3. OneCall /\ CallSound
  BY <1>2 DEF OneCall, CallSound, Shape
<1>4. HandleSound
  <2>1. \A r \in Rules : listeners[r] # None => Serves(r, listeners[r])
    BY StateFacts
  <2>2. QED
    BY <1>2, <2>1 DEF HandleSound
<1>5. LoopSound
  BY DEF LoopSound
<1>6. RuleSound
  BY <1>1, <1>2 DEF RuleSound, Fits
<1>7. RouteSound
  BY <1>1, <1>2 DEF RouteSound, Routed
<1>8. HeldSound
  BY DEF HeldSound, Has
<1>9. ReachSound
  BY <1>1 DEF ReachSound
<1>10. QED
  BY <1>3, <1>4, <1>5, <1>6, <1>7, <1>8, <1>9 DEF IInv

LEMMA InitInv == Init => IInv
<1> SUFFICES ASSUME Init PROVE IInv
  OBVIOUS
<1>1. /\ db = [r \in Rules |-> None] /\ runtime = [r \in Rules |-> None]
      /\ sock = [e \in Sockets |-> None] /\ listeners = [r \in Rules |-> None]
      /\ routes = [d \in Domains |-> None] /\ call = [a \in Calls |-> NoCall]
      /\ disturbed = [r \in Rules |-> FALSE] /\ shared = {}
  BY DEF Init
<1>2. TypeOK
  <2>1. disturbed \in [Rules -> BOOLEAN]
    BY <1>1, Zenon
  <2>2. QED
    BY <1>1, <2>1, RecordFacts DEF TypeOK
<1>3. \A r \in Rules : /\ Rest(db[r], runtime[r], listeners[r])
                       /\ \A e \in Sockets : Serves(r, e) <=> listeners[r] = e
  <2>1. None \notin Sockets \cup NoPort
    BY EndpointFacts DEF Endpoints
  <2>2. QED
    BY <1>1, <2>1 DEF Rest, Own, Serves
<1>4. \A r \in Rules, d \in Domains : routes[d] # r /\ d \notin Dom(db[r])
  BY <1>1, NoneAssumption DEF Dom
<1>5. QED
  BY <1>1, <1>2, <1>3, <1>4, AtRest

\* A restart: the state is rebuilt from the database, as far as it can be read.
LEMMA RestartInv ==
    ASSUME TypeOK, Restart
    PROVE  IInv'
<1>0. PICK loaded \in BOOLEAN, started \in BOOLEAN, won \in SUBSET {r \in Rules : db[r] \in Sockets} :
         Rebuild(loaded, started, won)
  BY Zenon DEF Restart
<1>1. /\ \A q, r \in won : db[q] = db[r] => q = r
      /\ sock' = [e \in Sockets |->
                    IF \E r \in won : db[r] = e
                    THEN [rule |-> CHOOSE r \in won : db[r] = e, loop |-> TRUE, held |-> FALSE]
                    ELSE None]
      /\ listeners' = [r \in Rules |-> IF r \in won THEN db[r] ELSE None]
      /\ runtime' = [r \in Rules |->
                       CASE db[r] = None \/ ~loaded -> None
                         [] db[r] # None /\ loaded /\ ~started -> "stopped"
                         [] OTHER -> IF r \in won \/ db[r] \in ByDomain THEN "running" ELSE "error"]
      /\ disturbed' = [r \in Rules |-> db[r] # None /\ ~(loaded /\ started)]
      /\ \/ routes' \in {f \in [Domains -> Rules \cup {None}] :
                           \A d \in Domains :
                              LET wanting == Wanting(d)
                              IN  IF wanting = {} THEN f[d] = None ELSE f[d] \in wanting}
         \/ ~started /\ routes' = [d \in Domains |-> None]
      /\ shared' = {d \in Domains : \E q, r \in Wanting(d) : q # r}
  BY <1>0, Zenon DEF Rebuild
<1> DEFINE at(e) == CHOOSE r \in won : db[r] = e
           use(e) == [rule |-> at(e), loop |-> TRUE, held |-> FALSE]
<1>2. sock' = [e \in Sockets |-> IF \E r \in won : db[r] = e THEN use(e) ELSE None]
  BY <1>1
<1>3. won \subseteq Rules /\ \A r \in won : db[r] \in Sockets
  OBVIOUS
<1>4. ASSUME NEW e \in Sockets, NEW r \in won, db[r] = e
      PROVE  at(e) = r
  <2>1. at(e) \in won /\ db[at(e)] = e
    BY <1>4
  <2>2. QED
    BY <1>1, <1>4, <2>1
<1> HIDE DEF at
<1>5. ASSUME NEW e \in Sockets, NEW r \in won, db[r] = e
      PROVE  use(e) \in Uses /\ use(e) # None /\ use(e).rule = r /\ use(e).loop
  <2>1. at(e) = r /\ r \in Rules
    BY <1>3, <1>4, <1>5
  <2>2. use(e) \in Uses
    BY <2>1, Zenon DEF Uses
  <2>3. QED
    BY <2>1, <2>2, NoneAssumption
<1> HIDE DEF use
<1>6. /\ UNCHANGED db /\ (\A a \in Calls : call'[a] = NoCall)
      /\ call' \in [Calls -> CallRecords]
      /\ shared' = {d \in Domains : \E q, r \in Wanting(d) : q # r}
  BY <1>1, RecordFacts DEF Restart
<1>7. disturbed' \in [Rules -> BOOLEAN]
  BY <1>1, Zenon
<1>17. \A r \in Rules : ~disturbed'[r] /\ db[r] # None => loaded /\ started
  BY <1>1, Zenon
<1>18. /\ routes' \in [Domains -> Rules \cup {None}]
       /\ \A d \in Domains : routes'[d] = None \/ routes'[d] \in Wanting(d)
       /\ started => \A d \in Domains : Wanting(d) # {} => routes'[d] \in Wanting(d)
  BY <1>1
<1>8. \A r \in Rules, e \in Sockets : Serves(r, e)' <=> r \in won /\ db[r] = e
  <2> SUFFICES ASSUME NEW r \in Rules, NEW e \in Sockets
               PROVE  Serves(r, e)' <=> r \in won /\ db[r] = e
    OBVIOUS
  <2>1. CASE \E q \in won : db[q] = e
    <3>1. PICK q \in won : db[q] = e
      BY <2>1
    <3>2. sock'[e] = use(e) /\ use(e) # None /\ use(e).rule = q /\ use(e).loop
      BY <1>2, <1>5, <2>1, <3>1
    <3>3. QED
      BY <1>1, <3>1, <3>2 DEF Serves
  <2>2. CASE ~\E q \in won : db[q] = e
    <3>1. sock'[e] = None
      BY <1>2, <2>2
    <3>2. QED
      BY <2>2, <3>1 DEF Serves
  <2>3. QED
    BY <2>1, <2>2
<1>9. \A r \in Rules :
         /\ listeners'[r] = IF r \in won THEN db[r] ELSE None
         /\ db[r] = None => runtime'[r] = None
         /\ db[r] # None /\ loaded /\ started =>
               /\ r \in won \/ db[r] \in ByDomain => runtime'[r] = "running"
               /\ r \notin won /\ db[r] \notin ByDomain => runtime'[r] = "error"
  BY <1>1
<1>10. None \notin Statuses /\ {"running", "error", "stopped"} \subseteq Statuses
  BY NoneAssumption DEF Statuses
<1>11. TypeOK'
  <2>1. sock' \in [Sockets -> Uses \cup {None}]
    <3>1. ASSUME NEW e \in Sockets
          PROVE  (IF \E r \in won : db[r] = e THEN use(e) ELSE None) \in Uses \cup {None}
      BY <1>5
    <3>2. QED
      BY <1>2, <3>1
  <2>2. listeners' \in [Rules -> Sockets \cup {None}]
    BY <1>1, <1>3
  <2>3. runtime' \in [Rules -> Statuses \cup {None}]
    <3>1. ASSUME NEW r \in Rules
          PROVE  (CASE db[r] = None \/ ~loaded -> None
                    [] db[r] # None /\ loaded /\ ~started -> "stopped"
                    [] OTHER -> IF r \in won \/ db[r] \in ByDomain THEN "running" ELSE "error")
                     \in Statuses \cup {None}
      BY <1>10
    <3>2. QED
      BY <1>1, <3>1
  <2>4. QED
    BY <1>6, <1>7, <1>18, <2>1, <2>2, <2>3 DEF TypeOK
<1>12. ASSUME NEW r \in Rules
       PROVE  /\ ~disturbed'[r] => Rest(db[r], runtime'[r], listeners'[r])
              /\ \A e \in Sockets : Serves(r, e)' <=> listeners'[r] = e
  <2>1. \A e \in Sockets : Serves(r, e)' <=> listeners'[r] = e
    BY <1>8, <1>9, EndpointFacts
  <2>2. r \in won => db[r] \in Sockets /\ db[r] # None
    BY <1>3, EndpointFacts
  <2>3. Own(listeners'[r], db[r]) /\ (listeners'[r] # None <=> r \in won)
    BY <1>9, <2>2 DEF Own
  <2>4. ASSUME ~disturbed'[r]  PROVE Rest(db[r], runtime'[r], listeners'[r])
    <3>1. runtime'[r] = None <=> db[r] = None
      BY <1>9, <1>10, <1>17, <2>4
    <3>2. db[r] \in Sockets \cup NoPort => /\ runtime'[r] \in {"running", "error"}
                                           /\ runtime'[r] = "running" <=> r \in won
      <4>1. db[r] \in Sockets \cup NoPort => db[r] # None /\ db[r] \notin ByDomain
        BY EndpointFacts DEF Endpoints
      <4>2. QED
        BY <1>9, <1>17, <2>4, <4>1
    <3>3. QED
      BY <2>3, <3>1, <3>2 DEF Rest
  <2>5. QED
    BY <2>1, <2>4
<1>13. \A r \in Rules, d \in Domains : r \in Wanting(d) <=> d \in Dom(db[r])
  BY DEF Wanting, Dom
<1>14. \A q, r \in Rules, d \in Domains :
           q # r /\ d \in Dom(db[q]) /\ d \in Dom(db[r]) => d \in shared'
  BY <1>6, <1>13
<1>15. \A r \in Rules, d \in Domains :
           /\ routes'[d] = r => d \in Dom(db[r])
           /\ ~disturbed'[r] /\ d \in Dom(db[r]) /\ d \notin shared' => routes'[d] = r
  <2> SUFFICES ASSUME NEW r \in Rules, NEW d \in Domains
               PROVE  /\ routes'[d] = r => d \in Dom(db[r])
                      /\ ~disturbed'[r] /\ d \in Dom(db[r]) /\ d \notin shared' => routes'[d] = r
    OBVIOUS
  <2>1. routes'[d] = r => d \in Dom(db[r])
    BY <1>13, <1>18, NoneAssumption
  <2>2. ASSUME ~disturbed'[r], d \in Dom(db[r])
        PROVE  routes'[d] \in Wanting(d) /\ routes'[d] \in Rules
    <3>1. db[r] # None
      BY <2>2, EndpointFacts
    <3>2. QED
      BY <1>13, <1>17, <1>18, <2>2, <3>1 DEF Wanting
  <2>3. QED
    BY <1>13, <1>14, <2>1, <2>2
<1>16. QED
  <2>1. \A r \in Rules : /\ (~disturbed[r] => Rest(db[r], runtime[r], listeners[r]))'
                         /\ \A e \in Sockets : Serves(r, e)' <=> listeners'[r] = e
    BY <1>6, <1>12
  <2>2. (/\ TypeOK
         /\ \A a \in Calls : call[a] = NoCall
         /\ \A r \in Rules : /\ ~disturbed[r] => Rest(db[r], runtime[r], listeners[r])
                             /\ \A e \in Sockets : Serves(r, e) <=> listeners[r] = e
         /\ \A r \in Rules, d \in Domains :
               /\ routes[d] = r => d \in Dom(db[r])
               /\ ~disturbed[r] /\ d \in Dom(db[r]) /\ d \notin shared => routes[d] = r
         /\ \A q, r \in Rules, d \in Domains :
               q # r /\ d \in Dom(db[q]) /\ d \in Dom(db[r]) => d \in shared)'
    BY <1>6, <1>11, <1>14, <1>15, <2>1
  <2>3. QED
    BY <2>2, AtRest, PTL

LEMMA NextInv == IInv /\ [Next]_vars => IInv'
<1> SUFFICES ASSUME IInv, [Next]_vars PROVE IInv'
  OBVIOUS
<1>1. ASSUME NEW a \in Calls, create_proxy(a)  PROVE IInv'
  <2>1. PICK r \in Rules, e \in Sockets \cup ByDomain :
           runtime[r] = None /\ Begin(a, r, "insert", None, e)
    BY <1>1 DEF create_proxy
  <2>2. e \in Endpoints /\ e # None /\ UNCHANGED <<db, runtime, sock, listeners, routes, shared>>
    BY <1>1, EndpointFacts DEF create_proxy
  <2>3. QED
    BY <2>1, <2>2, BeginInv
<1>2. ASSUME NEW a \in Calls, update_proxy(a)  PROVE IInv'
  <2>1. PICK r \in Rules, e \in Endpoints : db[r] # None /\ Begin(a, r, "update", db[r], e)
    BY <1>2 DEF update_proxy
  <2>2. /\ e # None /\ db[r] \in Endpoints \cup {None}
        /\ UNCHANGED <<db, runtime, sock, listeners, routes, shared>>
    BY <1>2, EndpointFacts, StateFacts DEF update_proxy, IInv
  <2>3. QED
    BY <2>1, <2>2, BeginInv
<1>3. ASSUME NEW a \in Calls, delete_proxy(a)  PROVE IInv'
  <2>1. PICK r \in Rules : db[r] # None /\ Begin(a, r, "delete", db[r], None)
    BY <1>3 DEF delete_proxy
  <2>2. /\ db[r] \in Endpoints \cup {None}
        /\ UNCHANGED <<db, runtime, sock, listeners, routes, shared>>
    BY <1>3, StateFacts DEF delete_proxy, IInv
  <2>3. QED
    BY <2>1, <2>2, BeginInv
<1>4. ASSUME NEW a \in Calls, InsertRow(a) \/ UpdateRow(a) \/ DeleteRow(a)  PROVE IInv'
  BY <1>4, RowInv
<1>5. ASSUME NEW a \in Calls, InsertRuntime(a) \/ RemoveRuntime(a) \/ FinishStart(a) \/ FinishStop(a)
      PROVE  IInv'
  BY <1>5, RuntimeInv, FinishStartInv, FinishStopInv
<1>6. ASSUME NEW a \in Calls, Start(a)  PROVE IInv'
  <2>1. call[a].rule \in Rules
    BY <1>6, UnderWay DEF Start
  <2>2. BindPort(a) \/ BindFails(a) \/ AddRoutes(a)
    BY <1>6 DEF Start
  <2>3. QED
    BY <1>6, <2>1, <2>2, BindPortInv, BindFailsInv, AddRoutesInv
<1>12. ASSUME NEW a \in Calls, Abandon(a)  PROVE IInv'
  BY <1>12, AbandonInv
<1>7. ASSUME NEW a \in Calls, InsertHandle(a) \/ Stop(a) \/ Join(a)  PROVE IInv'
  <2>1. call[a].rule \in Rules
    BY <1>7, UnderWay DEF InsertHandle, Stop, Join
  <2>2. QED
    BY <1>7, <2>1, InsertHandleInv, StopRoutesInv, StopListenerInv, JoinInv
<1>8. ASSUME NEW e \in Sockets, HoldSocket(e) \/ ReleaseSocket(e)  PROVE IInv'
  BY <1>8, SocketInv
<1>9. CASE Restart
  BY <1>9, RestartInv DEF IInv
<1>10. CASE UNCHANGED vars
  BY <1>10 DEF vars, IInv, TypeOK, OneCall, CallSound, HandleSound, LoopSound, RuleSound, RouteSound,
               HeldSound, ReachSound, Now, Quiet, Serves, Has
<1>11. QED
  BY <1>1, <1>2, <1>3, <1>4, <1>5, <1>6, <1>7, <1>8, <1>9, <1>10, <1>12 DEF Next

-----------------------------------------------------------------------------
(* The theorems *)

\* The tables, sockets, handles and routes fit the calls in every reachable
\* state.
THEOREM Invariance == Spec => []IInv
  BY InitInv, NextInv, PTL DEF Spec

\* The tables hold what their types allow, for any number of rules and calls;
\* no handle is kept for port 0.
THEOREM TypeCorrect == Spec => []TypeOK
<1>1. IInv => TypeOK
  BY DEF IInv
<1>2. QED
  BY Invariance, <1>1, PTL

\* A settled rule is as a call left it.
LEMMA SettledRest ==
    ASSUME IInv, NEW r \in Rules, Settled(r)
    PROVE  /\ Rest(db[r], runtime[r], listeners[r])
           /\ listeners[r] # None => Serves(r, listeners[r])
           /\ \A e \in Sockets : Serves(r, e) => listeners[r] = e
           /\ \A d \in Domains : routes[d] = r => d \in Dom(db[r])
           /\ \A d \in Domains : d \in Dom(db[r]) /\ d \notin shared => routes[d] = r
<1>1. NoCall \in Now(r) /\ ~disturbed[r]
  BY NowFacts DEF IInv, Settled
<1>2. NoCall.pc = "idle" /\ Handle(NoCall) = None
  BY RecordFacts
<1>3. Rest(db[r], runtime[r], listeners[r])
  BY <1>1, <1>2 DEF IInv, RuleSound, Fits
<1>4. \A e \in Sockets : Serves(r, e) => listeners[r] = e
  BY <1>1, <1>2, EndpointFacts DEF IInv, LoopSound
<1>5. \A d \in Domains : routes[d] = r => d \in Dom(db[r])
  BY <1>1, <1>2 DEF IInv, RouteSound, Routed
<1>6. \A d \in Domains : d \in Dom(db[r]) /\ d \notin shared => routes[d] = r
  BY <1>1, <1>2 DEF IInv, ReachSound
<1>7. QED
  BY <1>3, <1>4, <1>5, <1>6 DEF IInv, HandleSound

\* The status the panel shows of a settled rule is the truth, whatever bind or
\* write failed while its API call stopped and started its listener.  Settled
\* leaves out the rules whose calls overlapped or were abandoned, and those the
\* server could not read at its start.
THEOREM StatusCorrect == Spec => []StatusTrue
<1>1. ASSUME IInv  PROVE StatusTrue
  <2> SUFFICES ASSUME NEW r \in Rules, Settled(r), db[r] \in Sockets \cup NoPort
               PROVE  /\ runtime[r] \in {"running", "error"}
                      /\ runtime[r] = "running" <=>
                            db[r] \in Sockets /\ Serves(r, db[r]) /\ listeners[r] = db[r]
    BY DEF StatusTrue
  <2>1. /\ Rest(db[r], runtime[r], listeners[r]) /\ (listeners[r] # None => Serves(r, listeners[r]))
    BY <1>1, SettledRest
  <2>2. QED
    BY <2>1, EndpointFacts DEF Rest, Own
<1>2. QED
  BY Invariance, <1>1, PTL

\* No loop, runtime state or route of a settled rule is left over from earlier
\* settings: no port stays bound and no name stays blocked.  Settled leaves out
\* the disturbed rules, as above.
THEOREM NothingRemains == Spec => []NothingLeftBehind
<1>1. ASSUME IInv  PROVE NothingLeftBehind
  <2> SUFFICES ASSUME NEW r \in Rules, Settled(r)
               PROVE  /\ \A e \in Sockets : Serves(r, e) => db[r] = e
                      /\ runtime[r] = None <=> db[r] = None
                      /\ \A d \in Domains : routes[d] = r => r \in Wanting(d)
    BY DEF NothingLeftBehind
  <2>1. /\ Rest(db[r], runtime[r], listeners[r])
        /\ \A e \in Sockets : Serves(r, e) => listeners[r] = e
        /\ \A d \in Domains : routes[d] = r => d \in Dom(db[r])
    BY <1>1, SettledRest
  <2>2. \A e \in Sockets : Serves(r, e) => db[r] = e
    BY <2>1, EndpointFacts DEF Rest, Own
  <2>3. \A d \in Domains : d \in Dom(db[r]) => r \in Wanting(d)
    BY DEF Dom, Wanting
  <2>4. QED
    BY <2>1, <2>2, <2>3 DEF Rest
<1>2. QED
  BY Invariance, <1>1, PTL

\* A domain that two rules have not had at once leads to its settled rule, however the
\* calls on other rules add and remove routes.
THEOREM RoutesCorrect == Spec => []RouteTrue
<1>1. ASSUME IInv  PROVE RouteTrue
  BY <1>1, SettledRest DEF RouteTrue, Wanting, Dom
<1>2. QED
  BY Invariance, <1>1, PTL
===============================================================================
