---------------------------- MODULE BridgeProofs ----------------------------
(***************************************************************************)
(* Proofs about Bridge, for any number of chunks and any room in the work  *)
(* connection.                                                             *)
(*                                                                         *)
(* IInv is inductive.  It accounts for every chunk a loop has read off its *)
(* stream: written at the other side, in the hands of the loop there, on   *)
(* the wire, or in the hands of the loop that sends it, in this order; and *)
(* for the empty frame: it is the last frame, its sender is gone, and what *)
(* precedes it is all that the application sent.  StreamsSound says that a *)
(* stream is open as long as its loop runs, and CausesSound why it ended:  *)
(* unless something broke, the other end was told so by the empty frame or *)
(* some of what it sent in turn has been lost.                             *)
(***************************************************************************)
EXTENDS Bridge, SequenceTheorems, TLAPS

\* Chunks that have reached end e: written to its application, or in hand.
Received(e) == IF pc[e] = "write" THEN Len(out[e]) + 1 ELSE Len(out[e])

\* What an application was given are the other's first chunks in order, and
\* the chunk in hand is the next.
OutSound(e) ==
    /\ \A i \in 1 .. Len(out[e]) : out[e][i] = i
    /\ pc[e] = "write" => hand[e] = Len(out[e]) + 1
    /\ Received(e) <= taken[Peer(e)]

\* After n chunks there are no more: the application at end e has closed its
\* stream and has been read to the end, or there never was one.
Complete(e, n) ==
    \/ n = taken[e] /\ taken[e] = sent[e] /\ eof[e]
    \/ e = "client" /\ refused /\ n = 0

\* The frames on their way from e follow what the peer has received; only the
\* last may be the empty one, and then it comes after everything else.
WireSound(e) ==
    \A i \in 1 .. Len(wire[e]) :
        \/ wire[e][i] = Received(Peer(e)) + i /\ wire[e][i] <= taken[e]
        \/ /\ wire[e][i] = Empty /\ i = Len(wire[e]) /\ pc[e] = "gone"
           /\ Complete(e, Received(Peer(e)) + i - 1)

\* The frame a loop is sending is the last chunk it has read, or the empty one
\* and there is no chunk left to read.
SendSound(e) ==
    /\ pc[e] = "connect" => e = "client" /\ taken[e] = 0
    /\ pc[e] = "send" => IF hand[e] = Empty THEN Complete(e, taken[e]) ELSE hand[e] = taken[e]
    /\ e = "client" /\ refused => pc[e] \in {"send", "gone"} /\ taken[e] = 0

\* While both loops run, nothing is missing: what e has read is received, on
\* the wire or being sent.  A loop that is gone receives nothing any more.
Accounted(e) ==
    IF pc[Peer(e)] = "gone"
    THEN wire[e] = <<>>
    ELSE pc[e] # "gone" =>
           taken[e] = Received(Peer(e)) + Len(wire[e])
                      + (IF pc[e] = "send" /\ hand[e] # Empty THEN 1 ELSE 0)

EndSound(e) ==
    OutSound(e) /\ WireSound(e) /\ SendSound(e) /\ Accounted(e)

\* The inductive invariant.
IInv == TypeOK /\ \A e \in Ends : EndSound(e)

-----------------------------------------------------------------------------
\* The two ends.
LEMMA PeerFacts ==
    ASSUME NEW e \in Ends
    PROVE  /\ Peer(e) \in Ends /\ Peer(e) # e /\ Peer(Peer(e)) = e
           /\ \A d \in Ends : d = e \/ d = Peer(e)
  BY DEF Ends, Peer

\* Lengths are numbers, and frames are numbers of chunks or 0.
LEMMA Lengths ==
    ASSUME TypeOK, NEW e \in Ends
    PROVE  /\ wire[e] \in Seq(Frames) /\ out[e] \in Seq(Frames)
           /\ Len(wire[e]) \in Nat /\ Len(out[e]) \in Nat /\ Received(e) \in Nat
           /\ \A i \in 1 .. Len(wire[e]) : wire[e][i] \in Nat
           /\ taken[e] \in Nat /\ sent[e] \in Nat /\ hand[e] \in Nat
           /\ Chunks \in Nat /\ Room \in Nat
<1>1. wire[e] \in Seq(Frames) /\ out[e] \in Seq(Frames)
  BY DEF TypeOK
<1>2. /\ Len(wire[e]) \in Nat /\ Len(out[e]) \in Nat
      /\ \A i \in 1 .. Len(wire[e]) : wire[e][i] \in Frames
  BY <1>1, LenProperties, ElementOfSeq
<1>3. QED
  BY <1>1, <1>2, BoundsAssumption DEF TypeOK, Received, Frames

\* One chunk moves from the wire to the hand.
LEMMA Shift ==
    /\ \A a, i \in Nat : a + (i + 1) = a + 1 + i
    /\ \A a, n, x \in Nat : a + n + x = a + 1 + (n - 1) + x
  OBVIOUS

\* What must be shown of a step at e: the type, and EndSound at both ends.
LEMMA BothEnds ==
    ASSUME NEW e \in Ends, TypeOK', EndSound(e)', EndSound(Peer(e))'
    PROVE  IInv'
  BY PeerFacts DEF IInv

\* An application sends another chunk, or closes its stream.
LEMMA ApplicationInv ==
    ASSUME IInv, NEW e \in Ends, Submit(e) \/ CloseStream(e)
    PROVE  IInv'
<1>a. UNCHANGED <<taken, wire, out, shut, pc, hand, refused, broke>>
  BY DEF Submit, CloseStream
<1>1. TypeOK'
  <2>1. sent' \in [Ends -> Frames]
    <3>1. CASE sent' = sent
      BY <3>1 DEF TypeOK, IInv
    <3>2. CASE Submit(e)
      <4>1. sent[e] + 1 \in Frames
        BY <3>2, BoundsAssumption DEF Submit, TypeOK, IInv, Frames
      <4>2. QED
        BY <3>2, <4>1 DEF Submit, TypeOK, IInv
    <3>3. QED
      BY <3>1, <3>2 DEF CloseStream
  <2>2. eof' \in [Ends -> BOOLEAN]
    <3>1. CASE eof' = eof
      BY <3>1 DEF TypeOK, IInv
    <3>2. CASE eof' = [eof EXCEPT ![e] = TRUE]
      BY <3>2, Zenon DEF TypeOK, IInv
    <3>3. QED
      BY <3>1, <3>2 DEF Submit, CloseStream
  <2>3. QED
    BY <1>a, <2>1, <2>2 DEF TypeOK, IInv
<1>2. \A d \in Ends, n \in Nat : Complete(d, n) => Complete(d, n)'
  BY DEF Submit, CloseStream, Complete, IInv, TypeOK
<1>3. ASSUME NEW d \in Ends  PROVE EndSound(d)'
  <2>1. Peer(d) \in Ends /\ EndSound(d)
    BY PeerFacts DEF IInv
  <2>2. OutSound(d)' /\ Accounted(d)'
    BY <1>a, <2>1 DEF EndSound, OutSound, Accounted, Received
  <2>3. WireSound(d)'
    <3> SUFFICES ASSUME NEW i \in 1 .. Len(wire[d])
                 PROVE \/ wire[d][i] = Received(Peer(d)) + i /\ wire[d][i] <= taken[d]
                       \/ /\ wire[d][i] = Empty /\ i = Len(wire[d]) /\ pc[d] = "gone"
                          /\ Complete(d, Received(Peer(d)) + i - 1)'
      BY <1>a DEF WireSound, Received
    <3>1. Received(Peer(d)) + i - 1 \in Nat
      BY <2>1, Lengths DEF IInv
    <3>2. Complete(d, Received(Peer(d)) + i - 1) => Complete(d, Received(Peer(d)) + i - 1)'
      BY <1>a, <1>2, <3>1 DEF Complete, Received
    <3>3. QED
      BY <2>1, <3>2 DEF EndSound, WireSound
  <2>4. SendSound(d)'
    BY <1>a, <1>2, <2>1, Lengths DEF IInv, EndSound, SendSound, Complete
  <2>5. QED
    BY <2>2, <2>3, <2>4 DEF EndSound
<1>4. QED
  BY <1>1, <1>3 DEF IInv

\* The client reaches the local service, or has an empty frame to send.
LEMMA ConnectLocalInv ==
    ASSUME IInv, NEW e \in Ends, ConnectLocal(e)
    PROVE  IInv'
<1> DEFINE p == Peer(e)
<1>p. p \in Ends /\ p # e /\ Peer(p) = e /\ EndSound(e) /\ EndSound(p)
  BY PeerFacts DEF IInv
<1>t. TypeOK /\ Len(out[e]) \in Nat /\ Len(out[p]) \in Nat
  BY <1>p, Lengths DEF IInv
<1>a. /\ e = "client" /\ taken[e] = 0 /\ pc[e] = "connect" /\ refused # TRUE
      /\ UNCHANGED <<sent, eof, taken, wire, out, shut, broke>>
      /\ pc'[p] = pc[p] /\ hand'[p] = hand[p]
      /\ \/ pc'[e] = "select" /\ refused' = refused
         \/ pc'[e] = "send" /\ refused' = TRUE /\ hand'[e] = Empty
  BY <1>p, <1>t DEF ConnectLocal, EndSound, SendSound, TypeOK
<1>b. p = "server"
  BY <1>a, <1>p DEF Ends
<1>1. TypeOK'
  <2>1. pc' \in [Ends -> PcStates] /\ hand' \in [Ends -> Frames]
    <3>1. \E x \in {"select", "send"} : pc' = [pc EXCEPT ![e] = x]
      BY DEF ConnectLocal
    <3>2. hand' = hand \/ hand' = [hand EXCEPT ![e] = Empty]
      BY DEF ConnectLocal
    <3>3. Empty \in Frames
      BY BoundsAssumption DEF Empty, Frames
    <3>4. QED
      BY <1>t, <3>1, <3>2, <3>3 DEF TypeOK, PcStates
  <2>2. refused' \in BOOLEAN
    BY <1>a, <1>t, Zenon DEF TypeOK
  <2>3. QED
    BY <1>a, <1>t, <2>1, <2>2 DEF TypeOK
<1>r. Received(e)' = Received(e) /\ Received(p)' = Received(p)
  BY <1>a DEF Received
<1>2. EndSound(e)'
  <2>1. OutSound(e)' /\ Accounted(e)'
    BY <1>a, <1>p, <1>r DEF EndSound, OutSound, Accounted, Empty
  <2>2. WireSound(e)'
    BY <1>a, <1>p, <1>r DEF EndSound, WireSound
  <2>3. SendSound(e)'
    BY <1>a, <1>p DEF EndSound, SendSound, Complete
  <2>4. QED
    BY <2>1, <2>2, <2>3 DEF EndSound
<1>3. EndSound(p)'
  <2>1. OutSound(p)' /\ Accounted(p)'
    BY <1>a, <1>p, <1>r DEF EndSound, OutSound, Accounted
  <2>2. WireSound(p)' /\ SendSound(p)'
    BY <1>a, <1>b, <1>p, <1>r DEF EndSound, WireSound, SendSound, Complete
  <2>3. QED
    BY <2>1, <2>2 DEF EndSound
<1>4. QED
  BY <1>1, <1>2, <1>3, BothEnds

\* stream.read: the chunk in hand is the last one read, and when there is none
\* left and the stream is closed, the empty frame is next.
LEMMA ReadInv ==
    ASSUME IInv, NEW e \in Ends, ReadChunk(e) \/ ReadEof(e)
    PROVE  IInv'
<1> DEFINE p == Peer(e)
<1>p. p \in Ends /\ p # e /\ Peer(p) = e /\ EndSound(e) /\ EndSound(p)
  BY PeerFacts DEF IInv
<1>t. /\ TypeOK /\ Len(out[e]) \in Nat /\ Len(out[p]) \in Nat
      /\ taken[e] \in Nat /\ sent[e] \in Nat /\ taken[p] \in Nat
      /\ Received(p) \in Nat /\ Len(wire[e]) \in Nat
      /\ \A i \in 1 .. Len(wire[e]) : wire[e][i] \in Nat
  BY <1>p, Lengths DEF IInv
<1>a. /\ pc[e] = "select" /\ pc'[e] = "send"
      /\ UNCHANGED <<sent, eof, wire, out, shut, refused, broke>>
      /\ pc'[p] = pc[p] /\ hand'[p] = hand[p] /\ taken'[p] = taken[p]
      /\ \/ /\ taken'[e] = taken[e] + 1 /\ hand'[e] = taken[e] + 1 /\ taken[e] < sent[e]
         \/ /\ taken'[e] = taken[e] /\ hand'[e] = Empty /\ taken[e] = sent[e] /\ eof[e]
  BY <1>p, <1>t DEF ReadChunk, ReadEof, TypeOK
<1>1. TypeOK'
  <2>1. pc' \in [Ends -> PcStates]
    BY <1>t DEF ReadChunk, ReadEof, TypeOK, PcStates
  <2>2. taken[e] < sent[e] => taken[e] + 1 \in Frames
    BY <1>t, BoundsAssumption DEF TypeOK, Frames
  <2>3. Empty \in Frames
    BY BoundsAssumption DEF Empty, Frames
  <2>4. taken' \in [Ends -> Frames] /\ hand' \in [Ends -> Frames]
    <3>1. CASE ReadChunk(e)
      BY <1>t, <2>2, <3>1 DEF ReadChunk, TypeOK
    <3>2. CASE ReadEof(e)
      BY <1>t, <2>3, <3>2 DEF ReadEof, TypeOK
    <3>3. QED
      BY <3>1, <3>2
  <2>5. QED
    BY <1>a, <1>t, <2>1, <2>4 DEF TypeOK
<1>r. Received(e)' = Received(e) /\ Received(p)' = Received(p)
  BY <1>a DEF Received
<1>n. e = "client" => ~refused
  BY <1>a, <1>p DEF EndSound, SendSound
<1>2. EndSound(e)'
  <2>1. OutSound(e)'
    BY <1>a, <1>p, <1>r DEF EndSound, OutSound, Complete
  <2>2. WireSound(e)'
    BY <1>a, <1>p, <1>r, <1>t DEF EndSound, WireSound
  <2>3. SendSound(e)'
    BY <1>a, <1>n, <1>p, <1>t DEF EndSound, SendSound, Complete, Empty
  <2>4. Accounted(e)'
    BY <1>a, <1>p, <1>r, <1>t DEF EndSound, Accounted, Empty
  <2>5. QED
    BY <2>1, <2>2, <2>3, <2>4 DEF EndSound
<1>3. EndSound(p)'
  <2>1. OutSound(p)'
    BY <1>a, <1>p, <1>r, <1>t DEF EndSound, OutSound
  <2>2. Accounted(p)'
    BY <1>a, <1>p, <1>r DEF EndSound, Accounted
  <2>3. WireSound(p)' /\ SendSound(p)'
    BY <1>a, <1>p, <1>r DEF EndSound, WireSound, SendSound, Complete
  <2>4. QED
    BY <2>1, <2>2, <2>3 DEF EndSound
<1>4. QED
  BY <1>1, <1>2, <1>3, BothEnds

\* A loop that is left: w is what it had on the wire, of which the first n
\* frames are delivered; what was on its way to it is lost.
LEMMA LeaveInv ==
    ASSUME IInv, NEW e \in Ends, NEW w \in Seq(Frames), NEW n \in 0 .. Len(w),
           pc[e] \notin {"connect", "gone"},
           pc' = [pc EXCEPT ![e] = "gone"],
           wire' = [wire EXCEPT ![e] = SubSeq(w, 1, n), ![Peer(e)] = <<>>],
           NEW how \in {"fin", "reset"}, shut' = [shut EXCEPT ![e] = how],
           UNCHANGED <<sent, eof, taken, out, hand, refused>>, broke' \in BOOLEAN,
           Len(w) <= Room,
           pc[Peer(e)] = "gone" => w = <<>>,
           \A i \in 1 .. Len(w) :
               \/ w[i] = Received(Peer(e)) + i /\ w[i] <= taken[e]
               \/ w[i] = Empty /\ i = Len(w) /\ Complete(e, Received(Peer(e)) + i - 1)
    PROVE  IInv'
<1> DEFINE p == Peer(e)
<1>p. p \in Ends /\ p # e /\ Peer(p) = e /\ EndSound(e) /\ EndSound(p)
  BY PeerFacts DEF IInv
<1>t. /\ TypeOK /\ Len(out[e]) \in Nat /\ Len(out[p]) \in Nat
      /\ taken[e] \in Nat /\ taken[p] \in Nat /\ Room \in Nat
  BY <1>p, Lengths DEF IInv
<1> DEFINE v == SubSeq(w, 1, n)
           none == <<>>
<1>w. /\ v \in Seq(Frames) /\ Len(v) = n
      /\ \A i \in 1 .. n : v[i] = w[i]
      /\ Len(w) \in Nat /\ n \in Nat /\ n <= Len(w)
      /\ none \in Seq(Frames) /\ Len(none) = 0
  BY LenProperties, SubSeqProperties, EmptySeq
<1>v. w = none => v = none
  BY <1>w, EmptySeq
<1>s. wire' = [wire EXCEPT ![e] = v, ![p] = none]
  OBVIOUS
<1> HIDE DEF v, none
<1>a. /\ pc'[e] = "gone" /\ pc'[p] = pc[p]
      /\ wire'[e] = v /\ wire'[p] = none
      /\ shut'[e] = how /\ shut'[p] = shut[p]
  BY <1>p, <1>s, <1>t DEF TypeOK
<1>1. TypeOK'
  <2>1. pc' \in [Ends -> PcStates] /\ shut' \in [Ends -> {"open", "fin", "reset"}]
    BY <1>t DEF TypeOK, PcStates
  <2>2. wire' \in [Ends -> Seq(Frames)]
    BY <1>p, <1>s, <1>t, <1>w DEF TypeOK
  <2>3. Len(wire'[e]) <= Room /\ Len(wire'[p]) <= Room
    BY <1>a, <1>t, <1>w
  <2>4. \A d \in Ends : Len(wire'[d]) <= Room
    BY <2>3, PeerFacts
  <2>5. QED
    BY <1>t, <2>1, <2>2, <2>4 DEF TypeOK
<1>r. /\ Received(e)' <= Received(e) /\ Received(e)' \in Nat /\ Received(e) \in Nat
      /\ Received(p)' = Received(p)
  <2>1. UNCHANGED out
    OBVIOUS
  <2>2. QED
    BY <1>a, <1>t, <2>1 DEF Received
<1>2. EndSound(e)'
  <2>1. OutSound(e)'
    BY <1>a, <1>p, <1>r, <1>t DEF EndSound, OutSound
  <2>2. WireSound(e)'
    <3>1. UNCHANGED <<taken, sent, eof, refused>>
      OBVIOUS
    <3>2. \A i \in 1 .. n : i \in 1 .. Len(w) /\ (i = Len(w) => i = n)
      BY <1>w
    <3>3. QED
      BY <1>a, <1>r, <1>w, <3>1, <3>2 DEF WireSound, Complete
  <2>3. SendSound(e)'
    BY <1>a, <1>p DEF EndSound, SendSound
  <2>4. Accounted(e)'
    BY <1>a, <1>v DEF Accounted, none
  <2>5. QED
    BY <2>1, <2>2, <2>3, <2>4 DEF EndSound
<1>3. EndSound(p)'
  <2>1. OutSound(p)'
    BY <1>a, <1>p, <1>r DEF EndSound, OutSound
  <2>2. Accounted(p)' /\ WireSound(p)'
    <3>1. Accounted(p)'
      BY <1>a, <1>p DEF Accounted, none
    <3>2. \A i \in 1 .. Len(none) : FALSE
      BY <1>w
    <3>3. QED
      BY <1>a, <3>1, <3>2 DEF WireSound
  <2>3. SendSound(p)'
    BY <1>a, <1>p DEF EndSound, SendSound, Complete
  <2>4. QED
    BY <2>1, <2>2, <2>3 DEF EndSound
<1>4. QED
  BY <1>1, <1>2, <1>3, BothEnds

\* A loop that is left with nothing added to what it had on the wire.
LEMMA DropInv ==
    ASSUME IInv, NEW e \in Ends, SendFails(e) \/ WireEnds(e) \/ Fails(e)
    PROVE  IInv'
<1>1. /\ wire[e] \in Seq(Frames) /\ Len(wire[e]) \in Nat /\ Len(wire[e]) <= Room
      /\ Peer(e) \in Ends /\ EndSound(e)
  BY Lengths, PeerFacts DEF IInv, TypeOK
<1>2. pc[e] \in {"select", "send", "write"}
  BY DEF SendFails, WireEnds, Fails
<1>3. PICK n \in 0 .. Len(wire[e]) :
         wire' = [wire EXCEPT ![e] = SubSeq(wire[e], 1, n), ![Peer(e)] = <<>>]
  BY <1>1 DEF SendFails, WireEnds, Fails, Leave
<1>4. /\ pc' = [pc EXCEPT ![e] = "gone"]
      /\ UNCHANGED <<sent, eof, taken, out, hand, refused>>
  BY DEF SendFails, WireEnds, Fails, Leave
<1>h. PICK how \in {"fin", "reset"} : shut' = [shut EXCEPT ![e] = how]
  BY DEF SendFails, WireEnds, Fails, Leave, Dropped
<1>b. broke' \in BOOLEAN
  BY Zenon DEF SendFails, WireEnds, Fails, IInv, TypeOK
<1>5. pc[Peer(e)] = "gone" => wire[e] = <<>>
  BY <1>1 DEF EndSound, Accounted
<1>6. \A i \in 1 .. Len(wire[e]) : wire[e][i] = Received(Peer(e)) + i /\ wire[e][i] <= taken[e]
  BY <1>1, <1>2 DEF EndSound, WireSound
<1>7. QED
  BY <1>1, <1>2, <1>3, <1>4, <1>h, <1>b, <1>5, <1>6, LeaveInv

\* framed.send: a chunk goes behind the others; the empty frame is the last.
LEMMA SendFrameInv ==
    ASSUME IInv, NEW e \in Ends, SendFrame(e)
    PROVE  IInv'
<1> DEFINE p == Peer(e)
<1> DEFINE w == Append(wire[e], hand[e])
<1>p. p \in Ends /\ p # e /\ Peer(p) = e /\ EndSound(e) /\ EndSound(p)
  BY PeerFacts DEF IInv
<1>t. /\ TypeOK /\ Len(out[e]) \in Nat /\ Len(out[p]) \in Nat
      /\ wire[e] \in Seq(Frames) /\ Len(wire[e]) \in Nat /\ Received(p) \in Nat
      /\ taken[e] \in Nat /\ taken[p] \in Nat /\ Room \in Nat /\ hand[e] \in Frames
  BY <1>p, Lengths DEF IInv, TypeOK
<1>w. /\ w \in Seq(Frames) /\ Len(w) = Len(wire[e]) + 1
      /\ w[Len(wire[e]) + 1] = hand[e]
      /\ \A i \in 1 .. Len(wire[e]) : w[i] = wire[e][i]
  BY <1>t, AppendProperties
<1>a. /\ pc[e] = "send" /\ pc[p] # "gone" /\ Len(wire[e]) < Room
      /\ UNCHANGED <<sent, eof, taken, out, hand, refused, broke>>
  BY DEF SendFrame
<1>b. \A i \in 1 .. Len(wire[e]) : w[i] = Received(p) + i /\ w[i] <= taken[e]
  BY <1>a, <1>p, <1>w DEF EndSound, WireSound
<1>c. \A i \in 1 .. Len(w) : i \in 1 .. Len(wire[e]) \/ i = Len(wire[e]) + 1
  BY <1>t, <1>w
<1> HIDE DEF w
<1>1. CASE hand[e] = Empty
  <2>1. Len(w) <= Room
    BY <1>a, <1>t, <1>w
  <2>2. Complete(e, taken[e]) /\ taken[e] = Received(p) + Len(wire[e])
    BY <1>1, <1>a, <1>p, <1>t DEF EndSound, SendSound, Accounted
  <2>3. \A i \in 1 .. Len(w) :
            \/ w[i] = Received(p) + i /\ w[i] <= taken[e]
            \/ w[i] = Empty /\ i = Len(w) /\ Complete(e, Received(p) + i - 1)
    <3>1. Received(p) + Len(w) - 1 = taken[e]
      BY <1>t, <1>w, <2>2
    <3>2. QED
      BY <1>1, <1>b, <1>c, <1>w, <2>2, <3>1
  <2>4. PICK n \in 0 .. Len(w) :
           wire' = [wire EXCEPT ![e] = SubSeq(w, 1, n), ![Peer(e)] = <<>>]
    <3>1. Leave(e, w)
      BY <1>1 DEF SendFrame, w
    <3>2. Len(w) \in Nat
      BY <1>t, <1>w
    <3>3. QED
      <4>1. Len(w) \in 0 .. Len(w)
        BY <3>2
      <4>2. (IF wire[Peer(e)] = <<>> THEN {Len(w)} ELSE 0 .. Len(w)) \subseteq 0 .. Len(w)
        BY <4>1
      <4>3. QED
        BY <3>1, <4>2, Zenon DEF Leave
  <2>5. pc' = [pc EXCEPT ![e] = "gone"]
    BY <1>1 DEF SendFrame, Leave
  <2>6. PICK how \in {"fin", "reset"} : shut' = [shut EXCEPT ![e] = how]
    BY <1>1 DEF SendFrame, Leave, Dropped
  <2>7. broke' \in BOOLEAN
    BY <1>a, Zenon DEF IInv, TypeOK
  <2>8. QED
    BY <1>a, <1>w, <2>1, <2>3, <2>4, <2>5, <2>6, <2>7, LeaveInv
<1>2. CASE hand[e] # Empty
  <2>a. /\ pc' = [pc EXCEPT ![e] = "select"] /\ wire' = [wire EXCEPT ![e] = w]
        /\ shut' = shut
    BY <1>2 DEF SendFrame, w
  <2>b. pc'[e] = "select" /\ pc'[p] = pc[p] /\ wire'[e] = w /\ wire'[p] = wire[p]
    BY <1>p, <1>t, <2>a DEF TypeOK
  <2>c. hand[e] = taken[e] /\ taken[e] = Received(p) + Len(wire[e]) + 1
    BY <1>2, <1>a, <1>p, <1>t DEF EndSound, SendSound, Accounted
  <2>1. TypeOK'
    <3>1. pc' \in [Ends -> PcStates] /\ wire' \in [Ends -> Seq(Frames)]
      BY <1>t, <1>w, <2>a DEF TypeOK, PcStates
    <3>2. Len(wire'[e]) <= Room /\ Len(wire'[p]) <= Room
      BY <1>a, <1>p, <1>t, <1>w, <2>b DEF TypeOK
    <3>3. \A d \in Ends : Len(wire'[d]) <= Room
      BY <3>2, PeerFacts
    <3>4. QED
      BY <1>a, <1>t, <2>a, <3>1, <3>3 DEF TypeOK
  <2>r. Received(e)' = Received(e) /\ Received(p)' = Received(p)
    BY <1>a, <2>b DEF Received
  <2>2. EndSound(e)'
    <3>1. OutSound(e)' /\ SendSound(e)'
      BY <1>a, <1>p, <2>a, <2>b, <2>c, <2>r, <1>t, <1>2
         DEF EndSound, OutSound, SendSound, Complete, Empty
    <3>2. WireSound(e)'
      <4>1. \A i \in 1 .. Len(w) : w[i] = Received(p) + i /\ w[i] <= taken[e]
        <5>1. w[Len(wire[e]) + 1] = Received(p) + (Len(wire[e]) + 1)
          BY <1>t, <1>w, <2>c
        <5>2. taken[e] <= taken[e]
          BY <1>t
        <5>3. QED
          BY <1>b, <1>c, <1>w, <2>c, <5>1, <5>2
      <4>2. QED
        BY <1>a, <2>b, <2>r, <4>1 DEF WireSound
    <3>3. Accounted(e)'
      <4>1. taken[e] = Received(p) + Len(w) + 0
        BY <1>t, <1>w, <2>c
      <4>2. QED
        BY <1>a, <2>b, <2>r, <4>1 DEF Accounted
    <3>4. QED
      BY <3>1, <3>2, <3>3 DEF EndSound
  <2>3. EndSound(p)'
    <3>1. OutSound(p)' /\ Accounted(p)'
      BY <1>a, <1>p, <2>a, <2>b, <2>r DEF EndSound, OutSound, Accounted
    <3>2. WireSound(p)' /\ SendSound(p)'
      BY <1>a, <1>p, <2>a, <2>b, <2>r DEF EndSound, WireSound, SendSound, Complete
    <3>3. QED
      BY <3>1, <3>2 DEF EndSound
  <2>4. QED
    BY <2>1, <2>2, <2>3, BothEnds
<1>3. QED
  BY <1>1, <1>2

\* A chunk comes off the wire: it is the one after those already written.
LEMMA ReceiveDataInv ==
    ASSUME IInv, NEW e \in Ends, ReceiveData(e)
    PROVE  IInv'
<1> DEFINE p == Peer(e)
<1> DEFINE w == Tail(wire[p])
<1>p. p \in Ends /\ p # e /\ Peer(p) = e /\ EndSound(e) /\ EndSound(p)
  BY PeerFacts DEF IInv
<1>t. /\ TypeOK /\ Len(out[e]) \in Nat /\ Len(out[p]) \in Nat
      /\ wire[p] \in Seq(Frames) /\ Len(wire[p]) \in Nat
      /\ taken[e] \in Nat /\ taken[p] \in Nat /\ Room \in Nat
  BY <1>p, Lengths DEF IInv, TypeOK
<1>w. /\ w \in Seq(Frames) /\ Len(w) = Len(wire[p]) - 1 /\ Len(wire[p]) >= 1
      /\ Head(wire[p]) = wire[p][1] /\ Head(wire[p]) \in Frames
      /\ \A i \in 1 .. Len(w) : w[i] = wire[p][i + 1]
  BY <1>t, HeadTailProperties, EmptySeq, LenProperties DEF ReceiveData
<1> HIDE DEF w
<1>a. /\ pc[e] = "select" /\ wire[p][1] # Empty
      /\ UNCHANGED <<sent, eof, taken, out, shut, refused, broke>>
      /\ pc'[e] = "write" /\ pc'[p] = pc[p]
      /\ hand'[e] = wire[p][1] /\ hand'[p] = hand[p]
      /\ wire'[p] = w /\ wire'[e] = wire[e]
  BY <1>p, <1>t, <1>w DEF ReceiveData, TypeOK, w
<1>1. TypeOK'
  <2>1. pc' \in [Ends -> PcStates] /\ hand' \in [Ends -> Frames] /\ wire' \in [Ends -> Seq(Frames)]
    BY <1>p, <1>t, <1>w DEF ReceiveData, TypeOK, PcStates, w
  <2>2. \A d \in Ends : Len(wire'[d]) <= Room
    <3>1. Len(wire'[e]) <= Room /\ Len(wire'[p]) <= Room
      BY <1>a, <1>p, <1>t, <1>w DEF TypeOK
    <3>2. QED
      BY <3>1, PeerFacts
  <2>3. QED
    BY <1>a, <1>t, <2>1, <2>2 DEF TypeOK
<1>r. /\ Received(e) = Len(out[e]) /\ Received(e)' = Len(out[e]) + 1
      /\ Received(p)' = Received(p)
  BY <1>a DEF Received
<1>b. wire[p][1] = Len(out[e]) + 1 /\ wire[p][1] <= taken[p]
  BY <1>a, <1>p, <1>r, <1>t, <1>w DEF EndSound, WireSound
<1>2. EndSound(e)'
  <2>1. OutSound(e)'
    BY <1>a, <1>b, <1>p, <1>r, <1>t DEF EndSound, OutSound
  <2>2. WireSound(e)'
    BY <1>a, <1>p, <1>r DEF EndSound, WireSound
  <2>3. SendSound(e)' /\ Accounted(e)'
    BY <1>a, <1>p, <1>r DEF EndSound, SendSound, Accounted
  <2>4. QED
    BY <2>1, <2>2, <2>3 DEF EndSound
<1>3. EndSound(p)'
  <2>1. OutSound(p)'
    BY <1>a, <1>p, <1>r DEF EndSound, OutSound
  <2>2. WireSound(p)'
    <3> SUFFICES ASSUME NEW i \in 1 .. Len(w)
                 PROVE  \/ w[i] = Len(out[e]) + 1 + i /\ w[i] <= taken[p]
                        \/ /\ w[i] = Empty /\ i = Len(w) /\ pc[p] = "gone"
                           /\ Complete(p, Len(out[e]) + 1 + i - 1)
      BY <1>a, <1>p, <1>r DEF WireSound, Complete
    <3>1. i + 1 \in 1 .. Len(wire[p]) /\ w[i] = wire[p][i + 1]
      BY <1>t, <1>w
    <3>i. /\ i \in Nat /\ Len(out[e]) \in Nat /\ Len(wire[p]) \in Nat
          /\ Len(w) = Len(wire[p]) - 1
      BY <1>t, <1>w
    <3>2. /\ Len(out[e]) + (i + 1) = Len(out[e]) + 1 + i
          /\ Len(out[e]) + (i + 1) - 1 = Len(out[e]) + 1 + i - 1
          /\ i + 1 = Len(wire[p]) => i = Len(w)
      <4>1. Len(out[e]) + (i + 1) = Len(out[e]) + 1 + i
        BY <3>i, Shift
      <4>2. Len(out[e]) + (i + 1) - 1 = Len(out[e]) + 1 + i - 1
        BY <3>i
      <4>3. i + 1 = Len(wire[p]) => i = Len(w)
        BY <3>i
      <4>4. QED
        BY <4>1, <4>2, <4>3
    <3>3. \/ wire[p][i + 1] = Len(out[e]) + (i + 1) /\ wire[p][i + 1] <= taken[p]
          \/ /\ wire[p][i + 1] = Empty /\ i + 1 = Len(wire[p]) /\ pc[p] = "gone"
             /\ Complete(p, Len(out[e]) + (i + 1) - 1)
      BY <1>p, <1>r, <3>1 DEF EndSound, WireSound
    <3>4. QED
      BY <3>1, <3>2, <3>3
  <2>3. SendSound(p)'
    BY <1>a, <1>p DEF EndSound, SendSound, Complete
  <2>4. Accounted(p)'
    <3> DEFINE x == IF pc[p] = "send" /\ hand[p] # Empty THEN 1 ELSE 0
    <3>1. x \in Nat
      OBVIOUS
    <3>2. pc[p] # "gone" => taken[p] = Len(out[e]) + Len(wire[p]) + x
      BY <1>a, <1>p, <1>r DEF EndSound, Accounted
    <3> HIDE DEF x
    <3>3. pc[p] # "gone" => taken[p] = Len(out[e]) + 1 + Len(w) + x
      <4>1. Len(out[e]) + Len(wire[p]) + x = Len(out[e]) + 1 + (Len(wire[p]) - 1) + x
        BY <1>t, <3>1, Shift, Zenon
      <4>2. QED
        BY <1>w, <3>2, <4>1
    <3>4. QED
      BY <1>a, <1>p, <1>r, <3>3 DEF Accounted, x
  <2>5. QED
    BY <2>1, <2>2, <2>3, <2>4 DEF EndSound
<1>4. QED
  BY <1>1, <1>2, <1>3, BothEnds

\* The empty frame comes off the wire: everything else has been written.
LEMMA ReceiveEmptyInv ==
    ASSUME IInv, NEW e \in Ends, ReceiveEmpty(e)
    PROVE  IInv'
<1> DEFINE p == Peer(e)
<1>p. p \in Ends /\ p # e /\ Peer(p) = e /\ EndSound(e) /\ EndSound(p)
  BY PeerFacts DEF IInv
<1>t. /\ TypeOK /\ Len(out[e]) \in Nat /\ Len(out[p]) \in Nat
      /\ wire[p] \in Seq(Frames) /\ Len(wire[p]) \in Nat
      /\ taken[p] \in Nat /\ Room \in Nat
      /\ <<>> \in Seq(Frames) /\ Len(<<>>) = 0
  BY <1>p, Lengths, EmptySeq DEF IInv, TypeOK
<1>w. Len(wire[p]) >= 1 /\ Head(wire[p]) = wire[p][1]
  BY <1>t, HeadTailProperties, EmptySeq, LenProperties DEF ReceiveEmpty
<1>a. /\ pc[e] = "select" /\ wire[p][1] = Empty
      /\ UNCHANGED <<sent, eof, taken, out, hand, refused, broke>>
      /\ pc'[e] = "gone" /\ pc'[p] = pc[p]
      /\ wire'[p] = <<>> /\ wire'[e] = wire[e]
  BY <1>p, <1>t, <1>w DEF ReceiveEmpty, TypeOK
<1>1. TypeOK'
  <2>1. /\ pc' \in [Ends -> PcStates] /\ wire' \in [Ends -> Seq(Frames)]
        /\ shut' \in [Ends -> {"open", "fin", "reset"}]
    BY <1>p, <1>t DEF ReceiveEmpty, Dropped, TypeOK, PcStates
  <2>2. \A d \in Ends : Len(wire'[d]) <= Room
    <3>1. Len(wire'[e]) <= Room /\ Len(wire'[p]) <= Room
      BY <1>a, <1>p, <1>t DEF TypeOK
    <3>2. QED
      BY <3>1, PeerFacts
  <2>3. QED
    BY <1>a, <1>t, <2>1, <2>2 DEF TypeOK
<1>r. /\ Received(e) = Len(out[e]) /\ Received(e)' = Received(e)
      /\ Received(p)' = Received(p)
  BY <1>a, <1>t DEF Received
<1>b. pc[p] = "gone" /\ Complete(p, Len(out[e]))
  <2>1. /\ Empty # Len(out[e]) + 1 /\ 1 \in 1 .. Len(wire[p])
        /\ Len(out[e]) + 1 - 1 = Len(out[e])
    BY <1>t, <1>w DEF Empty
  <2>2. pc[p] = "gone" /\ Complete(p, Len(out[e]) + 1 - 1)
    BY <1>a, <1>p, <1>r, <2>1 DEF EndSound, WireSound
  <2>3. QED
    BY <2>1, <2>2
<1>2. EndSound(e)'
  <2>1. OutSound(e)'
    BY <1>a, <1>p, <1>r DEF EndSound, OutSound
  <2>2. WireSound(e)' /\ Accounted(e)'
    <3>1. wire[e] = <<>>
      BY <1>b, <1>p DEF EndSound, Accounted
    <3>2. QED
      BY <1>a, <1>t, <3>1 DEF WireSound, Accounted
  <2>3. SendSound(e)'
    BY <1>a, <1>p DEF EndSound, SendSound
  <2>4. QED
    BY <2>1, <2>2, <2>3 DEF EndSound
<1>3. EndSound(p)'
  <2>1. OutSound(p)'
    BY <1>a, <1>p, <1>r DEF EndSound, OutSound
  <2>2. WireSound(p)' /\ Accounted(p)'
    BY <1>a, <1>p, <1>t DEF WireSound, Accounted
  <2>3. SendSound(p)'
    BY <1>a, <1>p DEF EndSound, SendSound, Complete
  <2>4. QED
    BY <2>1, <2>2, <2>3 DEF EndSound
<1>4. QED
  BY <1>1, <1>2, <1>3, BothEnds

\* write_all: the chunk in hand is the next one.
LEMMA WriteChunkInv ==
    ASSUME IInv, NEW e \in Ends, WriteChunk(e)
    PROVE  IInv'
<1> DEFINE p == Peer(e)
<1> DEFINE o == Append(out[e], hand[e])
<1>p. p \in Ends /\ p # e /\ Peer(p) = e /\ EndSound(e) /\ EndSound(p)
  BY PeerFacts DEF IInv
<1>t. /\ TypeOK /\ out[e] \in Seq(Frames) /\ hand[e] \in Frames
      /\ Len(out[e]) \in Nat /\ Len(out[p]) \in Nat /\ taken[p] \in Nat
  BY <1>p, Lengths DEF IInv, TypeOK
<1>w. /\ o \in Seq(Frames) /\ Len(o) = Len(out[e]) + 1
      /\ o[Len(out[e]) + 1] = hand[e]
      /\ \A i \in 1 .. Len(out[e]) : o[i] = out[e][i]
  BY <1>t, AppendProperties
<1> HIDE DEF o
<1>a. /\ pc[e] = "write" /\ pc'[e] = "select" /\ pc'[p] = pc[p]
      /\ out'[e] = o /\ out'[p] = out[p]
      /\ UNCHANGED <<sent, eof, taken, wire, shut, hand, refused, broke>>
  BY <1>p, <1>t DEF WriteChunk, TypeOK, o
<1>1. TypeOK'
  <2>1. pc' \in [Ends -> PcStates] /\ out' \in [Ends -> Seq(Frames)]
    BY <1>t, <1>w DEF WriteChunk, TypeOK, PcStates, o
  <2>2. QED
    BY <1>a, <1>t, <2>1 DEF TypeOK
<1>r. Received(e)' = Received(e) /\ Received(p)' = Received(p)
  BY <1>a, <1>t, <1>w DEF Received
<1>2. EndSound(e)'
  <2>1. OutSound(e)'
    <3>1. \A i \in 1 .. Len(o) : i \in 1 .. Len(out[e]) \/ i = Len(out[e]) + 1
      BY <1>t, <1>w
    <3>2. QED
      BY <1>a, <1>p, <1>r, <1>w, <3>1 DEF EndSound, OutSound
  <2>2. WireSound(e)'
    BY <1>a, <1>p, <1>r DEF EndSound, WireSound
  <2>3. SendSound(e)' /\ Accounted(e)'
    BY <1>a, <1>p, <1>r DEF EndSound, SendSound, Accounted
  <2>4. QED
    BY <2>1, <2>2, <2>3 DEF EndSound
<1>3. EndSound(p)'
  <2>1. OutSound(p)'
    BY <1>a, <1>p, <1>r DEF EndSound, OutSound
  <2>2. WireSound(p)' /\ Accounted(p)'
    BY <1>a, <1>p, <1>r DEF EndSound, WireSound, Accounted, Complete
  <2>3. SendSound(p)'
    BY <1>a, <1>p DEF EndSound, SendSound, Complete
  <2>4. QED
    BY <2>1, <2>2, <2>3 DEF EndSound
<1>4. QED
  BY <1>1, <1>2, <1>3, BothEnds

\* Every step of a loop or of an application keeps the invariant.
LEMMA NextInv ==
    ASSUME IInv, [Next]_vars
    PROVE  IInv'
<1>1. CASE UNCHANGED vars
  <2>1. TypeOK'
    BY <1>1 DEF vars, IInv, TypeOK
  <2>2. ASSUME NEW e \in Ends  PROVE EndSound(e)'
    <3>1. EndSound(e)
      BY DEF IInv
    <3>2. OutSound(e)' /\ Accounted(e)' /\ SendSound(e)'
      BY <1>1, <3>1 DEF vars, EndSound, OutSound, Accounted, SendSound, Received, Complete
    <3>3. WireSound(e)'
      BY <1>1, <3>1 DEF vars, EndSound, WireSound, Received, Complete
    <3>4. QED
      BY <3>2, <3>3 DEF EndSound
  <2>3. QED
    BY <2>1, <2>2 DEF IInv
<1>2. ASSUME NEW e \in Ends, Step(e) \/ Fails(e) \/ Submit(e) \/ CloseStream(e)
      PROVE  IInv'
  BY <1>2, ApplicationInv, ConnectLocalInv, ReadInv, DropInv, SendFrameInv, ReceiveDataInv,
     ReceiveEmptyInv, WriteChunkInv DEF Step
<1>3. QED
  BY <1>1, <1>2 DEF Next, bridge_stream_to_framed, bridge_local_tcp_to_framed, Ends

\* Nothing has been sent at first.
LEMMA InitInv == Init => IInv
<1> SUFFICES ASSUME Init PROVE IInv
  OBVIOUS
<1>1. <<>> \in Seq(Frames) /\ Len(<<>>) = 0
  BY EmptySeq
<1>2. TypeOK
  <2>1. eof \in [Ends -> BOOLEAN] /\ refused \in BOOLEAN /\ broke \in BOOLEAN
    BY Zenon DEF Init
  <2>2. QED
    BY <1>1, <2>1, BoundsAssumption DEF Init, TypeOK, Frames, PcStates, Empty
<1>3. ASSUME NEW e \in Ends  PROVE EndSound(e)
  <2>1. /\ Len(out[e]) = 0 /\ Len(wire[e]) = 0 /\ taken[e] = 0 /\ shut[e] = "open"
        /\ pc[e] \in {"connect", "select"} /\ (pc[e] = "connect" => e = "client")
        /\ ~refused /\ wire[e] = <<>>
    BY <1>1, Zenon DEF Init
  <2>2. Received(e) = 0 /\ Received(Peer(e)) = 0 /\ taken[Peer(e)] = 0
    <3>1. Peer(e) \in Ends
      BY PeerFacts
    <3>2. \A d \in Ends : Len(out[d]) = 0 /\ pc[d] # "write" /\ taken[d] = 0
      BY <1>1 DEF Init
    <3>3. QED
      BY <3>1, <3>2 DEF Received
  <2>3. OutSound(e) /\ WireSound(e)
    BY <2>1, <2>2 DEF OutSound, WireSound
  <2>4. SendSound(e)
    BY <2>1 DEF SendSound
  <2>5. Accounted(e)
    BY <2>1, <2>2 DEF Accounted
  <2>6. QED
    BY <2>3, <2>4, <2>5 DEF EndSound
<1>4. QED
  BY <1>2, <1>3 DEF IInv

\* IInv holds in every reachable state.
THEOREM Invariance == Spec => []IInv
  BY InitInv, NextInv, PTL DEF Spec

\* The state is well typed; the work connection never holds more frames than
\* it has room for.
THEOREM TypeCorrect == Spec => []TypeOK
<1>1. IInv => TypeOK
  BY DEF IInv
<1>2. QED
  BY <1>1, Invariance, PTL

\* Each application receives a prefix of what the other sent.
THEOREM DeliversInOrder == Spec => []InOrder
<1>1. IInv => InOrder
  <2> SUFFICES ASSUME IInv, NEW e \in Ends
               PROVE  /\ Len(out[e]) <= taken[Peer(e)]
                      /\ \A i \in 1 .. Len(out[e]) : out[e][i] = i
    BY DEF InOrder
  <2>1. OutSound(e) /\ Len(out[e]) \in Nat /\ taken[Peer(e)] \in Nat
    BY PeerFacts, Lengths DEF IInv, EndSound
  <2>2. QED
    BY <2>1 DEF OutSound, Received
<1>2. QED
  BY <1>1, Invariance, PTL

-----------------------------------------------------------------------------
(* Why a stream ends *)

\* A stream is open as long as its loop runs; nothing is written to a service
\* that is still being connected to; no more is read than was sent.
StreamSound(e) ==
    /\ shut[e] = "open" <=> pc[e] # "gone"
    /\ pc[e] = "connect" => out[e] = <<>>
    /\ taken[e] <= sent[e]

StreamsSound == \A e \in Ends : StreamSound(e)

\* At first both streams are open and both loops there.
LEMMA StreamsInit == Init => StreamsSound
<1> SUFFICES ASSUME Init, NEW e \in Ends  PROVE StreamSound(e)
  BY DEF StreamsSound
<1>1. /\ shut[e] = "open" /\ pc[e] \in {"connect", "select"} /\ out[e] = <<>>
      /\ taken[e] = 0 /\ sent[e] = 0
  BY DEF Init
<1>2. QED
  BY <1>1 DEF StreamSound

\* A stream ends in the step in which its loop is left, and only unread chunks are read.
LEMMA StreamsNext ==
    ASSUME IInv, StreamsSound, [Next]_vars
    PROVE  StreamsSound'
<1> USE DEF IInv, StreamsSound
<1>t. TypeOK /\ TypeOK' /\ \A d \in Ends : taken[d] \in Nat /\ sent[d] \in Nat
  BY Lengths, NextInv
<1>1. ASSUME NEW e \in Ends, Submit(e) \/ CloseStream(e), NEW d \in Ends
      PROVE  StreamSound(d)'
  <2>1. UNCHANGED <<taken, out, shut, pc>> /\ (sent'[d] = sent[d] \/ sent'[d] = sent[d] + 1)
    BY <1>1, <1>t DEF Submit, CloseStream, TypeOK
  <2>2. taken[d] <= sent'[d]
    BY <1>t, <2>1 DEF StreamSound
  <2>3. QED
    BY <2>1, <2>2 DEF StreamSound
<1>2. ASSUME NEW e \in Ends, ConnectLocal(e), NEW d \in Ends  PROVE StreamSound(d)'
  BY <1>2, <1>t DEF ConnectLocal, StreamSound, TypeOK
<1>3. ASSUME NEW e \in Ends, ReadChunk(e) \/ ReadEof(e), NEW d \in Ends
      PROVE  StreamSound(d)'
  <2>1. /\ UNCHANGED <<sent, out, shut>>
        /\ \/ taken'[d] = taken[d]
           \/ taken'[d] = taken[d] + 1 /\ taken[d] < sent[d]
        /\ \/ pc'[d] = pc[d]
           \/ pc[d] = "select" /\ pc'[d] = "send"
    BY <1>3, <1>t DEF ReadChunk, ReadEof, TypeOK
  <2>2. taken'[d] <= sent[d]
    BY <1>t, <2>1 DEF StreamSound
  <2>3. QED
    BY <2>1, <2>2 DEF StreamSound
<1>4. ASSUME NEW e \in Ends,
             \/ SendFrame(e) \/ SendFails(e) \/ ReceiveEmpty(e) \/ WireEnds(e) \/ Fails(e),
             NEW d \in Ends
      PROVE  StreamSound(d)'
  <2>1. /\ UNCHANGED <<sent, taken, out>>
        /\ \/ pc'[d] = pc[d] /\ shut'[d] = shut[d]
           \/ pc'[d] = "gone" /\ shut'[d] \in {"fin", "reset"}
           \/ pc[d] = "send" /\ pc'[d] = "select" /\ shut'[d] = shut[d]
    BY <1>4, <1>t DEF SendFrame, SendFails, ReceiveEmpty, WireEnds, Fails, Leave, Dropped, TypeOK
  <2>2. QED
    BY <2>1 DEF StreamSound
<1>5. ASSUME NEW e \in Ends, ReceiveData(e) \/ WriteChunk(e), NEW d \in Ends
      PROVE  StreamSound(d)'
  <2>1. /\ UNCHANGED <<sent, taken, shut>>
        /\ \/ pc'[d] = pc[d] /\ out'[d] = out[d]
           \/ pc[d] \in {"select", "write"} /\ pc'[d] \in {"select", "write"}
    BY <1>5, <1>t DEF ReceiveData, WriteChunk, TypeOK
  <2>2. QED
    BY <2>1 DEF StreamSound
<1>6. ASSUME UNCHANGED vars, NEW d \in Ends  PROVE StreamSound(d)'
  BY <1>6 DEF vars, StreamSound
<1>7. QED
  BY <1>1, <1>2, <1>3, <1>4, <1>5, <1>6
     DEF Next, bridge_stream_to_framed, bridge_local_tcp_to_framed, Step, Ends

\* Nothing has broken, and the service was reached.
Fine == ~broke /\ ~refused

\* The application at end e has sent what the other was not given.
Behind(e) == Len(out[Peer(e)]) < sent[e]

\* The other loop's last frame on its way to e is the empty one.
Told(e) == wire[Peer(e)] # <<>> /\ wire[Peer(e)][Len(wire[Peer(e)])] = Empty

\* The chunk a loop is sending has not been received.
HandSound(e) == pc[e] = "send" /\ hand[e] # Empty => Received(Peer(e)) < taken[e]

\* A loop whose other end is gone is told so, unless it has sent in vain.
GoneSound(e) == pc[Peer(e)] = "gone" /\ pc[e] # "gone" /\ Fine => Behind(e) \/ Told(e)

\* A stream that has ended and was not closed by its own application: the other is
\* gone too, and it has everything unless what it sent was lost.
EndedSound(e) ==
    pc[e] = "gone" /\ Fine /\ ~eof[e] =>
        /\ pc[Peer(e)] = "gone"
        /\ Behind(e) \/ (eof[Peer(e)] /\ Len(out[e]) = sent[Peer(e)])

CauseSound(e) == HandSound(e) /\ GoneSound(e) /\ EndedSound(e)

CausesSound == \A e \in Ends : CauseSound(e)

\* At first both loops are there, and neither sends a chunk.
LEMMA CausesInit == Init => CausesSound
<1> SUFFICES ASSUME Init, NEW e \in Ends  PROVE CauseSound(e)
  BY DEF CausesSound
<1>1. pc[e] \in {"connect", "select"} /\ pc[Peer(e)] \in {"connect", "select"}
  BY PeerFacts DEF Init
<1>2. QED
  BY <1>1 DEF CauseSound, HandSound, GoneSound, EndedSound

\* What broke stays broken.
LEMMA FineBefore ==
    ASSUME [Next]_vars
    PROVE  Fine' => Fine
<1>1. CASE UNCHANGED vars
  BY <1>1, Zenon DEF vars, Fine
<1>2. ASSUME NEW e \in Ends, Step(e) \/ Fails(e) \/ Submit(e) \/ CloseStream(e)
      PROVE  Fine' => Fine
  <2>1. CASE ConnectLocal(e)
    BY <2>1, Zenon DEF ConnectLocal, Fine
  <2>2. CASE ReadChunk(e) \/ ReadEof(e) \/ ReceiveData(e) \/ WriteChunk(e)
    BY <2>2, Zenon DEF ReadChunk, ReadEof, ReceiveData, WriteChunk, Fine
  <2>3. CASE SendFrame(e) \/ SendFails(e) \/ ReceiveEmpty(e) \/ WireEnds(e)
    BY <2>3, Zenon DEF SendFrame, SendFails, ReceiveEmpty, WireEnds, Fine
  <2>4. CASE Fails(e) \/ Submit(e) \/ CloseStream(e)
    BY <2>4, Zenon DEF Fails, Submit, CloseStream, Fine
  <2>5. QED
    BY <1>2, <2>1, <2>2, <2>3, <2>4, Zenon DEF Step
<1>3. QED
  BY <1>1, <1>2 DEF Next, bridge_stream_to_framed, bridge_local_tcp_to_framed, Ends

\* As long as the other loop runs, the chunk in hand is one of those not received;
\* and a loop that is gone receives nothing.
LEMMA HandNext ==
    ASSUME IInv, CausesSound, [Next]_vars, NEW d \in Ends
    PROVE  HandSound(d)'
<1> DEFINE q == Peer(d)
<1>q. q \in Ends /\ q # d /\ Peer(q) = d /\ HandSound(d)
  BY PeerFacts DEF CausesSound, CauseSound
<1>i. IInv' /\ TypeOK /\ TypeOK'
  BY NextInv DEF IInv
<1>t. /\ Len(out[q]) \in Nat /\ Received(q) \in Nat /\ taken[d] \in Nat
      /\ Received(q) <= taken[d]
  BY <1>q, <1>i, Lengths DEF IInv, EndSound, OutSound
<1>u. Received(q)' \in Nat /\ Len(wire[d])' \in Nat /\ taken'[d] \in Nat
  <2>1. TypeOK => Received(q) \in Nat /\ Len(wire[d]) \in Nat /\ taken[d] \in Nat
    BY <1>q, Lengths
  <2>2. (TypeOK => Received(q) \in Nat /\ Len(wire[d]) \in Nat /\ taken[d] \in Nat)'
    <3>1. ASSUME TypeOK'  PROVE (Received(q) \in Nat /\ Len(wire[d]) \in Nat /\ taken[d] \in Nat)'
      <4>1. Len(wire'[d]) \in Nat /\ Len(out'[q]) \in Nat /\ taken'[d] \in Nat
        BY <1>q, <3>1, LenProperties DEF TypeOK, Frames
      <4>2. QED
        BY <4>1 DEF Received
    <3>2. QED
      BY <3>1
  <2>3. QED
    BY <1>i, <2>2
<1>1. CASE pc'[q] # "gone"
  <2>1. Accounted(d)'
    BY <1>i DEF IInv, EndSound
  <2>2. pc'[d] = "send" /\ hand'[d] # Empty => taken'[d] = Received(q)' + Len(wire[d])' + 1
    BY <1>1, <2>1 DEF Accounted
  <2>3. QED
    BY <1>u, <2>2 DEF HandSound
<1>2. CASE pc'[q] = "gone"
  <2>0. SUFFICES ASSUME pc'[d] = "send", hand'[d] # Empty  PROVE Received(q)' < taken'[d]
    BY DEF HandSound
  <2>1. CASE UNCHANGED vars
    BY <1>q, <2>0, <2>1 DEF vars, HandSound, Received
  <2>2. ASSUME NEW e \in Ends, Step(e) \/ Fails(e) \/ Submit(e) \/ CloseStream(e)
        PROVE  Received(q)' < taken'[d]
    <3>1. CASE Submit(e) \/ CloseStream(e)
      BY <1>q, <2>0, <3>1 DEF Submit, CloseStream, HandSound, Received
    <3>2. CASE e = d /\ ReadChunk(e)
      <4>1. taken'[d] = taken[d] + 1 /\ UNCHANGED out /\ pc'[q] = pc[q]
        BY <1>q, <1>i, <3>2 DEF ReadChunk, TypeOK
      <4>2. Received(q)' = Received(q)
        BY <4>1 DEF Received
      <4>3. QED
        BY <1>t, <4>1, <4>2
    <3>3. CASE e = d /\ ~ReadChunk(e) /\ (Step(e) \/ Fails(e))
      <4>1. /\ pc[d] = "send" /\ UNCHANGED hand /\ UNCHANGED <<taken, out>> /\ pc'[q] = pc[q]
        BY <1>q, <1>i, <2>0, <3>3
           DEF Step, ConnectLocal, ReadEof, SendFrame, SendFails, ReceiveData, ReceiveEmpty,
               WireEnds, WriteChunk, Fails, Leave, TypeOK
      <4>2. QED
        BY <1>q, <2>0, <4>1 DEF HandSound, Received
    <3>4. CASE e = q /\ (Step(e) \/ Fails(e))
      <4>1. pc[q] # "gone"
        BY <3>4 DEF Step, ConnectLocal, ReadChunk, ReadEof, SendFrame, SendFails, ReceiveData,
                    ReceiveEmpty, WireEnds, WriteChunk, Fails
      <4>2. /\ UNCHANGED <<taken, out, hand>> /\ pc'[d] = pc[d]
        BY <1>2, <1>q, <1>i, <3>4, <4>1
           DEF Step, ConnectLocal, ReadChunk, ReadEof, SendFrame, SendFails, ReceiveData,
               ReceiveEmpty, WireEnds, WriteChunk, Fails, Leave, TypeOK
      <4>3. Received(q)' <= Received(q)
        BY <1>2, <1>t, <4>2 DEF Received
      <4>4. Received(q) < taken[d]
        BY <1>q, <2>0, <4>2 DEF HandSound
      <4>5. QED
        BY <1>t, <1>u, <4>2, <4>3, <4>4
    <3>5. QED
      BY <2>2, <3>1, <3>2, <3>3, <3>4, PeerFacts
  <2>3. QED
    BY <2>1, <2>2 DEF Next, bridge_stream_to_framed, bridge_local_tcp_to_framed, Ends
<1>3. QED
  BY <1>1, <1>2

\* A loop that goes on changes nothing for either end.
LEMMA StayCauses ==
    ASSUME CausesSound, NEW e \in Ends, pc[e] # "gone", pc'[e] # "gone",
           pc'[Peer(e)] = pc[Peer(e)], UNCHANGED <<sent, eof>>,
           out'[Peer(e)] = out[Peer(e)], Fine' => Fine, Told(e) => Told(e)',
           NEW d \in Ends
    PROVE  GoneSound(d)' /\ EndedSound(d)'
<1> DEFINE p == Peer(e)
<1>p. p \in Ends /\ p # e /\ Peer(p) = e /\ CauseSound(e) /\ CauseSound(p) /\ (d = e \/ d = p)
  BY PeerFacts DEF CausesSound
<1>1. GoneSound(e)' /\ EndedSound(e)'
  BY <1>p DEF CauseSound, GoneSound, EndedSound, Behind
<1>2. GoneSound(p)' /\ EndedSound(p)'
  BY <1>p DEF CauseSound, GoneSound, EndedSound, Behind
<1>3. QED
  BY <1>p, <1>1, <1>2

\* A loop that is left: the other end is told or behind, and the own stream ends for
\* a reason.
LEMMA LeaveCauses ==
    ASSUME CausesSound, NEW e \in Ends, pc[e] # "gone", pc'[e] = "gone",
           pc'[Peer(e)] = pc[Peer(e)], UNCHANGED <<sent, eof, out>>, Fine' => Fine,
           Fine' /\ pc[Peer(e)] # "gone" => Behind(Peer(e)) \/ Told(Peer(e))',
           Fine' /\ ~eof[e] =>
               /\ pc[Peer(e)] = "gone"
               /\ Behind(e) \/ (eof[Peer(e)] /\ Len(out[e]) = sent[Peer(e)]),
           NEW d \in Ends
    PROVE  GoneSound(d)' /\ EndedSound(d)'
<1> DEFINE p == Peer(e)
<1>p. p \in Ends /\ p # e /\ Peer(p) = e /\ CauseSound(e) /\ CauseSound(p) /\ (d = e \/ d = p)
  BY PeerFacts DEF CausesSound
<1>1. GoneSound(e)' /\ EndedSound(e)'
  BY <1>p DEF GoneSound, EndedSound, Behind
<1>2. GoneSound(p)' /\ EndedSound(p)'
  BY <1>p DEF CauseSound, GoneSound, EndedSound, Behind
<1>3. QED
  BY <1>p, <1>1, <1>2

\* The applications do not disturb this.
LEMMA ApplicationCauses ==
    ASSUME IInv, CausesSound, NEW e \in Ends, Submit(e) \/ CloseStream(e), NEW d \in Ends
    PROVE  GoneSound(d)' /\ EndedSound(d)'
<1> DEFINE q == Peer(d)
<1>q. q \in Ends /\ q # d /\ Peer(q) = d /\ CauseSound(d) /\ TypeOK
  BY PeerFacts DEF CausesSound, IInv
<1>t. /\ sent[d] \in Nat /\ sent[q] \in Nat /\ Len(out[q]) \in Nat /\ Len(out[d]) \in Nat
  BY <1>q, Lengths DEF IInv
<1>a. /\ UNCHANGED <<out, wire, pc>>
      /\ sent'[d] = sent[d] \/ sent'[d] = sent[d] + 1
      /\ eof[q] => sent'[q] = sent[q]
      /\ (eof[d] => eof'[d]) /\ (eof[q] => eof'[q])
  BY <1>q DEF Submit, CloseStream, TypeOK
<1>f. Fine' => Fine
  BY Zenon DEF Submit, CloseStream, Fine
<1>b. Behind(d) => Behind(d)'
  BY <1>t, <1>a DEF Behind
<1>c. Told(d)' <=> Told(d)
  BY <1>a DEF Told
<1>1. QED
  BY <1>q, <1>a, <1>f, <1>b, <1>c DEF CauseSound, GoneSound, EndedSound

\* Connecting, reading, sending a chunk and writing one.
LEMMA InnerCauses ==
    ASSUME IInv, CausesSound, Fine' => Fine, NEW e \in Ends,
           \/ ConnectLocal(e) \/ ReadChunk(e) \/ ReadEof(e) \/ WriteChunk(e)
           \/ SendFrame(e) /\ hand[e] # Empty,
           NEW d \in Ends
    PROVE  GoneSound(d)' /\ EndedSound(d)'
<1>p. Peer(e) \in Ends /\ Peer(e) # e /\ TypeOK
  BY PeerFacts DEF IInv
<1>1. /\ pc[e] # "gone" /\ pc'[e] # "gone" /\ pc'[Peer(e)] = pc[Peer(e)]
      /\ UNCHANGED <<sent, eof>> /\ out'[Peer(e)] = out[Peer(e)]
      /\ wire'[Peer(e)] = wire[Peer(e)]
  BY <1>p DEF ConnectLocal, ReadChunk, ReadEof, WriteChunk, SendFrame, TypeOK
<1>2. Told(e) => Told(e)'
  BY <1>1 DEF Told
<1>3. QED
  BY <1>1, <1>2, StayCauses

\* A chunk taken off the wire is not the last frame if that is the empty one.
LEMMA ReceiveDataCauses ==
    ASSUME IInv, CausesSound, Fine' => Fine, NEW e \in Ends, ReceiveData(e), NEW d \in Ends
    PROVE  GoneSound(d)' /\ EndedSound(d)'
<1> DEFINE p == Peer(e)
<1> DEFINE w == Tail(wire[p])
<1>p. p \in Ends /\ p # e /\ TypeOK /\ wire[p] \in Seq(Frames) /\ Len(wire[p]) \in Nat
  BY PeerFacts, Lengths DEF IInv
<1>1. /\ pc[e] # "gone" /\ pc'[e] # "gone" /\ pc'[p] = pc[p] /\ wire'[p] = w
      /\ UNCHANGED <<sent, eof, out>> /\ wire[p] # <<>> /\ Head(wire[p]) # Empty
  BY <1>p DEF ReceiveData, TypeOK
<1>w. /\ w \in Seq(Frames) /\ Len(w) = Len(wire[p]) - 1 /\ Len(wire[p]) >= 1
      /\ Head(wire[p]) = wire[p][1]
      /\ \A i \in 1 .. Len(w) : w[i] = wire[p][i + 1]
  BY <1>p, <1>1, HeadTailProperties, EmptySeq, LenProperties
<1> HIDE DEF w
<1>2. Told(e) => Told(e)'
  <2> SUFFICES ASSUME wire[p][Len(wire[p])] = Empty  PROVE w # <<>> /\ w[Len(w)] = Empty
    BY <1>1 DEF Told
  <2>1. Len(wire[p]) # 1
    BY <1>1, <1>w
  <2>2. Len(w) >= 1 /\ Len(w) + 1 = Len(wire[p]) /\ Len(w) \in 1 .. Len(w)
    <3>1. \A n, m \in Nat : m = n - 1 /\ n # 1 /\ n >= 1 => m >= 1 /\ m + 1 = n /\ m \in 1 .. m
      OBVIOUS
    <3>2. Len(w) \in Nat
      BY <1>w, LenProperties
    <3>3. QED
      BY <1>p, <1>w, <2>1, <3>1, <3>2
  <2>3. w[Len(w)] = wire[p][Len(w) + 1]
    BY <1>w, <2>2
  <2>4. w # <<>>
    BY <2>2, EmptySeq
  <2>5. QED
    BY <2>2, <2>3, <2>4
<1>3. QED
  BY <1>1, <1>2, StayCauses

\* The empty frame is sent by a loop whose stream was closed; it arrives, unless what
\* the other sent is lost in turn.
LEMMA SendEmptyCauses ==
    ASSUME IInv, StreamsSound, CausesSound, Fine' => Fine, NEW e \in Ends,
           SendFrame(e), hand[e] = Empty, NEW d \in Ends
    PROVE  GoneSound(d)' /\ EndedSound(d)'
<1> DEFINE p == Peer(e)
<1> DEFINE w == Append(wire[e], hand[e])
<1>p. /\ p \in Ends /\ p # e /\ Peer(p) = e /\ TypeOK /\ EndSound(e) /\ EndSound(p)
      /\ StreamSound(p)
  BY PeerFacts DEF IInv, StreamsSound
<1>t. /\ wire[e] \in Seq(Frames) /\ Len(wire[e]) \in Nat /\ hand[e] \in Frames
      /\ wire[p] \in Seq(Frames) /\ Len(wire[p]) \in Nat /\ Len(out[e]) \in Nat
      /\ taken[p] \in Nat /\ sent[p] \in Nat /\ Received(e) \in Nat /\ Received(e) = Len(out[e])
  <2>1. pc[e] # "write"
    BY DEF SendFrame
  <2>2. QED
    BY <1>p, <2>1, Lengths DEF IInv, TypeOK, Received
<1>w. /\ w \in Seq(Frames) /\ Len(w) = Len(wire[e]) + 1 /\ w[Len(w)] = Empty
  BY <1>t, AppendProperties
<1>1. /\ pc[e] = "send" /\ pc[p] # "gone" /\ Leave(e, w)
      /\ UNCHANGED <<sent, eof, taken, out, hand, refused, broke>>
  BY DEF SendFrame
<1> HIDE DEF w
<1>2. pc'[e] = "gone" /\ pc'[p] = pc[p]
  BY <1>1, <1>p DEF Leave, TypeOK
<1>3. Fine' => eof[e]
  <2>1. Fine' => ~refused
    BY <1>1, Zenon DEF Fine
  <2>2. Complete(e, taken[e])
    BY <1>1, <1>p DEF EndSound, SendSound
  <2>3. QED
    BY <2>1, <2>2 DEF Complete
<1>4. Behind(p) \/ Told(p)'
  <2>1. CASE wire[p] = <<>>
    <3>1. PICK n \in {Len(w)} : wire' = [wire EXCEPT ![e] = SubSeq(w, 1, n), ![p] = <<>>]
      BY <1>1, <2>1 DEF Leave
    <3>2. SubSeq(w, 1, Len(w)) = w
      BY <1>w, <1>t, SubSeqProperties, SeqEqual, LenProperties
    <3>3. wire'[e] = w
      BY <1>p, <3>1, <3>2 DEF TypeOK
    <3>4. w # <<>>
      BY <1>w, <1>t, EmptySeq
    <3>5. QED
      BY <1>p, <1>w, <3>3, <3>4 DEF Told
  <2>2. CASE wire[p] # <<>>
    <3>1. Len(wire[p]) >= 1
      BY <1>t, <2>2, EmptySeq
    <3>2. Accounted(p)
      BY <1>p DEF EndSound
    <3>3. PICK x \in {0, 1} : taken[p] = Received(e) + Len(wire[p]) + x
      BY <1>1, <1>p, <3>2 DEF Accounted
    <3>4. taken[p] <= sent[p]
      BY <1>p DEF StreamSound
    <3>5. Len(out[e]) < sent[p]
      <4>1. \A n, l, a, b \in Nat : l >= 1 /\ a = n + l + x /\ a <= b => n < b
        OBVIOUS
      <4>2. QED
        BY <1>t, <3>1, <3>3, <3>4, <4>1
    <3>6. QED
      BY <1>p, <3>5 DEF Behind
  <2>3. QED
    BY <2>1, <2>2
<1>5. QED
  BY <1>1, <1>2, <1>3, <1>4, LeaveCauses

\* framed.send or framed.next finds the other side gone.
LEMMA DropCauses ==
    ASSUME IInv, StreamsSound, CausesSound, Fine' => Fine, NEW e \in Ends,
           SendFails(e) \/ WireEnds(e), NEW d \in Ends
    PROVE  GoneSound(d)' /\ EndedSound(d)'
<1> DEFINE p == Peer(e)
<1>p. /\ p \in Ends /\ p # e /\ Peer(p) = e /\ TypeOK /\ EndSound(e)
      /\ StreamSound(e) /\ CauseSound(e)
  BY PeerFacts DEF IInv, StreamsSound, CausesSound
<1>t. /\ Len(out[p]) \in Nat /\ Received(p) \in Nat /\ taken[e] \in Nat /\ sent[e] \in Nat
      /\ Len(out[p]) <= Received(p) /\ taken[e] <= sent[e]
  <2>1. /\ Len(out[p]) \in Nat /\ Received(p) \in Nat /\ taken[e] \in Nat /\ sent[e] \in Nat
    BY <1>p, Lengths
  <2>2. QED
    BY <1>p, <2>1 DEF StreamSound, Received
<1>1. /\ pc[e] # "gone" /\ pc[p] = "gone" /\ pc'[e] = "gone" /\ pc'[p] = pc[p]
      /\ UNCHANGED <<sent, eof, out, refused, broke>>
  BY <1>p DEF SendFails, WireEnds, Leave, TypeOK
<1>2. Fine' /\ ~eof[e] => Behind(e)
  <2>1. CASE SendFails(e) /\ hand[e] = Empty
    <3>1. Complete(e, taken[e])
      BY <1>p, <2>1 DEF SendFails, EndSound, SendSound
    <3>2. Fine' => ~refused
      BY <1>1, Zenon DEF Fine
    <3>3. QED
      BY <3>1, <3>2 DEF Complete
  <2>2. CASE SendFails(e) /\ hand[e] # Empty
    <3>1. Received(p) < taken[e]
      BY <1>p, <2>2 DEF SendFails, CauseSound, HandSound
    <3>2. Len(out[p]) < sent[e]
      BY <1>t, <3>1
    <3>3. QED
      BY <3>2 DEF Behind
  <2>3. CASE WireEnds(e)
    <3>1. ~Told(e)
      BY <2>3 DEF WireEnds, Told
    <3>2. QED
      BY <1>p, <1>1, <3>1 DEF CauseSound, GoneSound
  <2>4. QED
    BY <2>1, <2>2, <2>3
<1>3. QED
  BY <1>1, <1>2, LeaveCauses

\* When the empty frame is received, everything else has been written.
LEMMA ReceiveEmptyAll ==
    ASSUME IInv, NEW e \in Ends, ReceiveEmpty(e)
    PROVE  pc[Peer(e)] = "gone" /\ Complete(Peer(e), Len(out[e]))
<1> DEFINE p == Peer(e)
<1>p. p \in Ends /\ Peer(p) = e /\ EndSound(p)
  BY PeerFacts DEF IInv
<1>t. wire[p] \in Seq(Frames) /\ Len(wire[p]) \in Nat /\ Len(out[e]) \in Nat
  BY <1>p, Lengths DEF IInv
<1>w. Len(wire[p]) >= 1 /\ wire[p][1] = Empty
  BY <1>t, HeadTailProperties, EmptySeq, LenProperties DEF ReceiveEmpty
<1>r. Received(e) = Len(out[e])
  BY DEF ReceiveEmpty, Received
<1>1. /\ Empty # Len(out[e]) + 1 /\ 1 \in 1 .. Len(wire[p])
      /\ Len(out[e]) + 1 - 1 = Len(out[e])
  BY <1>t, <1>w DEF Empty
<1>2. pc[p] = "gone" /\ Complete(p, Len(out[e]) + 1 - 1)
  BY <1>p, <1>r, <1>w, <1>1 DEF EndSound, WireSound
<1>3. QED
  BY <1>1, <1>2

\* The empty frame is received, or something breaks.
LEMMA EndCauses ==
    ASSUME IInv, CausesSound, Fine' => Fine, NEW e \in Ends,
           ReceiveEmpty(e) \/ Fails(e), NEW d \in Ends
    PROVE  GoneSound(d)' /\ EndedSound(d)'
<1> DEFINE p == Peer(e)
<1>p. p \in Ends /\ p # e /\ TypeOK
  BY PeerFacts DEF IInv
<1>1. /\ pc[e] # "gone" /\ pc'[e] = "gone" /\ pc'[p] = pc[p] /\ UNCHANGED <<sent, eof, out>>
  BY <1>p DEF ReceiveEmpty, Fails, TypeOK
<1>2. CASE ReceiveEmpty(e)
  <2>1. pc[p] = "gone" /\ Complete(p, Len(out[e]))
    BY <1>2, ReceiveEmptyAll
  <2>2. Fine' => ~refused
    BY <1>2, Zenon DEF ReceiveEmpty, Fine
  <2>3. QED
    BY <1>1, <2>1, <2>2, LeaveCauses DEF Complete
<1>3. CASE Fails(e)
  <2>1. ~Fine'
    BY <1>3, Zenon DEF Fails, Fine
  <2>2. QED
    BY <1>1, <2>1, LeaveCauses
<1>4. QED
  BY <1>2, <1>3

\* Every step of a loop or of an application keeps CausesSound.
LEMMA CausesNext ==
    ASSUME IInv, StreamsSound, CausesSound, [Next]_vars
    PROVE  CausesSound'
<1>f. Fine' => Fine
  BY FineBefore
<1> SUFFICES ASSUME NEW d \in Ends  PROVE GoneSound(d)' /\ EndedSound(d)'
  BY HandNext DEF CausesSound, CauseSound
<1>1. CASE UNCHANGED vars
  <2>1. CauseSound(d)
    BY DEF CausesSound
  <2>2. Told(d)' <=> Told(d)
    BY <1>1 DEF vars, Told
  <2>3. QED
    BY <1>1, <1>f, <2>1, <2>2 DEF vars, CauseSound, GoneSound, EndedSound, Behind
<1>2. ASSUME NEW e \in Ends, Step(e) \/ Fails(e) \/ Submit(e) \/ CloseStream(e)
      PROVE  GoneSound(d)' /\ EndedSound(d)'
  <2>1. CASE Submit(e) \/ CloseStream(e)
    BY <2>1, ApplicationCauses
  <2>2. CASE ConnectLocal(e) \/ ReadChunk(e) \/ ReadEof(e) \/ WriteChunk(e)
    BY <1>f, <2>2, InnerCauses
  <2>3. CASE SendFrame(e)
    BY <1>f, <2>3, InnerCauses, SendEmptyCauses
  <2>4. CASE SendFails(e) \/ WireEnds(e)
    BY <1>f, <2>4, DropCauses
  <2>5. CASE ReceiveData(e)
    BY <1>f, <2>5, ReceiveDataCauses
  <2>6. CASE ReceiveEmpty(e) \/ Fails(e)
    BY <1>f, <2>6, EndCauses
  <2>7. QED
    BY <1>2, <2>1, <2>2, <2>3, <2>4, <2>5, <2>6, Zenon DEF Step
<1>3. QED
  BY <1>1, <1>2 DEF Next, bridge_stream_to_framed, bridge_local_tcp_to_framed, Ends

\* Both hold in every reachable state.
LEMMA Causes == Spec => [](IInv /\ StreamsSound /\ CausesSound)
  BY InitInv, NextInv, StreamsInit, StreamsNext, CausesInit, CausesNext, PTL DEF Spec

\* An application that waits for the answer, and whose data has all arrived, sees the
\* end only after it has everything; something broken or a service that was never
\* reached is the exception.
THEOREM AnswersComplete == Spec => []AnswerComplete
<1>1. IInv /\ StreamsSound /\ CausesSound => AnswerComplete
  <2> SUFFICES ASSUME StreamsSound, CausesSound, IInv, NEW e \in Ends,
                      shut[e] # "open", ~broke, ~refused, ~eof[e], Len(out[Peer(e)]) = sent[e]
               PROVE  eof[Peer(e)] /\ Len(out[e]) = sent[Peer(e)]
    BY Zenon DEF AnswerComplete
  <2>1. Fine
    BY Zenon DEF Fine
  <2>2. pc[e] = "gone"
    BY DEF StreamsSound, StreamSound
  <2>3. ~Behind(e)
    <3>1. sent[e] \in Nat
      BY Lengths DEF IInv
    <3>2. ~(sent[e] < sent[e])
      BY <3>1
    <3>3. QED
      BY <3>2 DEF Behind
  <2>4. EndedSound(e)
    BY DEF CausesSound, CauseSound
  <2>5. QED
    BY <2>1, <2>2, <2>3, <2>4 DEF EndedSound
<1>2. QED
  BY <1>1, Causes, PTL
-----------------------------------------------------------------------------
(* The bridge implements Tunnel *)

\* A service that was refused has been given nothing, and neither has the user.
LEMMA RefusedEmpty ==
    ASSUME IInv, refused
    PROVE  /\ pc["client"] \in {"send", "gone"}
           /\ taken["client"] = 0 /\ Len(out["server"]) = 0 /\ pc["server"] # "write"
<1>1. "server" \in Ends /\ "client" \in Ends /\ Peer("server") = "client"
  BY DEF Ends, Peer
<1>2. SendSound("client") /\ OutSound("server") /\ Len(out["server"]) \in Nat
  BY <1>1, Lengths DEF IInv, EndSound
<1>3. pc["client"] \in {"send", "gone"} /\ taken["client"] = 0
  BY <1>2 DEF SendSound
<1>4. Received("server") <= 0
  BY <1>1, <1>2, <1>3 DEF OutSound
<1>5. QED
  BY <1>2, <1>3, <1>4 DEF Received

\* The initial states map to initial states of Tunnel.
LEMMA TunnelInit == Init => Stream!Init
  BY DEF Init, Stream!Init, Ends, Stream!Ends

\* The two modules mean the same ends.
LEMMA SameEnds == Stream!Ends = Ends /\ \A e \in Ends : Stream!Peer(e) = Peer(e)
  BY DEF Ends, Stream!Ends, Peer, Stream!Peer

\* The client finds nobody at the local address.
LEMMA ConnectLocalTunnel ==
    ASSUME IInv, StreamsSound, NEW e \in Ends, ConnectLocal(e)
    PROVE  Stream!Refuse \/ UNCHANGED Stream!vars
<1>1. UNCHANGED <<sent, eof, out, shut, broke>> /\ pc[e] = "connect"
  BY DEF ConnectLocal
<1>2. refused' = refused \/ refused' = TRUE
  BY Zenon DEF ConnectLocal
<1>3. CASE refused' = refused
  BY <1>1, <1>3, Zenon DEF Stream!vars
<1>4. CASE refused' = TRUE
  <2>1. e = "client" /\ taken[e] = 0 /\ OutSound("server") /\ SendSound(e)
    BY <1>1 DEF IInv, EndSound, SendSound, Ends
  <2>2. ~refused
    BY <1>1, <2>1 DEF SendSound
  <2>3. out["client"] = <<>>
    BY <1>1, <2>1 DEF StreamsSound, StreamSound, Ends
  <2>4. out["server"] = <<>>
    <3>1. "server" \in Ends /\ Peer("server") = "client"
      BY DEF Ends, Peer
    <3>2. out["server"] \in Seq(Frames) /\ Len(out["server"]) \in Nat
      BY <3>1, Lengths DEF IInv
    <3>3. Received("server") <= 0
      BY <2>1, <3>1 DEF OutSound
    <3>4. Len(out["server"]) = 0
      BY <3>2, <3>3 DEF Received
    <3>5. QED
      BY <3>2, <3>4, EmptySeq
  <2>5. \A d \in Stream!Ends : out[d] = <<>>
    BY <2>3, <2>4 DEF Stream!Ends
  <2>6. QED
    BY <1>1, <1>4, <2>2, <2>5, Zenon DEF Stream!Refuse
<1>5. QED
  BY <1>2, <1>3, <1>4

\* Reading and receiving are inside the tunnel.
LEMMA InsideTunnel ==
    ASSUME NEW e \in Ends, ReadChunk(e) \/ ReadEof(e) \/ ReceiveData(e)
    PROVE  UNCHANGED Stream!vars
  BY DEF ReadChunk, ReadEof, ReceiveData, Stream!vars

\* A loop that breaks ends its stream.
LEMMA FailsTunnel ==
    ASSUME StreamsSound, NEW e \in Ends, Fails(e)
    PROVE  Stream!Break(e)
<1>1. UNCHANGED <<sent, eof, out, refused>> /\ pc[e] # "gone"
  BY DEF Fails
<1>2. \E how \in {"fin", "reset"} : shut' = [shut EXCEPT ![e] = how]
  BY DEF Fails
<1>3. shut[e] = "open"
  BY <1>1 DEF StreamsSound, StreamSound
<1>4. broke' = TRUE
  BY Zenon DEF Fails
<1>5. QED
  BY <1>1, <1>2, <1>3, <1>4, Zenon DEF Stream!Break

\* A loop that is left in any other way ends its stream for one of Tunnel's reasons.
LEMMA LeaveTunnel ==
    ASSUME IInv, StreamsSound, CausesSound', NEW e \in Ends,
           \/ SendFrame(e) /\ hand[e] = Empty
           \/ SendFails(e) \/ WireEnds(e) \/ ReceiveEmpty(e)
    PROVE  Stream!End(e)
<1>p. Peer(e) \in Ends /\ TypeOK /\ OutSound(Peer(e)) /\ Peer(Peer(e)) = e
  BY PeerFacts DEF IInv, EndSound
<1>1. UNCHANGED <<sent, eof, out, refused, broke>> /\ pc[e] # "gone" /\ pc'[e] = "gone"
  BY <1>p DEF SendFrame, SendFails, WireEnds, ReceiveEmpty, Leave, TypeOK
<1>2. PICK how \in Dropped(e) : shut' = [shut EXCEPT ![e] = how]
  BY DEF SendFrame, SendFails, WireEnds, ReceiveEmpty, Leave
<1>3. shut[e] = "open"
  BY <1>1 DEF StreamsSound, StreamSound
<1>4. how \in IF Stream!Unheard(e) THEN {"fin", "reset"} ELSE {"fin"}
  <2>1. Received(Peer(e)) <= taken[e] /\ taken[e] <= sent[e]
    BY <1>p DEF OutSound, StreamsSound, StreamSound
  <2>2. /\ Len(out[Peer(e)]) \in Nat /\ Received(Peer(e)) \in Nat
        /\ taken[e] \in Nat /\ sent[e] \in Nat
    BY <1>p, Lengths
  <2>3. Len(out[Peer(e)]) <= Received(Peer(e))
    BY <2>2 DEF Received
  <2>4. taken[e] # sent[e] => Len(out[Peer(e)]) < sent[e]
    BY <2>1, <2>2, <2>3
  <2>5. taken[e] # sent[e] => Stream!Unheard(e)
    BY <2>4, SameEnds DEF Stream!Unheard
  <2>6. QED
    BY <2>5 DEF Dropped
<1>5. Stream!Complete(e) \/ broke \/ refused \/ eof[e] \/ Stream!Unheard(e)
  <2>1. Fine' /\ ~eof'[e] => Behind(e)' \/ (eof'[Peer(e)] /\ Len(out'[e]) = sent'[Peer(e)])
    BY <1>1 DEF CausesSound, CauseSound, EndedSound
  <2>2. Behind(e)' => Stream!Unheard(e)
    BY <1>1, SameEnds DEF Behind, Stream!Unheard
  <2>3. eof'[Peer(e)] /\ Len(out'[e]) = sent'[Peer(e)] => Stream!Complete(e)
    BY <1>1, SameEnds DEF Stream!Complete
  <2>4. ~broke /\ ~refused => Fine'
    BY <1>1, Zenon DEF Fine
  <2>5. eof'[e] => eof[e]
    BY <1>1
  <2>6. QED
    BY <2>1, <2>2, <2>3, <2>4, <2>5, Zenon
<1>6. \E h \in IF Stream!Unheard(e) THEN {"fin", "reset"} ELSE {"fin"} :
          shut' = [shut EXCEPT ![e] = h]
  BY <1>2, <1>4, Zenon
<1>7. UNCHANGED <<sent, eof, out, refused, broke>>
  BY <1>1
<1>8. QED
  BY <1>3, <1>5, <1>6, <1>7, Zenon DEF Stream!End

\* A chunk that is sent is still inside.
LEMMA SendTunnel ==
    ASSUME NEW e \in Ends, SendFrame(e), hand[e] # Empty
    PROVE  UNCHANGED Stream!vars
  BY DEF SendFrame, Stream!vars

\* What is written is the other's next chunk.
LEMMA WriteChunkTunnel ==
    ASSUME IInv, StreamsSound, NEW e \in Ends, WriteChunk(e)
    PROVE  Stream!Deliver(e)
<1>1. /\ UNCHANGED <<sent, eof, shut, refused, broke>> /\ pc[e] = "write"
      /\ out' = [out EXCEPT ![e] = Append(@, hand[e])]
  BY DEF WriteChunk
<1>2. shut[e] = "open"
  BY <1>1 DEF StreamsSound, StreamSound
<1>3. ~refused
  BY <1>1, RefusedEmpty DEF Ends
<1>4. /\ OutSound(e) /\ Peer(e) \in Ends /\ Len(out[e]) \in Nat
      /\ taken[Peer(e)] \in Nat /\ sent[Peer(e)] \in Nat
  BY PeerFacts, Lengths DEF IInv, EndSound
<1>5. hand[e] = Len(out[e]) + 1 /\ Len(out[e]) + 1 <= taken[Peer(e)]
  BY <1>1, <1>4 DEF OutSound, Received
<1>6. taken[Peer(e)] <= sent[Peer(e)]
  BY <1>4 DEF StreamsSound, StreamSound
<1>7. Len(out[e]) < sent[Peer(e)]
  BY <1>4, <1>5, <1>6
<1>8. out' = [out EXCEPT ![e] = Append(@, Len(@) + 1)]
  BY <1>1, <1>5
<1>9. QED
  BY <1>1, <1>2, <1>3, <1>7, <1>8, SameEnds DEF Stream!Deliver

\* The applications do the same in both.
LEMMA ApplicationTunnel ==
    ASSUME NEW e \in Ends, Submit(e) \/ CloseStream(e)
    PROVE  Stream!Submit(e) \/ Stream!CloseStream(e)
  BY DEF Submit, CloseStream, Stream!Submit, Stream!CloseStream

\* Every step maps to a step of Tunnel or leaves its variables alone.
LEMMA TunnelStep ==
    ASSUME IInv, StreamsSound, CausesSound', [Next]_vars
    PROVE  [Stream!Next]_(Stream!vars)
<1>1. CASE UNCHANGED vars
  BY <1>1 DEF vars, Stream!vars
<1>2. ASSUME NEW e \in Ends, Step(e) \/ Fails(e) \/ Submit(e) \/ CloseStream(e)
      PROVE  Stream!Next \/ UNCHANGED Stream!vars
  <2>e. e \in Stream!Ends
    BY SameEnds
  <2>1. CASE ConnectLocal(e)
    BY <2>1, ConnectLocalTunnel, Zenon DEF Stream!Next
  <2>2. CASE ReadChunk(e) \/ ReadEof(e) \/ ReceiveData(e)
    BY <2>2, InsideTunnel, Zenon
  <2>3. CASE SendFrame(e) \/ SendFails(e) \/ WireEnds(e) \/ ReceiveEmpty(e)
    BY <2>3, <2>e, LeaveTunnel, SendTunnel, Zenon DEF Stream!Next
  <2>4. CASE Fails(e)
    BY <2>4, <2>e, FailsTunnel, Zenon DEF Stream!Next
  <2>5. CASE WriteChunk(e)
    BY <2>5, <2>e, WriteChunkTunnel, Zenon DEF Stream!Next
  <2>6. CASE Submit(e) \/ CloseStream(e)
    BY <2>6, <2>e, ApplicationTunnel, Zenon DEF Stream!Next
  <2>7. QED
    BY <1>2, <2>1, <2>2, <2>3, <2>4, <2>5, <2>6, Zenon DEF Step
<1>3. CASE Next
  <2>1. PICK e \in Ends : Step(e) \/ Fails(e) \/ Submit(e) \/ CloseStream(e)
    BY <1>3 DEF Next, bridge_stream_to_framed, bridge_local_tcp_to_framed, Ends
  <2>2. QED
    BY <1>2, <2>1
<1>4. QED
  BY <1>1, <1>3

\* The two loops and the work connection between them implement Tunnel: each of the
\* two applications reads the other's chunks in order and sees an end, orderly or not,
\* for one of Tunnel's reasons.
THEOREM ImplementsTunnel == Spec => TunnelSpec
  BY Causes, TunnelInit, TunnelStep, PTL DEF Spec, TunnelSpec, Stream!Spec
=============================================================================
