------------------------------- MODULE Bridge -------------------------------
(***************************************************************************)
(* A bridged connection: an external user's stream, the server's loop      *)
(* (bridge_stream_to_framed), the work connection, the client's loop       *)
(* (bridge_local_tcp_to_framed) and the stream of the local service.       *)
(*                                                                         *)
(* The two loops are alike.  Each waits for its own stream or for a frame, *)
(* whichever is ready, and handles what it got to the end before it waits  *)
(* again: while it sends a frame it does not receive, and while it writes  *)
(* to its stream neither.  A stream's data is a sequence of numbered       *)
(* chunks; an empty Data frame says that the sender's stream has ended.    *)
(*                                                                         *)
(* A loop that is left drops its stream, which its application sees as the *)
(* orderly end of a TCP connection (FIN), as if the other application had  *)
(* closed, unless some of what it sent was not read (RST) or the stream    *)
(* broke.                                                                  *)
(***************************************************************************)
EXTENDS Naturals, Sequences

CONSTANTS Chunks,      \* how many chunks an application sends at most
          Room         \* frames the work connection holds in each direction

ASSUME BoundsAssumption == Chunks \in Nat /\ Room \in Nat \ {0}

VARIABLES sent,        \* chunks an application has sent
          eof,         \* it has closed its stream for sending
          taken,       \* chunks the loop at its side has read
          wire,        \* frames from a loop to the other
          out,         \* chunks written to an application
          shut,        \* how an application's stream has ended for reading
          pc,          \* where a loop is
          hand,        \* the frame it is sending or writing
          refused,     \* the local service could not be reached
          broke        \* history: a stream or the work connection broke

vars == <<sent, eof, taken, wire, out, shut, pc, hand, refused, broke>>

Ends == {"server", "client"}
Peer(e) == IF e = "server" THEN "client" ELSE "server"

\* The frame without data; chunks are numbered from 1.
Empty == 0

\* connect: the client connects to the local service; select: at the select;
\* send, write: in the middle of framed.send, of write_all; gone: the loop has
\* been left, and its stream and its side of the work connection dropped.
PcStates == {"connect", "select", "send", "write", "gone"}

Init ==
    /\ sent    = [e \in Ends |-> 0]
    /\ eof     = [e \in Ends |-> FALSE]
    /\ taken   = [e \in Ends |-> 0]
    /\ wire    = [e \in Ends |-> <<>>]
    /\ out     = [e \in Ends |-> <<>>]
    /\ shut    = [e \in Ends |-> "open"]
    /\ pc      = [e \in Ends |-> IF e = "client" THEN "connect" ELSE "select"]
    /\ hand    = [e \in Ends |-> Empty]
    /\ refused = FALSE
    /\ broke   = FALSE

-----------------------------------------------------------------------------
(* The applications: the user ("server" end) and the local service *)

Submit(e) ==
    /\ sent[e] < Chunks /\ ~eof[e]
    /\ sent' = [sent EXCEPT ![e] = @ + 1]
    /\ UNCHANGED <<eof, taken, wire, out, shut, pc, hand, refused, broke>>

CloseStream(e) ==
    /\ ~eof[e]
    /\ eof' = [eof EXCEPT ![e] = TRUE]
    /\ UNCHANGED <<sent, taken, wire, out, shut, pc, hand, refused, broke>>

-----------------------------------------------------------------------------
(* The loop at one end *)

\* open_work_connection connects to the local service; if it cannot, it sends
\* the empty frame and returns.
ConnectLocal(e) ==
    /\ pc[e] = "connect"
    /\ \/ /\ pc' = [pc EXCEPT ![e] = "select"]
          /\ UNCHANGED <<hand, refused>>
       \/ /\ pc' = [pc EXCEPT ![e] = "send"]
          /\ hand' = [hand EXCEPT ![e] = Empty]
          /\ refused' = TRUE
    /\ UNCHANGED <<sent, eof, taken, wire, out, shut, broke>>

\* Mutant: the buffer is read into again before it has been sent.
ReadOver(e) ==
    /\ pc[e] = "select"
    /\ taken[e] < sent[e]
    /\ taken' = [taken EXCEPT ![e] = sent[e]]
    /\ hand' = [hand EXCEPT ![e] = sent[e]]
    /\ pc' = [pc EXCEPT ![e] = "send"]
    /\ UNCHANGED <<sent, eof, wire, out, shut, refused, broke>>

\* stream.read = Ok(n).
ReadChunk(e) ==
    /\ pc[e] = "select"
    /\ taken[e] < sent[e]
    /\ taken' = [taken EXCEPT ![e] = @ + 1]
    /\ hand' = [hand EXCEPT ![e] = taken[e] + 1]
    /\ pc' = [pc EXCEPT ![e] = "send"]
    /\ UNCHANGED <<sent, eof, wire, out, shut, refused, broke>>

\* Mutant: a closed stream is noticed before what it still holds is read.
ReadEofEarly(e) ==
    /\ pc[e] = "select"
    /\ eof[e]
    /\ hand' = [hand EXCEPT ![e] = Empty]
    /\ pc' = [pc EXCEPT ![e] = "send"]
    /\ UNCHANGED <<sent, eof, taken, wire, out, shut, refused, broke>>

\* stream.read = Ok(0).
ReadEof(e) ==
    /\ pc[e] = "select"
    /\ taken[e] = sent[e] /\ eof[e]
    /\ hand' = [hand EXCEPT ![e] = Empty]
    /\ pc' = [pc EXCEPT ![e] = "send"]
    /\ UNCHANGED <<sent, eof, taken, wire, out, shut, refused, broke>>

\* How an application sees its stream dropped.
Dropped(e) == IF taken[e] = sent[e] THEN {"fin"} ELSE {"fin", "reset"}

\* The loop is left.  What is on its way to it is lost, and if that is
\* anything, the connection is reset, which may also take frames of its own,
\* in w, that have not arrived.
Leave(e, w) ==
    /\ pc' = [pc EXCEPT ![e] = "gone"]
    /\ \E n \in IF wire[Peer(e)] = <<>> THEN {Len(w)} ELSE 0 .. Len(w) :
          wire' = [wire EXCEPT ![e] = SubSeq(w, 1, n), ![Peer(e)] = <<>>]
    /\ \E how \in Dropped(e) : shut' = [shut EXCEPT ![e] = how]

\* Mutant: frames are handed over without waiting for room.
SendAtOnce(e) ==
    /\ pc[e] = "send"
    /\ hand[e] # Empty
    /\ wire' = [wire EXCEPT ![e] = Append(@, hand[e])]
    /\ pc' = [pc EXCEPT ![e] = "select"]
    /\ UNCHANGED <<sent, eof, taken, out, shut, hand, refused, broke>>

\* framed.send has found room; after the empty frame comes framed.close.
SendFrame(e) ==
    LET w == Append(wire[e], hand[e])
    IN  /\ pc[e] = "send"
        /\ pc[Peer(e)] # "gone"
        /\ Len(wire[e]) < Room
        /\ \/ /\ hand[e] = Empty
              /\ Leave(e, w)
           \/ /\ hand[e] # Empty
              /\ pc' = [pc EXCEPT ![e] = "select"]
              /\ wire' = [wire EXCEPT ![e] = w]
              /\ UNCHANGED shut
        /\ UNCHANGED <<sent, eof, taken, out, hand, refused, broke>>

\* Mutant: the error is ignored, and the frame sent again and again.
SendFailsIgnored(e) == FALSE /\ UNCHANGED vars

\* framed.send fails: the other side is gone.
SendFails(e) ==
    /\ pc[e] = "send"
    /\ pc[Peer(e)] = "gone"
    /\ Leave(e, wire[e])
    /\ UNCHANGED <<sent, eof, taken, out, hand, refused, broke>>

\* Mutant: a Data frame falls through to the arm that ignores other messages.
ReceiveIgnored(e) ==
    /\ pc[e] = "select"
    /\ wire[Peer(e)] # <<>>
    /\ Head(wire[Peer(e)]) # Empty
    /\ wire' = [wire EXCEPT ![Peer(e)] = Tail(@)]
    /\ UNCHANGED <<sent, eof, taken, out, shut, pc, hand, refused, broke>>

\* framed.next = Some(Ok(Data)) with data, which is then written.
ReceiveData(e) ==
    /\ pc[e] = "select"
    /\ wire[Peer(e)] # <<>>
    /\ Head(wire[Peer(e)]) # Empty
    /\ hand' = [hand EXCEPT ![e] = Head(wire[Peer(e)])]
    /\ wire' = [wire EXCEPT ![Peer(e)] = Tail(@)]
    /\ pc' = [pc EXCEPT ![e] = "write"]
    /\ UNCHANGED <<sent, eof, taken, out, shut, refused, broke>>

\* Mutant: the loop goes on when its stream has been shut down.
ReceiveEmptyStays(e) ==
    /\ pc[e] = "select"
    /\ wire[Peer(e)] # <<>>
    /\ Head(wire[Peer(e)]) = Empty
    /\ shut' = [shut EXCEPT ![e] = "fin"]
    /\ wire' = [wire EXCEPT ![Peer(e)] = <<>>]
    /\ UNCHANGED <<sent, eof, taken, out, pc, hand, refused, broke>>

\* The empty frame: stream.shutdown, and the loop is left, which drops the stream.
ReceiveEmpty(e) ==
    /\ pc[e] = "select"
    /\ wire[Peer(e)] # <<>>
    /\ Head(wire[Peer(e)]) = Empty
    /\ \E how \in Dropped(e) : shut' = [shut EXCEPT ![e] = how]
    /\ pc' = [pc EXCEPT ![e] = "gone"]
    /\ wire' = [wire EXCEPT ![Peer(e)] = <<>>]
    /\ UNCHANGED <<sent, eof, taken, out, hand, refused, broke>>

\* framed.next = None or an error: the other side is gone.
WireEnds(e) ==
    /\ pc[e] = "select"
    /\ wire[Peer(e)] = <<>>
    /\ pc[Peer(e)] = "gone"
    /\ Leave(e, wire[e])
    /\ UNCHANGED <<sent, eof, taken, out, hand, refused, broke>>

\* write_all succeeds.
WriteChunk(e) ==
    /\ pc[e] = "write"
    /\ out' = [out EXCEPT ![e] = Append(@, hand[e])]
    /\ pc' = [pc EXCEPT ![e] = "select"]
    /\ UNCHANGED <<sent, eof, taken, wire, shut, hand, refused, broke>>

\* read, write_all, framed.send or framed.next returns an error, because the
\* stream or the work connection broke; frames of the loop may be lost with it.
\* If it was the work connection, the stream is only dropped.
Fails(e) ==
    /\ pc[e] \in {"select", "send", "write"}
    /\ pc' = [pc EXCEPT ![e] = "gone"]
    /\ \E n \in 0 .. Len(wire[e]) :
          wire' = [wire EXCEPT ![e] = SubSeq(@, 1, n), ![Peer(e)] = <<>>]
    /\ \E how \in {"fin", "reset"} : shut' = [shut EXCEPT ![e] = how]
    /\ broke' = TRUE
    /\ UNCHANGED <<sent, eof, taken, out, hand, refused>>

Step(e) ==
    \/ ConnectLocal(e) \/ ReadChunk(e) \/ ReadEof(e) \/ SendFrame(e) \/ SendFails(e)
    \/ ReceiveData(e) \/ ReceiveEmpty(e) \/ WireEnds(e) \/ WriteChunk(e)

bridge_stream_to_framed == Step("server") \/ Fails("server")
bridge_local_tcp_to_framed == Step("client") \/ Fails("client")

Next ==
    \/ bridge_stream_to_framed
    \/ bridge_local_tcp_to_framed
    \/ \E e \in Ends : Submit(e) \/ CloseStream(e)

Spec == Init /\ [][Next]_vars

\* Both loops are tokio tasks that run whenever they can; applications read
\* what is written to them, and a loop that ends is noticed by the other (the
\* machines do not vanish: work connections carry no heartbeat).
FairSpec == Spec /\ \A e \in Ends : WF_vars(Step(e))

-----------------------------------------------------------------------------
(* Properties *)

Frames == 0 .. Chunks

\* Loops and streams are in states the code has, and no direction of the work
\* connection holds more frames than it has room for.
TypeOK ==
    /\ sent \in [Ends -> Frames] /\ eof \in [Ends -> BOOLEAN]
    /\ taken \in [Ends -> Frames]
    /\ wire \in [Ends -> Seq(Frames)] /\ \A e \in Ends : Len(wire[e]) <= Room
    /\ out \in [Ends -> Seq(Frames)]
    /\ shut \in [Ends -> {"open", "fin", "reset"}]
    /\ pc \in [Ends -> PcStates]
    /\ hand \in [Ends -> Frames]
    /\ refused \in BOOLEAN /\ broke \in BOOLEAN

\* An application receives the other's chunks from the first on, in order,
\* none twice and none left out, whatever fails and whoever closes first.
InOrder ==
    \A e \in Ends :
        /\ Len(out[e]) <= taken[Peer(e)]
        /\ \A i \in 1 .. Len(out[e]) : out[e][i] = i

\* An application that has not closed its own stream, and whose data has all been
\* delivered, does not see the end before it has all that the other sent before it
\* closed.  Since a loop that is left makes its stream look closed by the other
\* application, the end alone says nothing, and there are four ways to lose data
\* under an orderly end: something broke; the local service could not be reached;
\* the application closed first (there is no half-closed connection: what was on
\* its way to it is dropped); or the other closed without having been given all
\* that this one sent (what it sent itself may then be lost on the way).
AnswerComplete ==
    \A e \in Ends :
        shut[e] # "open" /\ ~broke /\ ~refused /\ ~eof[e] /\ Len(out[Peer(e)]) = sent[e] =>
            eof[Peer(e)] /\ Len(out[e]) = sent[Peer(e)]

\* What the loops are to the two applications: each is given what the other has
\* sent, chunk by chunk and while its stream is open, and sees one end of it, which
\* comes after everything but for the reasons above, and after which nothing comes;
\* a service that cannot be reached gets nothing.
Stream == INSTANCE Tunnel
TunnelSpec == Stream!Spec

\* Neither end outlives the other: no half of a bridge is left behind.
BothEnd ==
    \A e \in Ends : pc[e] = "gone" ~> pc[Peer(e)] = "gone"

\* Both loops are in framed.send and both directions are full: neither receives
\* what would make room for the other.
BothFull == \A e \in Ends : pc[e] = "send" /\ Len(wire[e]) = Room

\* What a loop has read off its stream is written to the other stream, or the
\* bridge ends; the only way to stand still for good is that each loop waits in
\* framed.send for the other.
Forwards ==
    \A e \in Ends, n \in 1 .. Chunks :
        \/ []((taken[e] >= n) => <>(Len(out[Peer(e)]) >= n \/ pc[e] = "gone"))
        \/ <>[]BothFull
=============================================================================
