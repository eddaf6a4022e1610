------------------------------- MODULE Tunnel -------------------------------
(***************************************************************************)
(* What an external user and a local service can take the tunnel between   *)
(* them for.  Each reads what the other has sent, in order, until its      *)
(* stream ends, and after that nothing.                                    *)
(*                                                                         *)
(* It is less than a TCP connection.  There an orderly end means that one  *)
(* has everything; here it means so only to an application that has not    *)
(* closed its own stream and whose data has all been delivered, if nothing *)
(* broke.  There is no half-closed connection: an application that closes  *)
(* may be shut out from the rest of the answer, and sees an orderly end.   *)
(* If the service cannot be reached, the user's stream ends as if it had   *)
(* said nothing.                                                           *)
(***************************************************************************)
EXTENDS Naturals, Sequences

CONSTANTS Chunks       \* how many chunks an application sends at most

VARIABLES sent,        \* chunks an application has sent
          eof,         \* it has closed its stream for sending
          out,         \* chunks it was given
          shut,        \* how its stream has ended for reading
          refused,     \* the local service could not be reached
          broke        \* something between the two broke

vars == <<sent, eof, out, shut, refused, broke>>

Ends == {"server", "client"}
Peer(e) == IF e = "server" THEN "client" ELSE "server"

Init ==
    /\ sent    = [e \in Ends |-> 0]
    /\ eof     = [e \in Ends |-> FALSE]
    /\ out     = [e \in Ends |-> <<>>]
    /\ shut    = [e \in Ends |-> "open"]
    /\ refused = FALSE
    /\ broke   = FALSE

\* The application at end e sends a chunk, or nothing more.
Submit(e) ==
    /\ sent[e] < Chunks /\ ~eof[e]
    /\ sent' = [sent EXCEPT ![e] = @ + 1]
    /\ UNCHANGED <<eof, out, shut, refused, broke>>

CloseStream(e) ==
    /\ ~eof[e]
    /\ eof' = [eof EXCEPT ![e] = TRUE]
    /\ UNCHANGED <<sent, out, shut, refused, broke>>

\* Nobody listens at the local address.
Refuse ==
    /\ ~refused
    /\ \A e \in Ends : out[e] = <<>>
    /\ refused' = TRUE
    /\ UNCHANGED <<sent, eof, out, shut, broke>>

\* It is given the next chunk of the other.
Deliver(e) ==
    /\ shut[e] = "open" /\ ~refused
    /\ Len(out[e]) < sent[Peer(e)]
    /\ out' = [out EXCEPT ![e] = Append(@, Len(@) + 1)]
    /\ UNCHANGED <<sent, eof, shut, refused, broke>>

\* It has all that the other sent before it closed.
Complete(e) == eof[Peer(e)] /\ Len(out[e]) = sent[Peer(e)]

\* The other was not given all that it sent.
Unheard(e) == Len(out[Peer(e)]) < sent[e]

\* It sees the end of its stream, which is an error ("reset") only if some of what
\* it sent was left unread.
End(e) ==
    /\ shut[e] = "open"
    /\ Complete(e) \/ broke \/ refused \/ eof[e] \/ Unheard(e)
    /\ \E how \in IF Unheard(e) THEN {"fin", "reset"} ELSE {"fin"} :
          shut' = [shut EXCEPT ![e] = how]
    /\ UNCHANGED <<sent, eof, out, refused, broke>>

\* Its stream breaks, or is closed because something else has broken.
Break(e) ==
    /\ shut[e] = "open"
    /\ broke' = TRUE
    /\ \E how \in {"fin", "reset"} : shut' = [shut EXCEPT ![e] = how]
    /\ UNCHANGED <<sent, eof, out, refused>>

Next ==
    \/ Refuse
    \/ \E e \in Ends : Submit(e) \/ CloseStream(e) \/ Deliver(e) \/ End(e) \/ Break(e)

Spec == Init /\ [][Next]_vars
=============================================================================
