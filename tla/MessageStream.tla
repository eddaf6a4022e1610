--------------------------- MODULE MessageStream ---------------------------
(***************************************************************************)
(* What a Framed connection promises its two ends in one direction, and    *)
(* what the models of bridges, UDP sessions and control sessions take it   *)
(* for: messages come out as they were put in, in order, until the         *)
(* connection ends.  An orderly end comes behind the last of them; when    *)
(* the connection breaks, the reader sees an error, and those under way    *)
(* may be lost, from some message on.  A message that is too long ends the *)
(* connection.                                                             *)
(***************************************************************************)
EXTENDS Naturals, Sequences

CONSTANTS Messages, TooLong

VARIABLES sent,      \* messages put in
          received,  \* messages that have come out
          closed,    \* nothing more can be put in
          broken,    \* the connection has broken
          status     \* the reader's view: open, ended, failed

vars == <<sent, received, closed, broken, status>>

Init == sent = <<>> /\ received = <<>> /\ closed = FALSE /\ broken = FALSE /\ status = "open"

\* The message that comes out next.
Pending == Len(received) < Len(sent)
Upcoming == sent[Len(received) + 1]

Send(m) ==
    /\ ~closed
    /\ sent' = Append(sent, m)
    /\ UNCHANGED <<received, closed, broken, status>>

Close ==
    /\ closed' = TRUE
    /\ UNCHANGED <<sent, received, broken, status>>

Break ==
    /\ closed' = TRUE /\ broken' = TRUE
    /\ UNCHANGED <<sent, received, status>>

Receive ==
    /\ status = "open"
    /\ Pending /\ Upcoming \notin TooLong
    /\ received' = Append(received, Upcoming)
    /\ UNCHANGED <<sent, closed, broken, status>>

\* The reader sees the end, and has everything.
End ==
    /\ status = "open"
    /\ closed /\ ~broken /\ ~Pending
    /\ status' = "ended"
    /\ UNCHANGED <<sent, received, closed, broken>>

\* The reader sees an error: the connection has broken, or the next message is
\* too long.
Fail ==
    /\ status = "open"
    /\ broken \/ (Pending /\ Upcoming \in TooLong)
    /\ status' = "failed"
    /\ UNCHANGED <<sent, received, closed, broken>>

Next == (\E m \in Messages : Send(m)) \/ Close \/ Break \/ Receive \/ End \/ Fail

Spec == Init /\ [][Next]_vars
=============================================================================
