----------------------------- MODULE Rendezvous -----------------------------
(***************************************************************************)
(* What the server promises an external user whose connection it accepts   *)
(* (proxy_listener.rs, handle_stream_proxy_conn and handle_udp_packet):    *)
(* the connection is served by exactly one work connection, or refused,    *)
(* once and for all; no work connection serves two users; and the one that *)
(* serves a user is the one the client opened for that very user.  The one *)
(* exception is a server restart: connection ids start again at 1, so a    *)
(* work connection asked for before the restart may serve a user who came  *)
(* after it.                                                               *)
(*                                                                         *)
(* A work connection is named by the user connection it was opened for.    *)
(***************************************************************************)
EXTENDS Naturals

CONSTANTS Conns,       \* connections of external users
          None         \* no partner

VARIABLES status,      \* "idle", "open", "served", "closed" or "refused"
          partner,     \* the work connection that serves a user connection
          gen,         \* the server incarnation that accepted it
          boot         \* the running server incarnation

vars == <<status, partner, gen, boot>>

Init ==
    /\ status  = [c \in Conns |-> "idle"]
    /\ partner = [c \in Conns |-> None]
    /\ gen     = [c \in Conns |-> 0]
    /\ boot    = 0

Open(c) ==
    /\ status[c] = "idle"
    /\ status' = [status EXCEPT ![c] = "open"]
    /\ gen' = [gen EXCEPT ![c] = boot]
    /\ UNCHANGED <<partner, boot>>

\* w may serve c: nobody else is or was served by it, and it was opened for
\* c itself or on behalf of an earlier incarnation of the server.
MayServe(c, w) ==
    /\ \A d \in Conns : partner[d] # w
    /\ w = c \/ gen[w] < gen[c]

Serve(c, w) ==
    /\ status[c] = "open"
    /\ MayServe(c, w)
    /\ status' = [status EXCEPT ![c] = "served"]
    /\ partner' = [partner EXCEPT ![c] = w]
    /\ UNCHANGED <<gen, boot>>

Refuse(c) ==
    /\ status[c] = "open"
    /\ status' = [status EXCEPT ![c] = "refused"]
    /\ UNCHANGED <<partner, gen, boot>>

Close(c) ==
    /\ status[c] = "served"
    /\ status' = [status EXCEPT ![c] = "closed"]
    /\ UNCHANGED <<partner, gen, boot>>

\* A restart of the server ends every connection it was handling.
Restart ==
    /\ boot' = boot + 1
    /\ status' = [c \in Conns |-> CASE status[c] = "open"   -> "refused"
                                    [] status[c] = "served" -> "closed"
                                    [] OTHER                -> status[c]]
    /\ UNCHANGED <<partner, gen>>

Next ==
    \/ \E c \in Conns : Open(c) \/ Refuse(c) \/ Close(c)
    \/ \E c, w \in Conns : Serve(c, w)
    \/ Restart

Spec == Init /\ [][Next]_vars
=============================================================================
