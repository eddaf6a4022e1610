----------------------------- MODULE MCWorkConn -----------------------------
(* Instance of WorkConn: two streams and one UDP source, one restart of the  *)
(* server, and ids enough for all three, so that ids repeat across the       *)
(* restart and every order of request, answer and timeout happens.           *)
EXTENDS WorkConn

CONSTANTS s1, s2, u1
MCConns == {s1, s2, u1}
MCUdpConns == {u1}
=============================================================================
