------------------------- MODULE MCClientConnector -------------------------
(* Instance of ClientConnector: times scaled down, with as much latency and  *)
(* stalling as the heartbeat can bear.                                       *)
EXTENDS ClientConnector
=============================================================================
