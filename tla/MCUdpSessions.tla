---------------------------- MODULE MCUdpSessions ---------------------------
(* Instance of UdpSessions: three datagrams of two sources, one of them      *)
(* empty, and channels that are full with a single datagram.                 *)
EXTENDS UdpSessions
=============================================================================
