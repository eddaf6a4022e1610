-------------------------- MODULE MCClientSessions --------------------------
(* Instances of ClientSessions: client a connects twice, client b once, and  *)
(* one or two tasks have a message for client a.                             *)
EXTENDS ClientSessions

CONSTANTS a, b, a1, a2, b1
MCClients == {a, b}
MCHandlers == {a1, a2, b1}
MCClientOf == [h \in MCHandlers |-> IF h = b1 THEN b ELSE a]
MCSendsTo == [s \in Senders |-> a]
=============================================================================
