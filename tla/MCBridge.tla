------------------------------ MODULE MCBridge ------------------------------
(* Instance of Bridge: applications that send a few chunks each over a work  *)
(* connection that holds fewer, so that both directions can fill up.         *)
EXTENDS Bridge
=============================================================================
