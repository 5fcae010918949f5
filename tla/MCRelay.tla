------------------------------ MODULE MCRelay ------------------------------
(* Relay on small instances.                                                *)
EXTENDS Relay
=============================================================================
