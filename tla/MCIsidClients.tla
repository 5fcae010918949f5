---------------------------- MODULE MCIsidClients ----------------------------
(* IsidClients on a small instance.                                          *)
EXTENDS IsidClients
=============================================================================
