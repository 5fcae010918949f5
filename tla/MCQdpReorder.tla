---------------------------- MODULE MCQdpReorder ----------------------------
(* QdpReorder on a small instance.                                           *)
EXTENDS QdpReorder
=============================================================================
