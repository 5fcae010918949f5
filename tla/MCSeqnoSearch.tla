--------------------------- MODULE MCSeqnoSearch ---------------------------
(* SeqnoSearch over every loop and every target of a small size.            *)
EXTENDS SeqnoSearch
=============================================================================
