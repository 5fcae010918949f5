----------------------------- MODULE MCDiskLoop -----------------------------
(* DiskLoop, and the inductive invariant of its proofs, on small instances.  *)
EXTENDS DiskLoopInv
=============================================================================
