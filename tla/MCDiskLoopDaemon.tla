-------------------------- MODULE MCDiskLoopDaemon --------------------------
(* DiskLoopDaemon on small instances.                                       *)
EXTENDS DiskLoopDaemon, TLC

Symmetry == Permutations(Pid)
=============================================================================
