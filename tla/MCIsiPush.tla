------------------------------ MODULE MCIsiPush ------------------------------
(* IsiPush on a small instance: its constants are numbers.                   *)
EXTENDS IsiPush
=============================================================================
