---------------------------- MODULE MCQdpMachine ----------------------------
(* QdpMachine on small instances.                                            *)
EXTENDS QdpMachine

AllThreads == <<"Event", "Ctrl", "Appcmd", "Data", "Heartbeat", "Watchdog">>

\* A control connection without a heartbeat or a watchdog, and a data connection.
ControlThreads == <<"Event", "Ctrl", "Appcmd">>
DataThreads == <<"Event", "Ctrl", "Appcmd", "Data">>
=============================================================================
