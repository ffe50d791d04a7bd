---------------------------- MODULE MCDaemonRun ----------------------------
(* A small instance of DaemonRun for TLC. *)
EXTENDS DaemonRun
=============================================================================
