----------------------------- MODULE MCLifecycle -----------------------------
(* Small instances of Lifecycle for TLC. *)
EXTENDS Lifecycle

CONSTANTS
    shell1, systemd

OneShell == {shell1}
NoService == {}
Systemd == {systemd}

\* The commands of the command line that concern the daemon, and those that
\* change something.
EveryCommand == {"start", "stop", "restart", "status"}
Changing == {"start", "stop"}

=============================================================================
