----------------------------- MODULE MCWSClient -----------------------------
(* Small instances of WSClient for TLC. *)
EXTENDS WSClient

CONSTANTS j1, j2

OneJob == {j1}
TwoJobs == {j1, j2}

EveryKind == AllKinds
JobTraffic == {"fetch", "badbody", "ping"}

\* A client that returned, or panicked, takes no further step: a deadlock
\* anywhere else is an error.
Terminated == Over /\ UNCHANGED vars
MCSpec == Init /\ [][Next \/ Terminated]_vars
MCFairSpec == MCSpec /\ Fairness

=============================================================================
