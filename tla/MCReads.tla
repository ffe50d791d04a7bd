------------------------------- MODULE MCReads -------------------------------
(* The two readers of streams, side by side: they share nothing. *)
EXTENDS LogTail, Fetch

Line == {<<NL>>, <<Letter, NL>>, <<Letter, Letter, NL>>}
SmallLogs == {<<>>} \cup Line \cup {l \o m : l, m \in Line}
               \cup {l \o m \o <<Letter>> : l, m \in Line \cup {<<>>}}
SmallTails == 0 .. 3
SmallLimits == -1 .. 7

\* One of the two has little to do, or their states would multiply.
Init ==
    /\ TailInit /\ FetchInit
    /\ \/ maxBody = 0 /\ sent = 0
       \/ n = 0 /\ log = <<>>

Next ==
    \/ TailNext /\ UNCHANGED fetchVars
    \/ FetchNext /\ UNCHANGED tailVars

Spec == Init /\ [][Next]_<<tailVars, fetchVars>>
=============================================================================
