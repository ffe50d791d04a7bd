----------------------------- MODULE MCSettings -----------------------------
(* Two keys of two accounts, two shells, and as many inodes as they can use. *)
EXTENDS Settings, FiniteSets, TLC

CONSTANTS k1, k2, a1, a2

MCOwner == k1 :> a1 @@ k2 :> a2

\* The two keys may be exchanged together with their accounts.
Exchanged == k1 :> k2 @@ k2 :> k1 @@ a1 :> a2 @@ a2 :> a1

Symmetric == Permutations(Shells) \cup Permutations(Inodes) \cup Permutations(Pids)
               \cup {Exchanged}

\* What the files contain and what the daemons do matter to each other only
\* in the order of the saves.  TLC follows them apart: it stops where daemons
\* run and saves overlap, or there are contents to tell apart.
Plain(c) == c.email = NoEmail /\ c.settings = "own"
InUse == Config \cap ({disk[i] : i \in Inodes} \cup {cfg[s] : s \in Shells})
Apart == (\E p \in Pids : daemon[p].at # "free") =>
           /\ ~clash /\ \A s \in Shells : op[s] # "show"
           /\ Cardinality(InUse) <= 1 /\ \A c \in InUse : Plain(c)
=============================================================================
