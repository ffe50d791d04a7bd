------------------------------ MODULE MCUpgrade ------------------------------
(* Small instances of Upgrade for TLC. *)
EXTENDS Upgrade

\* A first build, an upgrade, a second build of its version, a third version.
Rerelease == <<1, 2, 2, 3>>
\* Three versions.
ThreeVersions == <<1, 2, 3>>
\* An upgrade, then a second build of its version.
Reissue == <<1, 2, 2>>

DaemonOnly == {"daemon"}
CLIOnly == {"cli"}
Third == {3}

=============================================================================
