----------------------------- MODULE MCInstall -------------------------------
(***************************************************************************)
(* A small instance of module Install for TLC: release 2 is good, release  *)
(* 3 dies before it reports healthy.                                       *)
(***************************************************************************)
EXTENDS Install

ThreeVersions == 1 .. 3

MCBucket == [v \in Versions |-> 50]

Plain(v) == [version |-> v, minSupported |-> NoVersion, allowDowngrade |-> FALSE,
             rollout |-> 100, requiresReinstall |-> FALSE, hasArtifact |-> TRUE]

PlainManifests == {Plain(v) : v \in Versions}

(* Restart=always with RestartPreventExitStatus=2.                         *)
SystemdRestarts == Statuses \ {"2"}

=============================================================================
