------------------------------ MODULE MCAgent -------------------------------
(***************************************************************************)
(* Small instances of module Agent for TLC.                                *)
(***************************************************************************)
EXTENDS Agent

(* 1 is installed; 2 is good, 3 is broken, 4 cannot run.                   *)
FourVersions  == 1 .. 4
ThreeVersions == 1 .. 3
TwoVersions   == 1 .. 2

MCBucket == [v \in Versions |-> 50]

Plain(v) == [version |-> v, minSupported |-> NoVersion, allowDowngrade |-> FALSE,
             rollout |-> 100, requiresReinstall |-> FALSE, hasArtifact |-> TRUE]

PlainManifests == {Plain(v) : v \in Versions}

(* Every release, the recall of release 3, a floor above release 1, and a  *)
(* release only an installer can place.                                    *)
AllManifests ==
    PlainManifests
    \cup {[Plain(2) EXCEPT !.allowDowngrade = TRUE],
          [Plain(2) EXCEPT !.minSupported = 2],
          [Plain(3) EXCEPT !.requiresReinstall = TRUE]}

(* Restart=always with RestartPreventExitStatus=2.                         *)
SystemdRestarts == Statuses \ {"2"}

(* KeepAlive with SuccessfulExit=false.                                    *)
LaunchdRestarts == Statuses \ {"0"}

=============================================================================
