------------------------------- MODULE Policy -------------------------------
(***************************************************************************)
(* internal/updater/policy.go: what to do with a verified manifest.        *)
(*                                                                         *)
(* A manifest is reduced to the fields Evaluate reads.  InRollout hashes   *)
(* the install ID with the version; for one install that is a bucket per   *)
(* version, the constant Bucket.  NoVersion as a manifest's version stands *)
(* for a string that version.Valid refuses.                                *)
(***************************************************************************)
EXTENDS AgentState

CONSTANT
    Bucket            \* the rollout bucket of this install, per version

ASSUME BucketAssumption == Bucket \in [Versions -> 0 .. 99]

Manifest == [version           : VersionOrNone,
             minSupported      : VersionOrNone,
             allowDowngrade    : BOOLEAN,
             rollout           : 0 .. 100,
             requiresReinstall : BOOLEAN,
             hasArtifact       : BOOLEAN]

(* Below 1 % nobody, at 100 % everybody, else the buckets under it.        *)
InRollout(v, percent) == percent >= 100 \/ (percent > 0 /\ Bucket[v] < percent)

(* The floor stops even a client nothing is offered to, but a manifest     *)
(* whose version cannot be ordered decides nothing at all.                 *)
BelowFloor(m, current) ==
    /\ m.version # NoVersion
    /\ m.minSupported # NoVersion
    /\ current < m.minSupported

(* Faulty: a release that failed here is offered again.                    *)
EligibleIfPoisoned(m, current, s) ==
    /\ m.version # NoVersion
    /\ ~BelowFloor(m, current)
    /\ m.version # current
    /\ m.version > current \/ m.allowDowngrade
    /\ InRollout(m.version, m.rollout)

(* The release concerns this install: orderable, not known to fail here,   *)
(* newer (or a signed downgrade), and admitted by the rollout.             *)
Eligible(m, current, s) ==
    /\ m.version # NoVersion
    /\ ~BelowFloor(m, current)
    /\ ~IsPoisoned(s, m.version)
    /\ m.version # current
    /\ m.version > current \/ m.allowDowngrade
    /\ InRollout(m.version, m.rollout)

Decisions == {"stop", "reinstall", "apply", "nothing"}

(* A reinstall is asked for only where the release would otherwise be      *)
(* installed, and before the platform's artifact is looked for.            *)
Evaluate(m, current, s) ==
    CASE BelowFloor(m, current)                               -> "stop"
      [] Eligible(m, current, s) /\ m.requiresReinstall       -> "reinstall"
      [] /\ Eligible(m, current, s)
         /\ ~m.requiresReinstall
         /\ m.hasArtifact                                     -> "apply"
      [] OTHER                                                -> "nothing"

=============================================================================
