----------------------------- MODULE MCUpdater ------------------------------
(***************************************************************************)
(* Small instances of module Updater for TLC.                              *)
(***************************************************************************)
EXTENDS Updater

ThreeVersions == 1 .. 3

MCBucket == [v \in Versions |-> 50]

Plain(v) == [version |-> v, minSupported |-> NoVersion, allowDowngrade |-> FALSE,
             rollout |-> 100, requiresReinstall |-> FALSE, hasArtifact |-> TRUE]

TwoKeys == {"old", "new"}

(* The new key is introduced with build 2, the old one gone with build 3.  *)
MCTrustedKeys == <<{"old"}, {"old", "new"}, {"new"}>>

Release(m, seconds) ==
    [manifest |-> m, nextCheck |-> seconds, key |-> "old", valid |-> TRUE]

NeedsInstaller(v) == [Plain(v) EXCEPT !.requiresReinstall = TRUE]

(* A second is 10 units and a word has 14 bits: 900 s wrap to a negative   *)
(* Duration, 1700 s to a short positive one.                               *)
MCReleases ==
    {Release(Plain(2), 0),
     Release(NeedsInstaller(2), 1),
     [Release([NeedsInstaller(3) EXCEPT !.rollout = 60], 900) EXCEPT !.key = "new"],
     Release([Plain(3) EXCEPT !.minSupported = 2], 1700),
     [Release(Plain(3), 7) EXCEPT !.valid = FALSE]}

OneRelease == {Release(Plain(2), 0)}

-----------------------------------------------------------------------------
(* The releases above are numbered in the order of version strings.  Two   *)
(* values of everything a string may differ in are enough to meet every    *)
(* case of the comparison.                                                 *)

V == INSTANCE Version

Release3(i, j, k, tag) == [fields |-> <<i, j, k>>, pre |-> tag, raw |-> 0]

Corrupt(fields, place) == [fields |-> fields, pre |-> 0, raw |-> place]

SmallTexts ==
    {Release3(i, j, k, tag) : i, j, k \in {0, 2}, tag \in 0 .. 2}
        \cup {Corrupt(<<1, 0>>, 1), Corrupt(<<1, V!Bad, 0>>, 2), Corrupt(<< >>, 3)}

ASSUME VersionsAreOrdered ==
    \A a, b \in SmallTexts :
        /\ V!Older(a, b) <=> V!SortsBefore(V!Key(a), V!Key(b))
        /\ V!Newer(a, b) <=> V!Older(b, a)

(* TestCompareOrdersVersions: with tags dev = 1, rc1 = 2, rc2 = 3.         *)
ASSUME TestedVersions ==
    /\ V!Compare(Release3(1, 10, 0, 0), Release3(1, 9, 0, 0)) = 1
    /\ V!Compare(Release3(2, 0, 0, 0), Release3(1, 99, 99, 0)) = 1
    /\ V!Compare(Release3(1, 2, 0, 2), Release3(1, 2, 0, 0)) = -1
    /\ V!Compare(Release3(1, 2, 0, 2), Release3(1, 2, 0, 3)) = -1
    /\ V!Compare(Release3(0, 0, 0, 1), Release3(0, 0, 0, 0)) = -1
    /\ V!Compare(Corrupt(<<1, 0>>, 1), Release3(1, 0, 0, 0)) = -1

=============================================================================
