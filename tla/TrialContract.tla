--------------------------- MODULE TrialContract ----------------------------
(***************************************************************************)
(* What the shim and the updater promise together about updates on one     *)
(* machine (docs/ARCHITECTURE.md, "Rollback"): a new version replaces the  *)
(* installed one on trial, is started a bounded number of times, and ends  *)
(* either committed, replaced by a later release, or rolled back to what   *)
(* it replaced and remembered as rejected.  No file, thread or process is  *)
(* visible here.                                                           *)
(***************************************************************************)
EXTENDS Integers, FiniteSets

CONSTANTS
    Versions,         \* the versions that may ever be released
    InitialVersion,   \* the one installed first
    MaxPoisoned,      \* how many rejected versions are remembered
    MaxBootAttempts   \* how many starts a trial has

VARIABLES
    installed,        \* the version the next start runs
    onTrial,          \* whether it still has to prove itself
    replaced,         \* the version it replaced, while it is on trial
    starts,           \* its starts so far, while it is on trial
    rejected          \* versions that failed here

vars == <<installed, onTrial, replaced, starts, rejected>>

NoVersion == 0

Init ==
    /\ installed = InitialVersion
    /\ onTrial = FALSE
    /\ replaced = NoVersion
    /\ starts = 0
    /\ rejected = {}

(* The trial and its first start; an earlier trial is given up.            *)
Install(v) ==
    /\ v \notin rejected \cup {installed}
    /\ installed' = v
    /\ onTrial' = TRUE
    /\ replaced' = installed
    /\ starts' = 1
    /\ UNCHANGED rejected

Start ==
    /\ onTrial
    /\ starts < MaxBootAttempts
    /\ starts' = starts + 1
    /\ UNCHANGED <<installed, onTrial, replaced, rejected>>

EndTrial ==
    /\ onTrial' = FALSE
    /\ replaced' = NoVersion
    /\ starts' = 0

Commit ==
    /\ onTrial
    /\ EndTrial
    /\ UNCHANGED <<installed, rejected>>

(* A full memory forgets versions when it learns of another.               *)
Remember(v) ==
    \E kept \in SUBSET rejected :
        /\ Cardinality(kept) < MaxPoisoned
        /\ kept = rejected \/ Cardinality(rejected) >= MaxPoisoned
        /\ rejected' = kept \cup {v}

RollBack ==
    /\ onTrial
    /\ starts = MaxBootAttempts
    /\ installed' = replaced
    /\ EndTrial
    /\ Remember(installed)

(* A candidate that cannot run here is rejected without being installed.   *)
Reject(v) ==
    /\ v \notin rejected \cup {installed}
    /\ Remember(v)
    /\ UNCHANGED <<installed, onTrial, replaced, starts>>

Next ==
    \/ \E v \in Versions : Install(v) \/ Reject(v)
    \/ Start
    \/ Commit
    \/ RollBack

Spec == Init /\ [][Next]_vars

=============================================================================
