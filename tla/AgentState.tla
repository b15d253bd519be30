----------------------------- MODULE AgentState -----------------------------
(***************************************************************************)
(* The persisted record of internal/state/state.go and its transitions, as *)
(* pure operators.  Nothing here is concurrent: the modules that own a     *)
(* copy of the record in memory, or on disk, apply these operators to it.  *)
(*                                                                         *)
(* Simplifications.  A version is a positive number and the order of       *)
(* numbers is the order version.Compare gives; NoVersion is the empty      *)
(* string.  InstallID never changes once written and appears as the        *)
(* constant Bucket of module Policy; LastCommitted, LastCheck and          *)
(* UpdatedAt are diagnostics that no code reads back.  The boot counter    *)
(* saturates one past the limit: the code only compares it with the limit. *)
(***************************************************************************)
EXTENDS Integers, Sequences

CONSTANTS
    Versions,         \* the versions that may ever be released
    MaxPoisoned,      \* maxPoisoned: how many failed versions are remembered
    MaxBootAttempts   \* maxBootAttempts of cmd/shim/main.go

NoVersion == 0

ASSUME VersionsAssumption == Versions \subseteq Nat \ {NoVersion}
ASSUME MaxPoisonedAssumption == MaxPoisoned \in Nat \ {0}
ASSUME MaxBootAttemptsAssumption == MaxBootAttempts \in Nat \ {0}

VersionOrNone == Versions \cup {NoVersion}

BootCount == 0 .. MaxBootAttempts + 1

State == [pending      : VersionOrNone,
          previous     : VersionOrNone,
          boots        : BootCount,
          poisoned     : Seq(Versions),
          reinstallFor : VersionOrNone]

(* New: what Load returns when there is no state file yet.                 *)
FreshState == [pending |-> NoVersion, previous |-> NoVersion, boots |-> 0,
               poisoned |-> << >>, reinstallFor |-> NoVersion]

(* Faulty: the boots of the trial given up count against the new one.      *)
BeginTrialKeepsCount(s, new, old) ==
    [s EXCEPT !.pending = new, !.previous = old]

BeginTrial(s, new, old) ==
    [s EXCEPT !.pending = new, !.previous = old, !.boots = 0]

OnTrial(s) == s.pending # NoVersion

(* Faulty: the boot is not counted.                                        *)
RecordBootForgets(s) == s

RecordBoot(s) ==
    [s EXCEPT !.boots = IF @ > MaxBootAttempts THEN @ ELSE @ + 1]

(* Faulty: the name of the replaced version outlives the trial.            *)
EndTrialKeepsPrevious(s) == [s EXCEPT !.pending = NoVersion, !.boots = 0]

EndTrial(s) ==
    [s EXCEPT !.pending = NoVersion, !.previous = NoVersion, !.boots = 0]

(* Commit leaves the poisoned list and the reinstall requirement alone.    *)
Commit(s) == EndTrial(s)

PoisonedSet(s) == {s.poisoned[i] : i \in DOMAIN s.poisoned}

IsPoisoned(s, v) == v \in PoisonedSet(s)

(* The newest MaxPoisoned entries, oldest first.                           *)
Newest(q) == IF Len(q) > MaxPoisoned
             THEN SubSeq(q, Len(q) - MaxPoisoned + 1, Len(q))
             ELSE q

(* Poisoning a version twice, or no version at all, changes nothing.       *)
Poison(s, v) ==
    IF v = NoVersion \/ IsPoisoned(s, v)
    THEN s
    ELSE [s EXCEPT !.poisoned = Newest(Append(@, v))]

Abandon(s) == EndTrial(Poison(s, s.pending))

(* NeedsReinstall returns whether the version is seen for the first time   *)
(* and remembers it.                                                       *)
FirstNeedsReinstall(s, v) == s.reinstallFor # v

RequireReinstall(s, v) == [s EXCEPT !.reinstallFor = v]

ClearReinstall(s) == [s EXCEPT !.reinstallFor = NoVersion]

=============================================================================
