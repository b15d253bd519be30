------------------------ MODULE AgentRollbackProofs -------------------------
(***************************************************************************)
(* Theorems about module Agent while no file operation fails, no saves     *)
(* overlap and power is not cut between a change of the files and the save *)
(* that records it.  The program may be killed and may die at any time.    *)
(* For every such run a trial has the backup it needs, is given its starts *)
(* and no more, and is what the contract (module TrialContract) allows;    *)
(* if moreover power is not cut between the save that counts a start of a  *)
(* trial and that start, a trial ends for a reason and a version is        *)
(* remembered as failed for one, a self-check cut short among them.        *)
(***************************************************************************)
EXTENDS AgentProofs, FiniteSetTheorems

Calm == spent.faults = 0 /\ spent.overlaps = 0

(* Power may be cut before the first change of Apply, which is to drop the *)
(* backup of a trial, and of Restore, once the outcome of both is on disk, *)
(* and at any time in a start without update.                              *)
NothingHalfDone ==
    \/ step \in {"load", "read", "verify", "dropBackup", "removeFailed"}
    \/ step = "moveAside" /\ ~OnTrial(stateFile)
    \/ step \in {"trial", "save"} /\ mem.pending = stateFile.pending
    \/ step = "handOver"

HarmlessCuts == ShimCrashes => NothingHalfDone

Favourable == []Calm /\ [][HarmlessCuts]_vars

-----------------------------------------------------------------------------
(* The invariant.  A trial, on disk or in memory, is that of the installed *)
(* binary over the backup; neither has failed before; it has starts left.  *)

Backs(s) ==
    OnTrial(s) => /\ s.pending = program
                  /\ s.previous = backup
                  /\ backup \in Versions
                  /\ backup # program

(* The versions that failed here: those remembered as failed, except for   *)
(* the good ones whose self-check was cut short.                           *)
Failures(s) == PoisonedSet(s) \ cutShort

Unfailed(s) ==
    /\ program \notin Failures(s)
    /\ OnTrial(s) => backup \notin Failures(s) /\ program \notin PoisonedSet(s)

Started(s) == OnTrial(s) => s.boots <= MaxBootAttempts

Sound(s) == Backs(s) /\ Unfailed(s) /\ Started(s)

Runnable == program \notin Unrunnable /\ backup \notin Unrunnable

Installable(v) == v \notin Unrunnable /\ v \notin PoisonedSet(stateFile)

(* A staged update follows what is installed.                              *)
Recorded ==
    record # None => /\ staged = record.version
                     /\ record.from = program
                     /\ record.version # program
                     /\ Installable(record.version)

BeforeSwap ==
    step \in {"down", "stopped", "load", "read", "verify", "dropBackup"} =>
        program \in Versions /\ Sound(stateFile) /\ Recorded

Read ==
    step \in {"read", "verify", "dropBackup", "moveAside", "place"} => mem = stateFile

InSwap ==
    /\ step = "moveAside" =>
         /\ program \in Versions /\ Recorded
         /\ program \notin Failures(stateFile)
         /\ OnTrial(stateFile) => stateFile.pending = program
    /\ step = "place" =>
         /\ record.from = backup /\ record.version # backup
         /\ Installable(record.version)
         /\ backup \notin Failures(stateFile)
         /\ OnTrial(stateFile) => stateFile.pending = backup

(* What the trial in memory has to do with the one on disk.                *)
Replaces(s) == OnTrial(s) /\ s.boots = 0 /\ s.previous = stateFile.pending

SameTrialOver(s, t) == SameTrial(s, t) /\ s.previous = t.previous

Swapped ==
    step \in {"clearStaged", "clearRecord"} =>
        /\ program \in Versions /\ Sound(mem)
        /\ OnTrial(mem) /\ mem.boots = 0
        /\ OnTrial(stateFile) => Replaces(mem)

Resolving ==
    step = "trial" =>
        /\ program \in Versions /\ Sound(mem)
        /\ OnTrial(stateFile) => Replaces(mem) \/ SameTrialOver(mem, stateFile)
        /\ mem.pending = stateFile.pending => Sound(stateFile)

RollingBack ==
    step \in {"removeFailed", "putBack"} =>
        /\ OnTrial(mem) /\ mem.previous = backup /\ backup \in Versions
        /\ backup # mem.pending /\ backup \notin Failures(mem)
        /\ OnTrial(stateFile) => /\ mem.pending = stateFile.pending
                                 /\ mem.previous = stateFile.previous
        /\ step = "removeFailed" /\ OnTrial(stateFile) =>
             program \in Versions /\ Sound(stateFile)

(* The reasons a trial on disk may be replaced by what s says.             *)
Ends(s) ==
    OnTrial(stateFile) =>
        \/ s.pending = stateFile.pending
        \/ stateFile.pending \in healthy
        \/ /\ ~OnTrial(s)
           /\ IsPoisoned(s, stateFile.pending)
           /\ program = stateFile.previous
        \/ OnTrial(s) /\ s.previous = stateFile.pending

HandingOver ==
    /\ step = "save" =>
         /\ program \in Versions /\ record = None /\ Sound(mem) /\ Ends(mem)
         /\ mem.pending = stateFile.pending => Sound(stateFile)
    /\ step = "handOver" =>
         program \in Versions /\ record = None /\ Sound(stateFile)

(* The program: what is in memory, about to be saved, and about to be      *)
(* staged.                                                                 *)
MemInv ==
    Running =>
        /\ Sound(stateFile)
        /\ OnTrial(mem) => SameTrialOver(mem, stateFile)
        /\ OnTrial(stateFile) /\ ~OnTrial(mem) => stateFile.pending \in healthy
        /\ step # "persist" => PoisonedSet(mem) = PoisonedSet(stateFile)
        /\ step = "persist" => Unfailed(mem)

SavesInv ==
    /\ ~Running => pollSnap = None
    /\ pollSnap # None => pollSnap = mem /\ health # "saving"
    /\ step \in {"note", "persist"} <=> pollSnap # None
    /\ health = "saving" => /\ ~OnTrial(healthSnap) /\ ~OnTrial(mem)
                            /\ PoisonedSet(healthSnap) = PoisonedSet(stateFile)
    /\ health = "removing" => ~OnTrial(stateFile) /\ ~OnTrial(mem)

StagingInv ==
    /\ Running => IF step = "leave" THEN Recorded ELSE record = None
    /\ step \in {"download", "preflight", "stage"} =>
         offer.version # program /\ offer.version \notin PoisonedSet(stateFile)
    /\ step \in {"preflight", "stage"} => staged = offer.version
    /\ step = "stage" => offer.version \notin Unrunnable

RollbackInv ==
    /\ Runnable
    /\ BeforeSwap /\ Read /\ InSwap /\ Swapped /\ Resolving /\ RollingBack /\ HandingOver
    /\ MemInv /\ SavesInv /\ StagingInv

-----------------------------------------------------------------------------
(* What calm rules out.                                                    *)
LEMMA CalmSteps ==
    ASSUME TypeInv, Calm, Calm'
    PROVE  /\ ~Fault
           /\ \A b \in BOOLEAN : Overlapping(b) => ~b /\ UNCHANGED spent
<1>1. spent \in Budgets
  BY DEF TypeInv, TypeOK
<1>2. ~Fault
  BY <1>1, BudgetsAssumption DEF Fault, Spend, Budgets, Calm
<1>3. \A b \in BOOLEAN : Overlapping(b) => ~b /\ UNCHANGED spent
  BY <1>1, BudgetsAssumption DEF Overlapping, Spend, Budgets, Calm
<1>4. QED BY <1>2, <1>3

(* What survives in the list of failed versions, and what does not.        *)
LEMMA NewestKeeps ==
    ASSUME NEW q \in Seq(Versions), Len(q) > 0
    PROVE  /\ \A i \in DOMAIN Newest(q) : \E j \in DOMAIN q : Newest(q)[i] = q[j]
           /\ \E i \in DOMAIN Newest(q) : Newest(q)[i] = q[Len(q)]
<1>1. Len(q) \in Nat /\ MaxPoisoned \in Nat \ {0} /\ DOMAIN q = 1 .. Len(q)
  BY LenProperties, MaxPoisonedAssumption
<1>2. CASE Len(q) > MaxPoisoned
  <2> DEFINE m == Len(q) - MaxPoisoned + 1
  <2>1. Newest(q) = SubSeq(q, m, Len(q))
    BY <1>2 DEF Newest
  <2>2. m \in 1 .. Len(q) /\ \A i \in m .. Len(q) : q[i] \in Versions
    BY <1>1, <1>2, ElementOfSeq
  <2>3. /\ Len(SubSeq(q, m, Len(q))) = Len(q) - m + 1
        /\ \A i \in 1 .. Len(q) - m + 1 : SubSeq(q, m, Len(q))[i] = q[m + i - 1]
        /\ DOMAIN SubSeq(q, m, Len(q)) = 1 .. Len(q) - m + 1
    BY <1>1, <2>2, SubSeqProperties, LenProperties
  <2>4. Newest(q)[MaxPoisoned] = q[Len(q)] /\ MaxPoisoned \in DOMAIN Newest(q)
    <3>1. Len(q) - m + 1 = MaxPoisoned /\ m + MaxPoisoned - 1 = Len(q)
      BY <1>1
    <3>2. MaxPoisoned \in 1 .. MaxPoisoned
      BY <1>1
    <3> HIDE DEF m
    <3>3. QED BY <2>1, <2>3, <3>1, <3>2
  <2>5. \A i \in DOMAIN Newest(q) : Newest(q)[i] = q[m + i - 1] /\ m + i - 1 \in DOMAIN q
    BY <1>1, <1>2, <2>1, <2>3
  <2>6. QED BY <2>4, <2>5
<1>3. CASE ~(Len(q) > MaxPoisoned)
  BY <1>1, <1>3 DEF Newest
<1>4. QED BY <1>2, <1>3

LEMMA PoisonKeeps ==
    ASSUME NEW s \in State, NEW v \in Versions
    PROVE  /\ PoisonedSet(Poison(s, v)) \subseteq PoisonedSet(s) \cup {v}
           /\ v \in PoisonedSet(Poison(s, v))
<1>1. v # NoVersion /\ s.poisoned \in Seq(Versions)
  BY VersionsAssumption DEF State
<1>2. CASE IsPoisoned(s, v)
  BY <1>2 DEF Poison, IsPoisoned
<1>3. CASE ~IsPoisoned(s, v)
  <2> DEFINE q == Append(s.poisoned, v)
  <2>1. /\ q \in Seq(Versions) /\ Len(q) = Len(s.poisoned) + 1 /\ q[Len(q)] = v
        /\ \A i \in 1 .. Len(s.poisoned) : q[i] = s.poisoned[i]
        /\ DOMAIN q = 1 .. Len(q) /\ DOMAIN s.poisoned = 1 .. Len(s.poisoned)
        /\ Len(s.poisoned) \in Nat
    BY <1>1, AppendProperties, LenProperties
  <2>2. \A j \in DOMAIN q : q[j] \in PoisonedSet(s) \cup {v}
    BY <2>1 DEF PoisonedSet
  <2>3. Poison(s, v).poisoned = Newest(q)
    BY <1>1, <1>3 DEF Poison, State
  <2>4. /\ \A i \in DOMAIN Newest(q) : Newest(q)[i] \in PoisonedSet(s) \cup {v}
        /\ \E i \in DOMAIN Newest(q) : Newest(q)[i] = v
    <3> HIDE DEF q
    <3>1. QED BY <2>1, <2>2, NewestKeeps
  <2>5. QED BY <2>3, <2>4 DEF PoisonedSet
<1>4. QED BY <1>2, <1>3

LEMMA RecordOperators ==
    ASSUME NEW s \in State, NEW v \in VersionOrNone, NEW w \in VersionOrNone
    PROVE  /\ BeginTrial(s, v, w).pending = v
           /\ BeginTrial(s, v, w).previous = w
           /\ BeginTrial(s, v, w).boots = 0
           /\ PoisonedSet(BeginTrial(s, v, w)) = PoisonedSet(s)
           /\ RecordBoot(s).pending = s.pending
           /\ RecordBoot(s).previous = s.previous
           /\ PoisonedSet(RecordBoot(s)) = PoisonedSet(s)
           /\ s.boots <= MaxBootAttempts => RecordBoot(s).boots = s.boots + 1
           /\ SameTrialOver(ClearReinstall(s), s)
           /\ PoisonedSet(ClearReinstall(s)) = PoisonedSet(s)
           /\ SameTrialOver(RequireReinstall(s, v), s)
           /\ PoisonedSet(RequireReinstall(s, v)) = PoisonedSet(s)
           /\ SameTrialOver(Poison(s, v), s)
           /\ Commit(s).pending = NoVersion
           /\ PoisonedSet(Commit(s)) = PoisonedSet(s)
           /\ Abandon(s).pending = NoVersion
           /\ PoisonedSet(Abandon(s)) = PoisonedSet(Poison(s, s.pending))
<1>1. /\ BeginTrial(s, v, w).pending = v
      /\ BeginTrial(s, v, w).previous = w
      /\ BeginTrial(s, v, w).boots = 0
      /\ PoisonedSet(BeginTrial(s, v, w)) = PoisonedSet(s)
  BY DEF BeginTrial, State, PoisonedSet
<1>2. /\ RecordBoot(s).pending = s.pending
      /\ RecordBoot(s).previous = s.previous
      /\ PoisonedSet(RecordBoot(s)) = PoisonedSet(s)
      /\ s.boots <= MaxBootAttempts => RecordBoot(s).boots = s.boots + 1
  BY MaxBootAttemptsAssumption DEF RecordBoot, State, PoisonedSet, BootCount
<1>3. /\ SameTrialOver(ClearReinstall(s), s)
      /\ PoisonedSet(ClearReinstall(s)) = PoisonedSet(s)
      /\ SameTrialOver(RequireReinstall(s, v), s)
      /\ PoisonedSet(RequireReinstall(s, v)) = PoisonedSet(s)
  BY DEF ClearReinstall, RequireReinstall, State, PoisonedSet, SameTrialOver, SameTrial
<1>4. SameTrialOver(Poison(s, v), s)
  BY DEF Poison, State, SameTrialOver, SameTrial
<1>5. \A t \in State : /\ EndTrial(t).pending = NoVersion
                      /\ PoisonedSet(EndTrial(t)) = PoisonedSet(t)
  BY DEF EndTrial, State, PoisonedSet
<1>6. s.pending \in VersionOrNone
  BY DEF State
<1>7. Poison(s, s.pending) \in State
  BY <1>6, StateOperatorsType
<1>8. QED BY <1>1, <1>2, <1>3, <1>4, <1>5, <1>7 DEF Commit, Abandon

-----------------------------------------------------------------------------
LEMMA RollbackInit == Init => RollbackInv
<1> SUFFICES ASSUME Init PROVE RollbackInv
  OBVIOUS
<1>1. PoisonedSet(FreshState) = {} /\ ~OnTrial(FreshState)
  BY DEF PoisonedSet, FreshState, OnTrial
<1>2. InitialVersion \in Versions \ Unrunnable /\ NoVersion \notin Unrunnable
  BY InitialVersionAssumption, ReleasesAssumption, VersionsAssumption
<1>3. QED
  BY <1>1, <1>2
     DEF Init, RollbackInv, Runnable, BeforeSwap, Read, InSwap, Swapped, Resolving,
         RollingBack, HandingOver, MemInv, SavesInv, StagingInv, Sound, Backs, Unfailed,
         Failures, Started, Recorded, Running, ProgramSteps

(* Starts, kills and deaths.                                               *)
LEMMA EnvironmentKeepsTrial ==
    ASSUME TypeInv, RecoveryInv, RollbackInv, Calm, Calm', HarmlessCuts,
           SupervisorStarts \/ OperatorStarts \/ ShimCrashes \/ ProgramKilled \/ ProgramDies
    PROVE  RollbackInv'
<1> USE CalmSteps DEF RollbackInv, Runnable, BeforeSwap, Read, InSwap, Swapped, Resolving,
     RollingBack, HandingOver, MemInv, SavesInv, StagingInv, Sound, Backs, Unfailed,
     Failures, Started, OnTrial, Recorded, Installable, Running, ShimSteps, ProgramSteps,
     disk, threads, history
<1>1. ASSUME SupervisorStarts \/ OperatorStarts PROVE RollbackInv'
  BY <1>1 DEF SupervisorStarts, OperatorStarts, TypeInv, ProgramRuns
<1>2. ASSUME ShimCrashes PROVE RollbackInv'
  <2>1. NothingHalfDone
    BY <1>2 DEF HarmlessCuts
  <2>2. program \in Versions /\ Sound(stateFile) /\ Recorded
    <3>1. CASE step \in {"load", "read", "verify", "dropBackup"}
      BY <3>1
    <3>5. CASE step = "removeFailed"
      <4>1. OnTrial(stateFile) /\ record = None
        BY <3>5 DEF RecoveryInv, RestoreJustified, TrialSpent, RecordConsumed, Calm
      <4>2. program \in Versions /\ Sound(stateFile)
        BY <3>5, <4>1
      <4>3. QED BY <4>1, <4>2
    <3>6. CASE step = "moveAside" /\ ~OnTrial(stateFile)
      BY <3>6
    <3>2. CASE step \in {"trial", "save"} /\ mem.pending = stateFile.pending
      <4>1. program \in Versions /\ Sound(stateFile) /\ record = None
        BY <3>2 DEF TypeInv, RecoveryInv, RecordConsumed, Calm
      <4>2. QED BY <4>1
    <3>3. CASE step = "handOver"
      <4>1. program \in Versions /\ Sound(stateFile) /\ record = None
        BY <3>3
      <4>2. QED BY <3>3, <4>1
    <3>4. QED BY <2>1, <3>1, <3>2, <3>3, <3>5, <3>6 DEF NothingHalfDone
  <2>3. step \in ShimSteps /\ health = "off" /\ pollSnap = None
    BY <1>2 DEF ShimCrashes, TypeInv, ProgramRuns
  <2>4. /\ step' = "down" /\ UNCHANGED <<disk, health, pollSnap, healthSnap, history>>
    BY <1>2 DEF ShimCrashes
  <2>5. (BeforeSwap /\ Runnable)'
    BY <2>2, <2>4
  <2>6. (Read /\ InSwap /\ Swapped /\ Resolving /\ RollingBack /\ HandingOver)'
    BY <2>4
  <2>7. (MemInv /\ SavesInv /\ StagingInv)'
    BY <2>3, <2>4
  <2>8. QED BY <2>5, <2>6, <2>7
<1>3. ASSUME ProgramKilled \/ ProgramDies PROVE RollbackInv'
  BY <1>3 DEF ProgramKilled, ProgramDies, Exit, TypeInv, ProgramRuns
<1>4. QED BY <1>1, <1>2, <1>3

(* Without an overlapping save the bytes that the poll writes are those    *)
(* that it marshalled.                                                     *)
LEMMA TornOfOne ==
    ASSUME NEW s \in State, NEW t \in Torn(s, s)
    PROVE  t = s
<1>1. t = [s EXCEPT !.pending = s.pending, !.previous = s.previous, !.boots = s.boots]
  BY DEF Torn
<1>2. [s EXCEPT !.pending = s.pending, !.previous = s.previous, !.boots = s.boots] = s
  BY DEF State
<1>3. QED BY <1>1, <1>2

LEMMA RecordIsSome == record \in Record => record # None
  BY NoneAssumption DEF Record

(* The shim.  Where a step needs it, the parts of the invariant are shown  *)
(* one by one.                                                             *)
LEMMA ShimKeepsTrial ==
    ASSUME TypeInv, RecoveryInv, RollbackInv, Calm, Calm', ShimStep
    PROVE  RollbackInv'
<1> USE CalmSteps, VersionsAssumption, ReleasesAssumption, NoneAssumption
     DEF RollbackInv, Runnable, BeforeSwap, Read, InSwap, Swapped, Resolving,
     RollingBack, HandingOver, MemInv, SavesInv, StagingInv, Sound, Backs, Unfailed,
     Failures, Started, OnTrial, Recorded, Installable, Running, ShimSteps, ProgramSteps,
     disk, threads, history,
     TypeInv, TypeOK, RecordRead, StagedVerified, RecoveryInv, RecordConsumed, Calm
<1>0. /\ step \in ShimSteps => health = "off"
      /\ step \in ShimSteps \ {"load"} => mem \in State
  BY DEF TypeInv, ProgramRuns, MemLoaded
<1>1. ASSUME ShimLoad PROVE RollbackInv'
  BY <1>0, <1>1 DEF ShimLoad, Exit
<1>2. ASSUME ShimRead PROVE RollbackInv'
  <2>1. (Runnable /\ BeforeSwap)'
    BY <1>0, <1>2 DEF ShimRead
  <2>2. (Read /\ InSwap)'
    BY <1>0, <1>2 DEF ShimRead
  <2>3. Swapped'
    BY <1>0, <1>2 DEF ShimRead
  <2>4. Resolving'
    BY <1>0, <1>2 DEF ShimRead, SameTrialOver, SameTrial
  <2>5. (RollingBack /\ HandingOver)'
    BY <1>0, <1>2 DEF ShimRead
  <2>6. MemInv'
    BY <1>0, <1>2 DEF ShimRead
  <2>7. (SavesInv /\ StagingInv)'
    BY <1>0, <1>2 DEF ShimRead
  <2>8. QED BY <2>1, <2>2, <2>3, <2>4, <2>5, <2>6, <2>7
<1>3. ASSUME ApplyVerify PROVE RollbackInv'
  <2>1. (Runnable /\ BeforeSwap)'
    BY <1>0, <1>3 DEF ApplyVerify, Verified, ApplyFailed
  <2>2. (Read /\ InSwap)'
    BY <1>0, <1>3 DEF ApplyVerify, Verified, ApplyFailed
  <2>3. Swapped'
    <3>1. record # None /\ Verified
      BY <1>0, <1>3, RecordIsSome DEF ApplyVerify, Verified, TypeInv, RecordRead
    <3>2. QED BY <3>1, <1>0, <1>3 DEF ApplyVerify, Verified, ApplyFailed
  <2>4. Resolving'
    BY <1>0, <1>3 DEF ApplyVerify, Verified, ApplyFailed
  <2>5. (RollingBack /\ HandingOver)'
    BY <1>0, <1>3 DEF ApplyVerify, Verified, ApplyFailed
  <2>6. MemInv'
    BY <1>0, <1>3 DEF ApplyVerify, Verified, ApplyFailed
  <2>7. (SavesInv /\ StagingInv)'
    BY <1>0, <1>3 DEF ApplyVerify, Verified, ApplyFailed
  <2>8. QED BY <2>1, <2>2, <2>3, <2>4, <2>5, <2>6, <2>7
<1>4. ASSUME ApplyDropBackup PROVE RollbackInv'
  BY <1>0, <1>4 DEF ApplyDropBackup
<1>5. ASSUME ApplyMoveAside PROVE RollbackInv'
  <2>1. (Runnable /\ BeforeSwap)'
    BY <1>0, <1>5 DEF ApplyMoveAside, MoveAside
  <2>2. (Read /\ InSwap)'
    <3>1. /\ record # None /\ step' = "place" /\ backup' = program
          /\ UNCHANGED <<stateFile, mem, record, staged, launches>>
      BY <1>5, RecordIsSome DEF ApplyMoveAside, MoveAside, TypeInv, RecordRead
    <3>2. Read'
      BY <3>1, <1>5 DEF ApplyMoveAside
    <3>3. InSwap'
      BY <3>1, <1>5 DEF ApplyMoveAside
    <3>4. QED BY <3>2, <3>3
  <2>3. Swapped'
    BY <1>0, <1>5 DEF ApplyMoveAside, MoveAside
  <2>4. Resolving'
    BY <1>0, <1>5 DEF ApplyMoveAside, MoveAside
  <2>5. (RollingBack /\ HandingOver)'
    BY <1>0, <1>5 DEF ApplyMoveAside, MoveAside
  <2>6. MemInv'
    BY <1>0, <1>5 DEF ApplyMoveAside, MoveAside
  <2>7. (SavesInv /\ StagingInv)'
    BY <1>0, <1>5 DEF ApplyMoveAside, MoveAside
  <2>8. QED BY <2>1, <2>2, <2>3, <2>4, <2>5, <2>6, <2>7
<1>6. ASSUME ApplyPlace PROVE RollbackInv'
  <2>1. (Runnable /\ BeforeSwap)'
    BY <1>0, <1>6 DEF ApplyPlace, PlaceStaged
  <2>2. (Read /\ InSwap)'
    BY <1>0, <1>6 DEF ApplyPlace, PlaceStaged
  <2>3. Swapped'
    <3>1. record \in Record /\ mem = stateFile /\ staged = record.version
      BY <1>6 DEF ApplyPlace, TypeInv, RecordRead, StagedVerified
    <3>2. mem \in State /\ record.version \in VersionOrNone /\ record.from \in VersionOrNone
      BY <1>0, <1>6, <3>1 DEF ApplyPlace, Record, VersionOrNone
    <3>3. /\ mem' = BeginTrial(mem, record.version, record.from) /\ step' = "clearStaged"
          /\ program' = record.version /\ backup' = backup /\ stateFile' = stateFile
          /\ cutShort' = cutShort
      BY <1>6, <3>1 DEF ApplyPlace, PlaceStaged
    <3>4. /\ mem'.pending = record.version /\ mem'.previous = record.from /\ mem'.boots = 0
          /\ PoisonedSet(mem)' = PoisonedSet(stateFile)
      BY <3>1, <3>2, <3>3, RecordOperators
    <3>6. /\ record.from = backup /\ record.version # backup
          /\ record.version \notin Unrunnable /\ record.version \notin PoisonedSet(stateFile)
          /\ backup \notin Failures(stateFile)
          /\ OnTrial(stateFile) => stateFile.pending = backup
      BY <1>6 DEF ApplyPlace
    <3>8. record.version \in Versions /\ backup \in Versions
      BY <3>1, <3>6 DEF Record
    <3>10. Backs(mem)' /\ Unfailed(mem)' /\ Started(mem)'
      BY <3>3, <3>4, <3>6, <3>8, MaxBootAttemptsAssumption
    <3>11. OnTrial(stateFile') => Replaces(mem)'
      BY <3>3, <3>4, <3>6, <3>8, VersionsAssumption DEF Replaces
    <3>12. QED
      BY <3>3, <3>4, <3>8, <3>10, <3>11, VersionsAssumption
  <2>4. Resolving'
    BY <1>0, <1>6 DEF ApplyPlace, PlaceStaged
  <2>5. (RollingBack /\ HandingOver)'
    BY <1>0, <1>6 DEF ApplyPlace, PlaceStaged
  <2>6. MemInv'
    BY <1>0, <1>6 DEF ApplyPlace, PlaceStaged
  <2>7. (SavesInv /\ StagingInv)'
    BY <1>0, <1>6 DEF ApplyPlace, PlaceStaged
  <2>8. QED BY <2>1, <2>2, <2>3, <2>4, <2>5, <2>6, <2>7
<1>7. ASSUME ClearStaged PROVE RollbackInv'
  <2>1. (Runnable /\ BeforeSwap)'
    BY <1>0, <1>7 DEF ClearStaged
  <2>2. (Read /\ InSwap)'
    BY <1>0, <1>7 DEF ClearStaged
  <2>3. Swapped'
    BY <1>0, <1>7 DEF ClearStaged, Replaces
  <2>4. Resolving'
    BY <1>0, <1>7 DEF ClearStaged
  <2>5. (RollingBack /\ HandingOver)'
    BY <1>0, <1>7 DEF ClearStaged
  <2>6. MemInv'
    BY <1>0, <1>7 DEF ClearStaged
  <2>7. (SavesInv /\ StagingInv)'
    BY <1>0, <1>7 DEF ClearStaged
  <2>8. QED BY <2>1, <2>2, <2>3, <2>4, <2>5, <2>6, <2>7
<1>8. ASSUME ClearRecord PROVE RollbackInv'
  <2>1. (Runnable /\ BeforeSwap)'
    BY <1>0, <1>8 DEF ClearRecord
  <2>2. (Read /\ InSwap)'
    BY <1>0, <1>8 DEF ClearRecord
  <2>3. Swapped'
    BY <1>0, <1>8 DEF ClearRecord
  <2>4. Resolving'
    BY <1>0, <1>8 DEF ClearRecord, Replaces
  <2>5. (RollingBack /\ HandingOver)'
    BY <1>0, <1>8 DEF ClearRecord
  <2>6. MemInv'
    BY <1>0, <1>8 DEF ClearRecord
  <2>7. (SavesInv /\ StagingInv)'
    BY <1>0, <1>8 DEF ClearRecord
  <2>8. QED BY <2>1, <2>2, <2>3, <2>4, <2>5, <2>6, <2>7
<1>9. ASSUME ResolveTrial PROVE RollbackInv'
  <2>1. (Runnable /\ BeforeSwap)'
    BY <1>0, <1>9 DEF ResolveTrial, TooManyBoots, BackupExists
  <2>2. (Read /\ InSwap)'
    BY <1>0, <1>9 DEF ResolveTrial, TooManyBoots, BackupExists
  <2>3. Swapped'
    BY <1>0, <1>9 DEF ResolveTrial, TooManyBoots, BackupExists
  <2>4. Resolving'
    BY <1>0, <1>9 DEF ResolveTrial, TooManyBoots, BackupExists
  <2>5. (RollingBack /\ HandingOver)'
    <3>1. /\ mem \in State /\ program \in Versions /\ UNCHANGED <<disk, launches>>
          /\ record = None
      BY <1>0, <1>9 DEF ResolveTrial, RecoveryInv, RecordConsumed, Calm
    <3>2. CASE ~OnTrial(mem)
      <4>1. mem' = mem /\ step' = "save"
        BY <1>9, <3>2 DEF ResolveTrial
      <4>2. QED BY <1>9, <3>1, <3>2, <4>1
         DEF ResolveTrial, Ends, Replaces, SameTrialOver, SameTrial
    <3>3. CASE OnTrial(mem)
      <4>1. mem' = RecordBoot(mem)
        BY <1>9, <3>3 DEF ResolveTrial
      <4>2. mem.boots <= MaxBootAttempts /\ mem.boots \in Nat
        <5>1. mem.boots \in Nat
          BY <3>1, MaxBootAttemptsAssumption DEF State, BootCount
        <5>2. QED BY <1>9, <3>3, <5>1 DEF ResolveTrial
      <4>3. /\ mem'.pending = mem.pending /\ mem'.previous = mem.previous
            /\ PoisonedSet(mem)' = PoisonedSet(mem) /\ mem'.boots = mem.boots + 1
        BY <3>1, <4>1, <4>2, RecordOperators DEF VersionOrNone
      <4>4. OnTrial(stateFile) => Replaces(mem) \/ SameTrialOver(mem, stateFile)
        BY <1>9 DEF ResolveTrial
      <4>5. CASE step' = "removeFailed"
        <5>1. mem'.boots > MaxBootAttempts
          BY <1>9, <4>5, <3>3, <4>1 DEF ResolveTrial, TooManyBoots
        <5>3. OnTrial(stateFile) => SameTrialOver(mem, stateFile)
          BY <4>4, <5>1, <4>3, MaxBootAttemptsAssumption DEF Replaces
        <5>4. OnTrial(stateFile) => Sound(stateFile)
          BY <1>9, <5>3 DEF ResolveTrial, SameTrialOver, SameTrial
        <5>5. QED
          BY <1>9, <3>1, <3>3, <4>3, <4>5, <5>3, <5>4
             DEF ResolveTrial, SameTrialOver, SameTrial
      <4>6. CASE step' = "save"
        <5>1. backup # NoVersion
          BY <1>9, <3>3, VersionsAssumption DEF ResolveTrial
        <5>2. ~TooManyBoots(mem')
          BY <1>9, <4>6, <3>3, <4>1, <5>1 DEF ResolveTrial, BackupExists
        <5>3. mem'.boots <= MaxBootAttempts
          BY <5>2, <4>2, <4>3, MaxBootAttemptsAssumption DEF TooManyBoots
        <5>4. QED
          BY <1>9, <3>1, <3>3, <4>2, <4>3, <4>4, <4>6, <5>3
             DEF ResolveTrial, Ends, Replaces, SameTrialOver, SameTrial
      <4>7. QED BY <1>9, <3>3, <4>5, <4>6 DEF ResolveTrial
    <3>4. QED BY <3>2, <3>3
  <2>6. MemInv'
    BY <1>0, <1>9 DEF ResolveTrial, TooManyBoots, BackupExists
  <2>7. (SavesInv /\ StagingInv)'
    BY <1>0, <1>9 DEF ResolveTrial, TooManyBoots, BackupExists
  <2>8. QED BY <2>1, <2>2, <2>3, <2>4, <2>5, <2>6, <2>7
<1>10. ASSUME RestoreRemove PROVE RollbackInv'
  BY <1>0, <1>10 DEF RestoreRemove
<1>11. ASSUME RestorePutBack PROVE RollbackInv'
  <2>1. (Runnable /\ BeforeSwap)'
    BY <1>0, <1>11 DEF RestorePutBack, PutBack
  <2>2. (Read /\ InSwap)'
    BY <1>0, <1>11 DEF RestorePutBack, PutBack
  <2>3. Swapped'
    BY <1>0, <1>11 DEF RestorePutBack, PutBack
  <2>4. Resolving'
    BY <1>0, <1>11 DEF RestorePutBack, PutBack
  <2>5. (RollingBack /\ HandingOver)'
    <3>1. /\ mem \in State /\ record = None /\ mem' = Abandon(mem) /\ step' = "save"
          /\ program' = backup /\ UNCHANGED <<record, stateFile, history>>
      BY <1>0, <1>11 DEF RestorePutBack, PutBack, RecoveryInv, RecordConsumed, Calm
    <3>2. /\ mem.pending # NoVersion /\ mem.previous = backup /\ backup \in Versions
          /\ backup # mem.pending /\ backup \notin Failures(mem)
          /\ OnTrial(stateFile) => /\ mem.pending = stateFile.pending
                                   /\ mem.previous = stateFile.previous
      BY <1>11 DEF RestorePutBack
    <3>3. mem.pending \in Versions
      BY <3>1, <3>2 DEF State, VersionOrNone
    <3>4. /\ PoisonedSet(Poison(mem, mem.pending)) \subseteq PoisonedSet(mem) \cup {mem.pending}
          /\ mem.pending \in PoisonedSet(Poison(mem, mem.pending))
      BY <3>1, <3>3, PoisonKeeps
    <3>5. mem'.pending = NoVersion /\ PoisonedSet(mem)' = PoisonedSet(Poison(mem, mem.pending))
      BY <3>1, <3>3, RecordOperators DEF VersionOrNone
    <3>6. Sound(mem)'
      BY <3>1, <3>2, <3>4, <3>5
    <3>7. Ends(mem)'
      BY <3>1, <3>2, <3>4, <3>5 DEF Ends, IsPoisoned
    <3>8. OnTrial(stateFile) /\ mem'.pending # stateFile'.pending
      BY <1>11, <3>1, <3>5 DEF RestorePutBack, RestoreJustified, TrialSpent
    <3>9. QED BY <3>1, <3>2, <3>6, <3>7, <3>8
  <2>6. MemInv'
    BY <1>0, <1>11 DEF RestorePutBack, PutBack
  <2>7. (SavesInv /\ StagingInv)'
    BY <1>0, <1>11 DEF RestorePutBack, PutBack
  <2>8. QED BY <2>1, <2>2, <2>3, <2>4, <2>5, <2>6, <2>7
<1>12. ASSUME ShimSave PROVE RollbackInv'
  <2>1. (Runnable /\ BeforeSwap)'
    BY <1>0, <1>12 DEF ShimSave
  <2>2. (Read /\ InSwap)'
    BY <1>0, <1>12 DEF ShimSave
  <2>3. Swapped'
    BY <1>0, <1>12 DEF ShimSave
  <2>4. Resolving'
    BY <1>0, <1>12 DEF ShimSave
  <2>5. (RollingBack /\ HandingOver)'
    BY <1>0, <1>12 DEF ShimSave
  <2>6. MemInv'
    BY <1>0, <1>12 DEF ShimSave
  <2>7. (SavesInv /\ StagingInv)'
    BY <1>0, <1>12 DEF ShimSave
  <2>8. QED BY <2>1, <2>2, <2>3, <2>4, <2>5, <2>6, <2>7
<1>13. ASSUME HandOver PROVE RollbackInv'
  <2>1. (Runnable /\ BeforeSwap)'
    BY <1>0, <1>13 DEF HandOver, Exit
  <2>2. (Read /\ InSwap)'
    BY <1>0, <1>13 DEF HandOver, Exit
  <2>3. Swapped'
    BY <1>0, <1>13 DEF HandOver, Exit
  <2>4. Resolving'
    BY <1>0, <1>13 DEF HandOver, Exit
  <2>5. (RollingBack /\ HandingOver)'
    BY <1>0, <1>13 DEF HandOver, Exit
  <2>6. MemInv'
    <3>1. program \in Versions /\ Sound(stateFile) /\ record = None
      BY <1>13 DEF HandOver
    <3>2. mem' = stateFile /\ step' = "poll" /\ UNCHANGED <<disk, healthy, cutShort>>
      BY <1>13, <3>1 DEF HandOver
    <3>3. QED BY <3>1, <3>2 DEF SameTrialOver, SameTrial
  <2>7. (SavesInv /\ StagingInv)'
    BY <1>0, <1>13 DEF HandOver, Exit
  <2>8. QED BY <2>1, <2>2, <2>3, <2>4, <2>5, <2>6, <2>7
<1>14. ~DiscardRecord /\ ~DiscardStaged /\ ~ApplyUndo
  BY DEF RecoveryInv, ErrorPathsNeedFaults, Calm, DiscardRecord, DiscardStaged, ApplyUndo
<1>15. QED
  BY <1>1, <1>2, <1>3, <1>4, <1>5, <1>6, <1>7, <1>8, <1>9, <1>10, <1>11,
     <1>12, <1>13, <1>14 DEF ShimStep

(* The two outcomes of the self-check (preflight).                         *)
PreflightPasses ==
    staged \notin Unrunnable /\ cutShort' = cutShort \ {offer.version} /\ step' = "stage"
    /\ UNCHANGED <<staged, mem, pollSnap, spent>>

PreflightFails ==
    /\ (staged \in Unrunnable /\ UNCHANGED cutShort) \/ CutShort
    /\ mem' = Poison(mem, offer.version) /\ PollMarshals(mem')
    /\ staged' = NoVersion /\ step' = "persist"

(* The program.                                                            *)
LEMMA ProgramKeepsTrial ==
    ASSUME TypeInv, RollbackInv, Calm, Calm', PollStep \/ HealthStep
    PROVE  RollbackInv'
<1> USE CalmSteps, VersionsAssumption, ReleasesAssumption, NoneAssumption
     DEF RollbackInv, Runnable, BeforeSwap, Read, InSwap, Swapped, Resolving,
     RollingBack, HandingOver, MemInv, SavesInv, StagingInv, Sound, Backs, Unfailed,
     Failures, Started, OnTrial, Recorded, Installable, Running, ShimSteps, ProgramSteps,
     disk, threads, history,
     TypeInv, TypeOK, OfferFetched, SnapshotTaken, Calm
<1>0. /\ Running => mem \in State /\ program \in Versions
      /\ health # "off" => Running
  BY DEF TypeInv, ProgramRuns, MemLoaded
<1>1. ASSUME Poll PROVE RollbackInv'
  BY <1>0, <1>1 DEF Poll, PollMarshals
<1>2. ASSUME NoteCheck PROVE RollbackInv'
  <2>1. (Runnable /\ BeforeSwap)'
    BY <1>0, <1>2 DEF NoteCheck, PollWrites
  <2>2. (Read /\ InSwap)'
    BY <1>0, <1>2 DEF NoteCheck, PollWrites
  <2>3. Swapped'
    BY <1>0, <1>2 DEF NoteCheck, PollWrites
  <2>4. Resolving'
    BY <1>0, <1>2 DEF NoteCheck, PollWrites
  <2>5. (RollingBack /\ HandingOver)'
    BY <1>0, <1>2 DEF NoteCheck, PollWrites
  <2>6. MemInv'
    <3>1. stateFile' = mem
      BY <1>2, <1>0, TornOfOne DEF NoteCheck, PollWrites
    <3>2. QED BY <3>1, <1>0, <1>2 DEF NoteCheck, PollWrites, SameTrialOver, SameTrial
  <2>7. (SavesInv /\ StagingInv)'
    <3>1. stateFile' = mem
      BY <1>2, <1>0, TornOfOne DEF NoteCheck, PollWrites
    <3>2. QED BY <3>1, <1>0, <1>2 DEF NoteCheck, PollWrites
  <2>8. QED BY <2>1, <2>2, <2>3, <2>4, <2>5, <2>6, <2>7
<1>3. ASSUME Decide PROVE RollbackInv'
  <2>1. (Runnable /\ BeforeSwap)'
    BY <1>0, <1>3 DEF Decide, BackToPoll, PollMarshals
  <2>2. (Read /\ InSwap)'
    BY <1>0, <1>3 DEF Decide, BackToPoll, PollMarshals
  <2>3. Swapped'
    BY <1>0, <1>3 DEF Decide, BackToPoll, PollMarshals
  <2>4. Resolving'
    BY <1>0, <1>3 DEF Decide, BackToPoll, PollMarshals
  <2>5. (RollingBack /\ HandingOver)'
    BY <1>0, <1>3 DEF Decide, BackToPoll, PollMarshals
  <2>6. MemInv'
    <3>1. offer \in Manifest /\ offer.version \in VersionOrNone
      BY <1>3, ManifestsAssumption DEF Decide, TypeInv, OfferFetched, Manifest
    <3>2. mem' \in {mem, RequireReinstall(mem, offer.version), ClearReinstall(mem)}
      BY <1>3 DEF Decide
    <3>3. SameTrialOver(mem', mem) /\ PoisonedSet(mem)' = PoisonedSet(mem)
      BY <1>0, <1>3, <3>1, <3>2, RecordOperators DEF Decide, SameTrialOver, SameTrial
    <3>4. mem'.pending = mem.pending /\ mem'.previous = mem.previous /\ mem'.boots = mem.boots
      BY <3>3 DEF SameTrialOver, SameTrial
    <3>5. /\ UNCHANGED <<program, backup, stateFile, healthy, cutShort>>
          /\ step' \in ProgramSteps
      BY <1>3 DEF Decide, BackToPoll
    <3>6. step # "persist" /\ Running
      BY <1>3 DEF Decide
    <3>7. QED BY <3>3, <3>4, <3>5, <3>6 DEF SameTrialOver, SameTrial
  <2>7. (SavesInv /\ StagingInv)'
    <3>1. offer \in Manifest /\ offer.version \in VersionOrNone
      BY <1>3, ManifestsAssumption DEF Decide, TypeInv, OfferFetched, Manifest
    <3>2. mem' \in {mem, RequireReinstall(mem, offer.version), ClearReinstall(mem)}
      BY <1>3 DEF Decide
    <3>3. SameTrialOver(mem', mem) /\ PoisonedSet(mem)' = PoisonedSet(mem)
      BY <1>0, <1>3, <3>1, <3>2, RecordOperators DEF Decide, SameTrialOver, SameTrial
    <3>4. mem'.pending = mem.pending
      BY <3>3 DEF SameTrialOver, SameTrial
    <3>5. /\ UNCHANGED <<program, record, stateFile, health, healthSnap>>
          /\ step' \in {"stop", "poll", "persist", "download"}
          /\ step' = "persist" => pollSnap' = mem' /\ health # "saving"
          /\ step' # "persist" => pollSnap' = pollSnap
      BY <1>3, CalmSteps DEF Decide, BackToPoll, PollMarshals
    <3>6. step = "decide" /\ Running /\ pollSnap = None
      BY <1>3 DEF Decide
    <3>7. SavesInv'
      <4>1. mem' \in State
        <5>1. mem \in State
          BY <1>0, <3>6
        <5>2. RequireReinstall(mem, offer.version) \in State /\ ClearReinstall(mem) \in State
          BY <3>1, <5>1, StateOperatorsType
        <5>3. QED BY <3>2, <5>1, <5>2
      <4>2. mem' # None
        BY <4>1, NoneAssumption
      <4>3. QED BY <3>3, <3>4, <3>5, <3>6, <4>2
    <3>8. step' = "download" => /\ Evaluate(offer, program, mem) = "apply"
                               /\ offer' = offer
      BY <1>3 DEF Decide, BackToPoll
    <3>9. step' = "download" => Eligible(offer, program, mem)
      BY <3>8 DEF Evaluate
    <3>10. StagingInv'
      BY <1>3, <3>3, <3>5, <3>6, <3>8, <3>9 DEF Eligible, IsPoisoned
    <3>11. QED BY <3>7, <3>10
  <2>8. QED BY <2>1, <2>2, <2>3, <2>4, <2>5, <2>6, <2>7
<1>4. ASSUME Download PROVE RollbackInv'
  BY <1>0, <1>4 DEF Download, BackToPoll
<1>5. ASSUME Preflight PROVE RollbackInv'
  <2>1. (Runnable /\ BeforeSwap)'
    BY <1>0, <1>5 DEF Preflight, PollMarshals
  <2>2. (Read /\ InSwap)'
    BY <1>0, <1>5 DEF Preflight, PollMarshals
  <2>3. Swapped'
    BY <1>0, <1>5 DEF Preflight, PollMarshals
  <2>4. Resolving'
    BY <1>0, <1>5 DEF Preflight, PollMarshals
  <2>5. (RollingBack /\ HandingOver)'
    BY <1>0, <1>5 DEF Preflight, PollMarshals
  <2>6. MemInv'
    <3>1. staged = offer.version /\ offer.version \in Versions /\ step = "preflight" /\ Running
      BY <1>5 DEF Preflight, TypeInv, OfferFetched
    <3>2. CASE PreflightPasses
      <4>1. offer.version # program /\ offer.version \notin PoisonedSet(stateFile)
        BY <1>5, <3>1
      <4>2. /\ cutShort' = cutShort \ {offer.version} /\ step' = "stage"
            /\ UNCHANGED <<program, backup, stateFile, mem, healthy>>
        BY <1>5, <3>2 DEF Preflight, PreflightPasses
      <4>3. QED BY <3>1, <4>1, <4>2 DEF SameTrialOver, SameTrial
    <3>3. CASE PreflightFails
      <4>1. /\ mem' = Poison(mem, offer.version) /\ step' = "persist"
            /\ UNCHANGED <<program, backup, stateFile, healthy>>
        BY <1>5, <3>3 DEF Preflight, PreflightFails
      <4>2. /\ PoisonedSet(mem)' \subseteq PoisonedSet(mem) \cup {offer.version}
            /\ SameTrialOver(mem', mem)
        BY <1>0, <3>1, <4>1, PoisonKeeps, RecordOperators DEF VersionOrNone
      <4>3. mem'.pending = mem.pending /\ mem'.previous = mem.previous /\ mem'.boots = mem.boots
        BY <4>2 DEF SameTrialOver, SameTrial
      <4>4. /\ offer.version # program /\ cutShort \subseteq cutShort'
            /\ offer.version # backup \/ offer.version \in cutShort'
        BY <3>1, <3>3 DEF PreflightFails, CutShort
      <4>5. QED BY <3>1, <4>1, <4>2, <4>3, <4>4 DEF SameTrialOver, SameTrial
    <3>4. QED BY <1>5, <3>2, <3>3 DEF Preflight, PreflightPasses, PreflightFails
  <2>7. (SavesInv /\ StagingInv)'
    <3>1. staged = offer.version /\ offer.version \in Versions /\ step = "preflight" /\ Running
      BY <1>5 DEF Preflight, TypeInv, OfferFetched
    <3>2. CASE PreflightPasses
      BY <1>5, <3>1, <3>2, <1>0 DEF Preflight, PreflightPasses
    <3>3. CASE PreflightFails
      <4>1. /\ mem' = Poison(mem, offer.version) /\ pollSnap' = mem' /\ step' = "persist"
            /\ health # "saving" /\ UNCHANGED <<stateFile, record, health, healthSnap>>
        BY <1>5, CalmSteps, <3>3 DEF Preflight, PreflightFails, PollMarshals
      <4>2. SameTrialOver(mem', mem) /\ mem' \in State
        BY <1>0, <3>1, <4>1, RecordOperators, StateOperatorsType DEF VersionOrNone
      <4>3. mem'.pending = mem.pending /\ mem' # None
        BY <4>2, NoneAssumption DEF SameTrialOver, SameTrial
      <4>4. QED BY <1>5, <3>1, <4>1, <4>3
    <3>4. QED BY <1>5, <3>2, <3>3 DEF Preflight, PreflightPasses, PreflightFails
  <2>8. QED BY <2>1, <2>2, <2>3, <2>4, <2>5, <2>6, <2>7
<1>6. ASSUME Persist PROVE RollbackInv'
  <2>1. (Runnable /\ BeforeSwap)'
    BY <1>0, <1>6 DEF Persist, PollWrites, BackToPoll
  <2>2. (Read /\ InSwap)'
    BY <1>0, <1>6 DEF Persist, PollWrites, BackToPoll
  <2>3. Swapped'
    BY <1>0, <1>6 DEF Persist, PollWrites, BackToPoll
  <2>4. Resolving'
    BY <1>0, <1>6 DEF Persist, PollWrites, BackToPoll
  <2>5. (RollingBack /\ HandingOver)'
    BY <1>0, <1>6 DEF Persist, PollWrites, BackToPoll
  <2>6. MemInv'
    <3>1. stateFile' = mem
      BY <1>6, <1>0, TornOfOne DEF Persist, PollWrites
    <3>2. QED BY <3>1, <1>0, <1>6
       DEF Persist, PollWrites, BackToPoll, SameTrialOver, SameTrial
  <2>7. (SavesInv /\ StagingInv)'
    <3>1. stateFile' = mem
      BY <1>6, <1>0, TornOfOne DEF Persist, PollWrites
    <3>2. QED BY <3>1, <1>0, <1>6 DEF Persist, PollWrites, BackToPoll
  <2>8. QED BY <2>1, <2>2, <2>3, <2>4, <2>5, <2>6, <2>7
<1>7. ASSUME Stage PROVE RollbackInv'
  BY <1>0, <1>7 DEF Stage, BackToPoll
<1>8. ASSUME Leave PROVE RollbackInv'
  BY <1>0, <1>8 DEF Leave, Exit
<1>9. ASSUME MarkHealthy PROVE RollbackInv'
  <2>1. (Runnable /\ BeforeSwap)'
    BY <1>0, <1>9 DEF MarkHealthy
  <2>2. (Read /\ InSwap)'
    BY <1>0, <1>9 DEF MarkHealthy
  <2>3. Swapped'
    BY <1>0, <1>9 DEF MarkHealthy
  <2>4. Resolving'
    BY <1>0, <1>9 DEF MarkHealthy
  <2>5. (RollingBack /\ HandingOver)'
    BY <1>0, <1>9 DEF MarkHealthy
  <2>6. MemInv'
    <3>1. Running /\ UNCHANGED <<program, backup, stateFile, step, cutShort>>
      BY <1>9 DEF MarkHealthy
    <3>2. healthy' = healthy \cup {program}
      BY <1>9 DEF MarkHealthy
    <3>3. CASE mem.pending # program
      <4>1. mem' = mem
        BY <1>9, <3>3 DEF MarkHealthy
      <4>2. QED BY <3>1, <3>2, <4>1 DEF SameTrialOver, SameTrial
    <3>4. CASE mem.pending = program
      <4>1. mem' = Commit(mem) /\ pollSnap = None
        BY <1>9, CalmSteps, <3>4 DEF MarkHealthy
      <4>2. mem'.pending = NoVersion /\ PoisonedSet(mem)' = PoisonedSet(mem)
        BY <1>0, <3>1, <4>1, RecordOperators DEF VersionOrNone
      <4>3. QED BY <3>1, <3>2, <4>1, <4>2
    <3>5. QED BY <3>3, <3>4
  <2>7. (SavesInv /\ StagingInv)'
    <3>1. Running /\ UNCHANGED <<program, record, staged, stateFile, step, offer, pollSnap>>
      BY <1>9 DEF MarkHealthy
    <3>2. CASE mem.pending # program
      <4>1. mem' = mem /\ health' = "done"
        BY <1>9, <3>2 DEF MarkHealthy
      <4>2. QED BY <3>1, <4>1
    <3>3. CASE mem.pending = program
      <4>1. mem' = Commit(mem) /\ healthSnap' = mem' /\ health' = "saving" /\ pollSnap = None
        BY <1>9, CalmSteps, <3>3 DEF MarkHealthy
      <4>2. mem'.pending = NoVersion /\ PoisonedSet(mem)' = PoisonedSet(mem)
        BY <1>0, <3>1, <4>1, RecordOperators DEF VersionOrNone
      <4>3. PoisonedSet(healthSnap)' = PoisonedSet(mem)
        BY <4>1, <4>2
      <4>4. QED BY <3>1, <4>1, <4>2, <4>3
    <3>4. QED BY <3>2, <3>3
  <2>8. QED BY <2>1, <2>2, <2>3, <2>4, <2>5, <2>6, <2>7
<1>10. ASSUME HealthSave PROVE RollbackInv'
  <2>1. (Runnable /\ BeforeSwap)'
    BY <1>0, <1>10 DEF HealthSave
  <2>2. (Read /\ InSwap)'
    BY <1>0, <1>10 DEF HealthSave
  <2>3. Swapped'
    BY <1>0, <1>10 DEF HealthSave
  <2>4. Resolving'
    BY <1>0, <1>10 DEF HealthSave
  <2>5. (RollingBack /\ HandingOver)'
    BY <1>0, <1>10 DEF HealthSave
  <2>6. MemInv'
    BY <1>0, <1>10 DEF HealthSave
  <2>7. (SavesInv /\ StagingInv)'
    BY <1>0, <1>10 DEF HealthSave
  <2>8. QED BY <2>1, <2>2, <2>3, <2>4, <2>5, <2>6, <2>7
<1>11. ASSUME HealthRemovesBackup PROVE RollbackInv'
  <2>1. /\ Running /\ ~OnTrial(stateFile) /\ ~OnTrial(mem) /\ step' = step
        /\ UNCHANGED <<program, staged, record, stateFile, mem, offer, pollSnap, history>>
        /\ health' = "done" /\ backup' = NoVersion
    BY <1>0, <1>11 DEF HealthRemovesBackup
  <2>2. Runnable'
    BY <2>1, ReleasesAssumption, VersionsAssumption
  <2>3. (BeforeSwap /\ Read /\ InSwap /\ Swapped)'
    BY <2>1
  <2>4. (Resolving /\ RollingBack /\ HandingOver)'
    BY <2>1
  <2>5. MemInv'
    BY <2>1
  <2>6. (SavesInv /\ StagingInv)'
    BY <2>1
  <2>7. QED BY <2>2, <2>3, <2>4, <2>5, <2>6
<1>12. QED
  BY <1>1, <1>2, <1>3, <1>4, <1>5, <1>6, <1>7, <1>8, <1>9, <1>10, <1>11
     DEF PollStep, HealthStep

LEMMA RollbackStep ==
    /\ TypeInv /\ RecoveryInv /\ RollbackInv
    /\ Calm /\ Calm' /\ [HarmlessCuts]_vars
    /\ [Next]_vars
    => RollbackInv'
<1> SUFFICES ASSUME TypeInv, RecoveryInv, RollbackInv, Calm, Calm',
                    [HarmlessCuts]_vars, [Next]_vars
             PROVE  RollbackInv'
  OBVIOUS
<1>1. CASE UNCHANGED vars
  BY <1>1 DEF vars, RollbackInv, Runnable, BeforeSwap, Read, InSwap, Swapped, Resolving,
     RollingBack, HandingOver, MemInv, SavesInv, StagingInv, Sound, Backs, Unfailed,
     Failures, Started, Recorded, Installable, Running, Replaces, SameTrialOver, Ends
<1>2. QED
  BY <1>1, EnvironmentKeepsTrial, ShimKeepsTrial, ProgramKeepsTrial DEF Next

-----------------------------------------------------------------------------
(* While a trial is on disk and the shim is not at work, the binary on     *)
(* trial is installed and the version it replaced is the backup: what      *)
(* Restore will find is what Begin recorded.  As no saves overlap, not     *)
(* even a trial that is back from an undone commit lacks its backup.       *)
THEOREM TheBackupIsThere ==
    Spec /\ Favourable => [](PreviousIsTheBackup /\ BackupBacksTrial)
<1>1. TypeInv /\ RollbackInv => PreviousIsTheBackup /\ BackupBacksTrial
  BY DEF TypeInv, TypeOK, RollbackInv, BeforeSwap, MemInv, Sound, Backs, BackupBacksTrial,
     PreviousIsTheBackup, ShimSteps, Running
<1>2. QED
  BY <1>1, TypeInvInit, TypeInvStep, RecoveryInvInit, RecoveryInvStep, RollbackInit,
     RollbackStep, PTL DEF Spec, Favourable

(* A version on trial is started at most MaxBootAttempts times, through    *)
(* any number of kills and deaths (resolveTrial counts before it compares).*)
THEOREM NoFourthChance == Spec /\ Favourable => []ThreeChances
<1>1. TypeInv /\ RollbackInv /\ LaunchesAreCounted /\ Calm => ThreeChances
  <2> SUFFICES ASSUME TypeInv, RollbackInv, LaunchesAreCounted, Calm,
                      Running, stateFile.pending = program
               PROVE  launches[program] <= MaxBootAttempts
    BY DEF ThreeChances
  <2>1. program \in Versions /\ launches[program] \in Nat /\ stateFile.boots \in Nat
    BY MaxBootAttemptsAssumption DEF TypeInv, TypeOK, ProgramRuns, BootCount, State
  <2>2. launches[program] <= stateFile.boots
    BY DEF LaunchesAreCounted, Calm
  <2>3. stateFile.boots <= MaxBootAttempts
    BY <2>1, VersionsAssumption DEF RollbackInv, MemInv, Sound, Started, OnTrial
  <2>4. QED BY <2>1, <2>2, <2>3, MaxBootAttemptsAssumption
<1>2. QED
  BY <1>1, EveryStartIsCounted, TypeInvInit, TypeInvStep, RecoveryInvInit,
     RecoveryInvStep, RollbackInit, RollbackStep, PTL DEF Spec, Favourable

(* The program that runs is not one that the record remembers as failed:   *)
(* no later download brings one back (Evaluate), and a rollback does only  *)
(* if a recall to the backup had its self-check cut short (preflight), so  *)
(* that the backup is remembered without having failed (Restore).          *)
THEOREM NoFailedVersionRuns == Spec /\ Favourable => []RunningNotPoisoned
<1>1. RollbackInv => RunningNotPoisoned
  BY DEF RollbackInv, MemInv, Sound, Unfailed, Failures, RunningNotPoisoned, IsPoisoned
<1>2. QED
  BY <1>1, TypeInvInit, TypeInvStep, RecoveryInvInit, RecoveryInvStep, RollbackInit,
     RollbackStep, PTL DEF Spec, Favourable

-----------------------------------------------------------------------------
(* What the record says of a trial's starts and of failures is what        *)
(* happened, as long as each start that was counted follows: no power cut  *)
(* comes between the save that counts it and the hand-over.                *)
StartsFollow == ShimCrashes => ~(step = "handOver" /\ OnTrial(stateFile))

Earned(s) ==
    \A v \in PoisonedSet(s) :
        v \in Unrunnable \cup cutShort \/ launches[v] >= MaxBootAttempts

(* The starts of a trial are those on record, but for those due.           *)
Exact(s, due) == OnTrial(s) => launches[s.pending] + due = s.boots

EarnedInv == Earned(stateFile) /\ (mem # None => Earned(mem))

ExactInv ==
    /\ step # "handOver" => Exact(stateFile, 0)
    /\ step = "handOver" => Exact(stateFile, 1)
    /\ step \in {"clearStaged", "clearRecord", "trial"} => Exact(mem, 0)
    /\ step = "save" => Exact(mem, 1)

(* A trial that is being rolled back has had its starts.                   *)
UsedUp ==
    /\ step \in {"removeFailed", "putBack"} => launches[mem.pending] >= MaxBootAttempts
    /\ step = "save" /\ OnTrial(stateFile) /\ ~OnTrial(mem)
         => launches[stateFile.pending] >= MaxBootAttempts

EvidenceInv == EarnedInv /\ ExactInv /\ UsedUp

LEMMA EvidenceInit == Init => EvidenceInv
BY DEF Init, EvidenceInv, EarnedInv, ExactInv, UsedUp, Earned, Exact, FreshState,
   PoisonedSet, OnTrial

(* The steps that change neither a record nor a count of starts.           *)
LEMMA EvidenceStays ==
    ASSUME EvidenceInv,
           UNCHANGED <<stateFile, cutShort, launches>>,
           mem' = mem \/ mem' = None \/ mem' = stateFile,
           step # "handOver" \/ ~OnTrial(stateFile),
           step' \notin {"handOver", "clearStaged", "clearRecord", "trial", "save",
                         "removeFailed", "putBack"}
    PROVE  EvidenceInv'
BY DEF EvidenceInv, EarnedInv, ExactInv, UsedUp, Earned, Exact, PoisonedSet, OnTrial

(* Starts, kills and deaths.                                               *)
LEMMA EnvironmentKeepsEvidence ==
    ASSUME TypeInv, EvidenceInv,
           ShimCrashes => StartsFollow,
           SupervisorStarts \/ OperatorStarts \/ ShimCrashes \/ ProgramKilled \/ ProgramDies
    PROVE  EvidenceInv'
<1>1. /\ UNCHANGED <<stateFile, cutShort, launches>>
      /\ mem' = mem \/ mem' = None
      /\ step' \in {"load", "down", "stopped"}
  BY DEF SupervisorStarts, OperatorStarts, ShimCrashes, ProgramKilled, ProgramDies, Exit,
     disk, threads, history
<1>2. step # "handOver" \/ ~OnTrial(stateFile)
  BY DEF SupervisorStarts, OperatorStarts, ProgramKilled, ProgramDies, Running,
     ProgramSteps, StartsFollow
<1>3. QED BY <1>1, <1>2, EvidenceStays

(* The shim.                                                               *)
LEMMA ShimKeepsEvidence ==
    ASSUME TypeInv, RecoveryInv, RollbackInv, EvidenceInv, Calm, Calm', ShimStep
    PROVE  EvidenceInv'
<1>0. /\ ~Fault /\ stateFile \in State
      /\ step \in ShimSteps \ {"load"} => mem \in State
      /\ launches \in [Versions -> Nat]
  BY CalmSteps, MaxBootAttemptsAssumption DEF TypeInv, TypeOK, MemLoaded, BootCount
<1>1. CASE ShimLoad \/ ApplyDropBackup
  BY <1>0, <1>1, EvidenceStays DEF ShimLoad, ApplyDropBackup, disk, history
<1>2. CASE ShimRead
  <2>1. /\ step = "read" /\ mem' = mem /\ mem = stateFile
        /\ step' \in {"trial", "verify"} /\ UNCHANGED <<stateFile, cutShort, launches>>
    BY <1>0, <1>2 DEF ShimRead, RollbackInv, Read, disk, threads, history
  <2>2. QED BY <2>1
     DEF EvidenceInv, EarnedInv, ExactInv, UsedUp, Earned, Exact, PoisonedSet, OnTrial
<1>3. CASE ApplyVerify
  <2>1. record # None /\ Verified
    BY <1>3, RecordIsSome
       DEF ApplyVerify, Verified, RollbackInv, BeforeSwap, Recorded, TypeInv, RecordRead
  <2>2. QED BY <1>0, <1>3, <2>1, EvidenceStays DEF ApplyVerify, disk, history
<1>4. CASE ApplyMoveAside
  BY <1>0, <1>4, EvidenceStays DEF ApplyMoveAside, history
<1>5. CASE ApplyPlace
  <2>1. /\ record \in Record /\ mem = stateFile /\ staged = record.version
        /\ record.version # backup /\ record.version \notin PoisonedSet(stateFile)
        /\ OnTrial(stateFile) => stateFile.pending = backup
    BY <1>5
       DEF ApplyPlace, TypeInv, RecordRead, StagedVerified, RollbackInv, Read, InSwap,
           Installable
  <2>2. /\ record.version \in Versions /\ record.version \in VersionOrNone
        /\ record.from \in VersionOrNone
    BY <2>1 DEF Record, VersionOrNone
  <2>3. /\ mem' = BeginTrial(mem, record.version, record.from) /\ step' = "clearStaged"
        /\ stateFile' = stateFile
        /\ cutShort' = cutShort /\ launches' = [launches EXCEPT ![record.version] = 0]
    BY <1>0, <1>5, <2>1 DEF ApplyPlace, PlaceStaged
  <2>4. /\ mem'.pending = record.version /\ mem'.boots = 0
        /\ PoisonedSet(mem') = PoisonedSet(stateFile)
    BY <1>0, <2>1, <2>2, <2>3, RecordOperators
  <2>5. /\ launches'[record.version] = 0
        /\ \A v \in Versions \ {record.version} : launches'[v] = launches[v]
    BY <1>0, <2>2, <2>3
  <2>6. /\ PoisonedSet(stateFile) \subseteq Versions
        /\ OnTrial(stateFile) => stateFile.pending \in Versions
    BY <1>0 DEF State, PoisonedSet, OnTrial, VersionOrNone
  <2>7. Earned(stateFile)' /\ Earned(mem)'
    <3>1. \A v \in PoisonedSet(stateFile) :
             v \in Unrunnable \cup cutShort' \/ launches'[v] >= MaxBootAttempts
      BY <2>1, <2>3, <2>5, <2>6 DEF EvidenceInv, EarnedInv, Earned
    <3>2. PoisonedSet(stateFile)' = PoisonedSet(stateFile)
      BY <2>3 DEF PoisonedSet
    <3>3. QED BY <2>4, <3>1, <3>2 DEF Earned
  <2>8. Exact(stateFile, 0)'
    <3>1. ASSUME OnTrial(stateFile)
          PROVE  launches'[stateFile.pending] = launches[stateFile.pending]
      BY <2>1, <2>5, <2>6, <3>1
    <3>2. Exact(stateFile, 0)
      BY <1>5 DEF ApplyPlace, EvidenceInv, ExactInv
    <3>3. QED BY <2>3, <3>1, <3>2 DEF Exact, OnTrial
  <2>9. Exact(mem, 0)'
    BY <2>4, <2>5 DEF Exact
  <2>10. QED BY <2>3, <2>7, <2>8, <2>9 DEF EvidenceInv, EarnedInv, ExactInv, UsedUp
<1>6. CASE ClearStaged \/ ClearRecord
  <2>1. /\ step \in {"clearStaged", "clearRecord"} /\ step' \in {"clearRecord", "trial"}
        /\ UNCHANGED <<stateFile, mem, cutShort, launches>>
    BY <1>0, <1>6 DEF ClearStaged, ClearRecord, threads, history
  <2>2. QED BY <2>1
     DEF EvidenceInv, EarnedInv, ExactInv, UsedUp, Earned, Exact, PoisonedSet, OnTrial
<1>7. CASE ResolveTrial
  <2>1. /\ step = "trial" /\ mem \in State /\ UNCHANGED <<stateFile, cutShort, launches>>
        /\ step' \in {"removeFailed", "save"}
        /\ Exact(stateFile, 0) /\ Exact(mem, 0) /\ Earned(stateFile) /\ Earned(mem)
        /\ mem # None
        /\ OnTrial(stateFile) => OnTrial(mem)
    BY <1>0, <1>7, NoneAssumption, VersionsAssumption
       DEF ResolveTrial, ShimSteps, disk, history, EvidenceInv, EarnedInv, ExactInv,
           RollbackInv, Resolving, Replaces, SameTrialOver, SameTrial, OnTrial
  <2>2. (Earned(stateFile) /\ Exact(stateFile, 0))'
    BY <2>1 DEF Earned, Exact, PoisonedSet, OnTrial
  <2>3. CASE ~OnTrial(mem)
    <3>1. mem' = mem /\ step' = "save"
      BY <1>7, <2>3 DEF ResolveTrial
    <3>2. Earned(mem)' /\ Exact(mem, 1)' /\ ~OnTrial(stateFile')
      BY <2>1, <2>3, <3>1 DEF Earned, Exact, PoisonedSet, OnTrial
    <3>3. QED BY <2>2, <3>1, <3>2 DEF EvidenceInv, EarnedInv, ExactInv, UsedUp
  <2>4. CASE OnTrial(mem)
    <3>1. mem' = RecordBoot(mem) /\ (step' = "removeFailed" => TooManyBoots(mem'))
      BY <1>7, <2>4 DEF ResolveTrial
    <3>2. mem.boots <= MaxBootAttempts /\ mem.boots \in Nat
      BY <1>0, <2>1, <2>4, MaxBootAttemptsAssumption
         DEF RollbackInv, Resolving, Sound, Started, State, BootCount
    <3>3. /\ mem'.pending = mem.pending /\ mem'.boots = mem.boots + 1
          /\ PoisonedSet(mem') = PoisonedSet(mem)
      BY <2>1, <3>1, <3>2, RecordOperators DEF VersionOrNone
    <3>4. launches[mem.pending] = mem.boots
      <4>1. mem.pending \in Versions
        BY <2>1, <2>4 DEF State, OnTrial, VersionOrNone
      <4>2. launches[mem.pending] + 0 = mem.boots
        BY <2>1, <2>4 DEF Exact
      <4>3. launches[mem.pending] \in Nat
        BY <1>0, <4>1
      <4>4. QED BY <4>2, <4>3
    <3>5. Exact(mem, 1)' /\ Earned(mem)'
      BY <2>1, <3>3, <3>4 DEF Exact, Earned
    <3>6. step' = "removeFailed" => launches'[mem'.pending] >= MaxBootAttempts
      BY <2>1, <3>1, <3>2, <3>3, <3>4, MaxBootAttemptsAssumption DEF TooManyBoots
    <3>7. OnTrial(mem)'
      BY <2>4, <3>3 DEF OnTrial
    <3>8. QED
      BY <2>1, <2>2, <3>5, <3>6, <3>7 DEF EvidenceInv, EarnedInv, ExactInv, UsedUp
  <2>5. QED BY <2>3, <2>4
<1>8. CASE RestoreRemove
  <2>1. /\ step = "removeFailed" /\ step' = "putBack"
        /\ UNCHANGED <<stateFile, mem, cutShort, launches>>
    BY <1>0, <1>8 DEF RestoreRemove, threads, history
  <2>2. QED BY <2>1
     DEF EvidenceInv, EarnedInv, ExactInv, UsedUp, Earned, Exact, PoisonedSet, OnTrial
<1>9. CASE RestorePutBack
  <2>1. /\ step = "putBack" /\ mem \in State /\ mem # None
        /\ mem' = Abandon(mem) /\ step' = "save"
        /\ UNCHANGED <<stateFile, cutShort, launches>>
        /\ OnTrial(mem) /\ (OnTrial(stateFile) => mem.pending = stateFile.pending)
        /\ launches[mem.pending] >= MaxBootAttempts
        /\ Earned(stateFile) /\ Exact(stateFile, 0) /\ Earned(mem)
    BY <1>0, <1>9, NoneAssumption
       DEF RestorePutBack, ShimSteps, EvidenceInv, EarnedInv, ExactInv, UsedUp,
           RollbackInv, RollingBack, history
  <2>2. mem.pending \in Versions
    BY <2>1 DEF State, VersionOrNone, OnTrial
  <2>3. PoisonedSet(Poison(mem, mem.pending)) \subseteq PoisonedSet(mem) \cup {mem.pending}
    BY <2>1, <2>2, PoisonKeeps
  <2>4. /\ mem'.pending = NoVersion
        /\ PoisonedSet(mem') = PoisonedSet(Poison(mem, mem.pending))
    BY <2>1, <2>2, RecordOperators DEF VersionOrNone
  <2>5. Earned(mem)' /\ Exact(mem, 1)' /\ Earned(stateFile)' /\ Exact(stateFile, 0)'
    BY <2>1, <2>3, <2>4 DEF Earned, Exact, OnTrial, PoisonedSet
  <2>6. OnTrial(stateFile') => launches'[stateFile'.pending] >= MaxBootAttempts
    BY <2>1 DEF OnTrial
  <2>7. QED BY <2>1, <2>5, <2>6 DEF EvidenceInv, EarnedInv, ExactInv, UsedUp
<1>10. CASE ShimSave
  <2>1. /\ step = "save" /\ step' = "handOver" /\ stateFile' = mem
        /\ UNCHANGED <<mem, cutShort, launches>> /\ mem # None
    BY <1>0, <1>10, NoneAssumption DEF ShimSave, ShimSteps, threads, history
  <2>2. QED BY <2>1
     DEF EvidenceInv, EarnedInv, ExactInv, UsedUp, Earned, Exact, PoisonedSet, OnTrial
<1>11. CASE HandOver
  <2>1. program \in Versions /\ Sound(stateFile)
    BY <1>11 DEF HandOver, RollbackInv, HandingOver
  <2>2. /\ launches' = [launches EXCEPT ![program] =
                            IF @ > MaxBootAttempts THEN @ ELSE @ + 1]
        /\ mem' = stateFile /\ stateFile' = stateFile /\ step' = "poll"
        /\ cutShort' = cutShort /\ Earned(stateFile) /\ Exact(stateFile, 1)
    BY <1>0, <1>11, <2>1, VersionsAssumption
       DEF HandOver, disk, EvidenceInv, EarnedInv, ExactInv
  <2>3. /\ launches[program] \in Nat /\ launches'[program] \in Nat
        /\ launches'[program] >= launches[program]
        /\ launches[program] <= MaxBootAttempts => launches'[program] = launches[program] + 1
        /\ \A v \in Versions \ {program} : launches'[v] = launches[v]
    BY <1>0, <2>1, <2>2, MaxBootAttemptsAssumption
  <2>4. Earned(stateFile)'
    <3>1. PoisonedSet(stateFile) \subseteq Versions /\ cutShort' = cutShort
      BY <1>0, <1>11 DEF State, PoisonedSet, HandOver
    <3>2. \A v \in Versions : launches[v] >= MaxBootAttempts => launches'[v] >= MaxBootAttempts
      BY <1>0, <2>1, <2>3, MaxBootAttemptsAssumption
    <3>3. QED BY <2>2, <3>1, <3>2 DEF Earned, PoisonedSet
  <2>5. Exact(stateFile, 0)'
    <3>1. ASSUME OnTrial(stateFile) PROVE launches'[program] = stateFile.boots
      <4>1. /\ stateFile.pending = program /\ launches[program] + 1 = stateFile.boots
            /\ stateFile.boots <= MaxBootAttempts /\ stateFile.boots \in Nat
        BY <1>0, <2>1, <2>2, <3>1, MaxBootAttemptsAssumption
           DEF Sound, Backs, Started, Exact, State, BootCount
      <4>2. QED BY <2>3, <4>1, MaxBootAttemptsAssumption
    <3>2. OnTrial(stateFile) => stateFile.pending = program
      BY <2>1 DEF Sound, Backs
    <3>3. launches'[program] + 0 = launches'[program]
      BY <2>3
    <3>4. QED BY <2>2, <3>1, <3>2, <3>3 DEF Exact, OnTrial
  <2>6. QED
    BY <2>2, <2>4, <2>5 DEF EvidenceInv, EarnedInv, ExactInv, UsedUp, Earned, PoisonedSet
<1>12. ~DiscardRecord /\ ~DiscardStaged /\ ~ApplyUndo
  BY DEF RecoveryInv, ErrorPathsNeedFaults, Calm, DiscardRecord, DiscardStaged, ApplyUndo
<1>13. QED
  BY <1>1, <1>2, <1>3, <1>4, <1>5, <1>6, <1>7, <1>8, <1>9, <1>10, <1>11, <1>12
     DEF ShimStep

(* The program.                                                            *)
LEMMA ProgramKeepsEvidence ==
    ASSUME TypeInv, RollbackInv, RollbackInv', EvidenceInv, Calm, Calm',
           PollStep \/ HealthStep
    PROVE  EvidenceInv'
<1>0. /\ Running => mem \in State
      /\ health # "off" => Running
      /\ \A b \in BOOLEAN : Overlapping(b) => ~b
      /\ ~Fault
  BY CalmSteps DEF TypeInv, ProgramRuns, MemLoaded, Running, ProgramSteps
<1>1. /\ Running /\ mem \in State /\ mem # None /\ launches' = launches
      /\ step' \in ProgramSteps \cup {"down", "stopped"}
  BY <1>0, NoneAssumption
     DEF PollStep, HealthStep, Poll, NoteCheck, Decide, Download, Preflight, Persist, Stage,
         Leave, MarkHealthy, HealthSave, HealthRemovesBackup, BackToPoll, Exit, Running,
         ProgramSteps, disk, history
<1>2. Earned(stateFile) /\ Earned(mem) /\ Exact(stateFile, 0)
  BY <1>1 DEF EvidenceInv, EarnedInv, ExactInv, Running, ProgramSteps
<1>3. SUFFICES Earned(stateFile)' /\ Exact(stateFile, 0)' /\ (mem' # None => Earned(mem)')
  BY <1>1 DEF EvidenceInv, EarnedInv, ExactInv, UsedUp, ProgramSteps
<1>4. mem' # None => Earned(mem)'
  <2>1. CASE Poll \/ NoteCheck \/ Download \/ Persist \/ Stage \/ Leave \/ HealthSave
                \/ HealthRemovesBackup
    <3>1. (mem' = mem \/ mem' = None) /\ cutShort' = cutShort
      BY <2>1 DEF Poll, NoteCheck, Download, Persist, Stage, Leave, Exit, HealthSave,
         HealthRemovesBackup, history
    <3>2. QED BY <1>1, <1>2, <3>1 DEF Earned, PoisonedSet
  <2>2. CASE Decide
    <3>1. offer.version \in VersionOrNone
      BY <2>2, ManifestsAssumption DEF Decide, TypeInv, OfferFetched, Manifest
    <3>2. mem' \in {mem, RequireReinstall(mem, offer.version), ClearReinstall(mem)}
      BY <2>2 DEF Decide
    <3>3. PoisonedSet(mem') = PoisonedSet(mem) /\ cutShort' = cutShort
      BY <1>1, <2>2, <3>1, <3>2, RecordOperators DEF Decide, history
    <3>4. QED BY <1>1, <1>2, <3>3 DEF Earned
  <2>3. CASE Preflight
    <3>1. staged = offer.version /\ offer.version \in Versions
      BY <2>3 DEF Preflight, TypeInv, OfferFetched, RollbackInv, StagingInv
    <3>2. PoisonedSet(Poison(mem, offer.version)) \subseteq PoisonedSet(mem) \cup {offer.version}
      BY <1>1, <3>1, PoisonKeeps
    <3>3. CASE PreflightPasses
      <4>1. offer.version \notin PoisonedSet(mem)
        BY <2>3 DEF Preflight, Running, ProgramSteps, RollbackInv, StagingInv, MemInv
      <4>2. mem' = mem /\ cutShort' = cutShort \ {offer.version}
        BY <3>3 DEF PreflightPasses
      <4>3. QED BY <1>1, <1>2, <4>1, <4>2 DEF Earned, PoisonedSet
    <3>4. CASE PreflightFails
      <4>1. cutShort \subseteq cutShort' /\ offer.version \in Unrunnable \cup cutShort'
        BY <3>1, <3>4 DEF PreflightFails, CutShort
      <4>2. mem' = Poison(mem, offer.version)
        BY <3>4 DEF PreflightFails
      <4>3. QED BY <1>1, <1>2, <3>2, <4>1, <4>2 DEF Earned
    <3>5. QED BY <2>3, <3>3, <3>4 DEF Preflight, PreflightPasses, PreflightFails
  <2>4. CASE MarkHealthy
    <3>1. (mem' = mem \/ mem' = Commit(mem)) /\ cutShort' = cutShort
      BY <2>4 DEF MarkHealthy
    <3>2. PoisonedSet(Commit(mem)) = PoisonedSet(mem)
      BY <1>1, RecordOperators DEF VersionOrNone
    <3>3. QED BY <1>1, <1>2, <3>1, <3>2 DEF Earned, PoisonedSet
  <2>5. QED BY <2>1, <2>2, <2>3, <2>4 DEF PollStep, HealthStep
<1>5. Earned(stateFile)' /\ Exact(stateFile, 0)'
  <2>5. CASE Preflight
    <3>1. stateFile' = stateFile /\ offer.version \notin PoisonedSet(stateFile)
      BY <2>5 DEF Preflight, RollbackInv, StagingInv
    <3>2. cutShort \ {offer.version} \subseteq cutShort'
      BY <2>5 DEF Preflight, CutShort
    <3>3. QED BY <1>1, <1>2, <3>1, <3>2 DEF Earned, Exact, OnTrial, PoisonedSet
  <2>1. CASE Poll \/ Decide \/ Download \/ Stage \/ Leave \/ MarkHealthy
                \/ HealthRemovesBackup
    <3>1. stateFile' = stateFile /\ cutShort' = cutShort
      BY <2>1 DEF Poll, Decide, Download, Stage, Leave, MarkHealthy,
         HealthRemovesBackup, disk, history
    <3>2. QED BY <1>1, <1>2, <3>1 DEF Earned, Exact, OnTrial, PoisonedSet
  <2>2. CASE NoteCheck \/ Persist
    <3>1. pollSnap = mem /\ cutShort' = cutShort
      BY <2>2 DEF NoteCheck, Persist, RollbackInv, SavesInv, history
    <3>2. stateFile' = mem
      BY <1>0, <1>1, <2>2, <3>1, TornOfOne DEF NoteCheck, Persist, PollWrites
    <3>3. OnTrial(mem) => SameTrialOver(mem, stateFile)
      BY <1>1 DEF RollbackInv, MemInv
    <3>4. QED BY <1>1, <1>2, <3>1, <3>2, <3>3
       DEF Earned, Exact, OnTrial, PoisonedSet, SameTrialOver, SameTrial
  <2>3. CASE HealthSave
    <3>1. /\ stateFile' = healthSnap /\ ~OnTrial(healthSnap)
          /\ PoisonedSet(healthSnap) = PoisonedSet(stateFile) /\ cutShort' = cutShort
      BY <1>0, <2>3 DEF HealthSave, RollbackInv, SavesInv, history
    <3>2. QED BY <1>1, <1>2, <3>1 DEF Earned, Exact, OnTrial, PoisonedSet
  <2>4. QED BY <2>1, <2>2, <2>3, <2>5 DEF PollStep, HealthStep
<1>6. QED BY <1>4, <1>5

LEMMA EvidenceStep ==
    /\ TypeInv /\ RecoveryInv /\ RollbackInv /\ EvidenceInv
    /\ Calm /\ Calm' /\ [HarmlessCuts]_vars /\ [StartsFollow]_vars
    /\ [Next]_vars
    => EvidenceInv'
<1> SUFFICES ASSUME TypeInv, RecoveryInv, RollbackInv, EvidenceInv, Calm, Calm',
                    [HarmlessCuts]_vars, [StartsFollow]_vars, [Next]_vars
             PROVE  EvidenceInv'
  OBVIOUS
<1>1. CASE UNCHANGED vars
  BY <1>1 DEF vars, EvidenceInv, EarnedInv, ExactInv, UsedUp, Earned, Exact, PoisonedSet,
     OnTrial
<1>2. CASE Next /\ ~UNCHANGED vars
  <2>1. RollbackInv'
    BY RollbackStep
  <2>2. StartsFollow
    BY <1>2
  <2>3. QED
    BY <1>2, <2>1, <2>2, EnvironmentKeepsEvidence, ShimKeepsEvidence, ProgramKeepsEvidence
       DEF Next
<1>3. QED BY <1>1, <1>2

(* A version is remembered as failed because it cannot run here, because   *)
(* it used up its starts, or because its last self-check was cut short by  *)
(* a SIGTERM or its time limit, as long as each start that is counted      *)
(* follows (preflight, resolveTrial, Abandon, handOver).                   *)
THEOREM FailureIsEarned ==
    Spec /\ Favourable /\ [][StartsFollow]_vars => []PoisonIsEarned
<1>1. EvidenceInv => PoisonIsEarned
  BY DEF EvidenceInv, EarnedInv, Earned, PoisonIsEarned
<1>2. QED
  BY <1>1, TypeInvInit, TypeInvStep, RecoveryInvInit, RecoveryInvStep, RollbackInit,
     RollbackStep, EvidenceInit, EvidenceStep, PTL DEF Spec, Favourable

(* A trial leaves the state file because its version reported healthy,     *)
(* because it used up its starts and its predecessor is back, or because a *)
(* later release is on trial over it, as long as each start that is        *)
(* counted follows (MarkHealthy, Abandon, BeginTrial, handOver).           *)
THEOREM TrialsEndOnEvidence ==
    Spec /\ Favourable /\ [][StartsFollow]_vars => TrialEndsOnEvidence
<1>1. ASSUME TypeInv, RollbackInv, EvidenceInv, Calm, Calm', [Next]_vars,
             OnTrial(stateFile), stateFile'.pending # stateFile.pending
      PROVE  LET v == stateFile.pending IN
             \/ v \in healthy
             \/ /\ launches[v] >= MaxBootAttempts
                /\ IsPoisoned(stateFile', v)
                /\ program = stateFile.previous
             \/ /\ OnTrial(stateFile')
                /\ stateFile'.previous = v
  <2>1. ShimSave \/ NoteCheck \/ Persist \/ HealthSave
    BY <1>1 DEF vars, Next, ShimStep, PollStep, HealthStep,
       SupervisorStarts, OperatorStarts, ShimCrashes, ProgramKilled, ProgramDies,
       ShimLoad, ShimRead, DiscardRecord, DiscardStaged, ApplyVerify,
       ApplyDropBackup, ApplyMoveAside, ApplyPlace, ApplyUndo, ClearStaged, ClearRecord,
       ResolveTrial, RestoreRemove, RestorePutBack, HandOver, Poll,
       Decide, Download, Preflight, Stage, Leave,
       MarkHealthy, HealthRemovesBackup, disk
  <2>2. CASE ShimSave
    <3>1. step = "save" /\ stateFile' = mem /\ Ends(mem)
      BY <1>1, <2>2, CalmSteps DEF ShimSave, RollbackInv, HandingOver
    <3>2. ~OnTrial(mem) => launches[stateFile.pending] >= MaxBootAttempts
      BY <1>1, <3>1 DEF EvidenceInv, UsedUp
    <3>3. QED BY <1>1, <3>1, <3>2 DEF Ends
  <2>3. CASE NoteCheck \/ Persist
    <3>1. mem \in State /\ Running /\ pollSnap = mem
      BY <1>1, <2>3 DEF NoteCheck, Persist, TypeInv, MemLoaded, RollbackInv, SavesInv,
         Running, ProgramSteps
    <3>2. stateFile' = mem
      BY <1>1, <2>3, <3>1, CalmSteps, TornOfOne DEF NoteCheck, Persist, PollWrites
    <3>3. stateFile.pending \in healthy
      BY <1>1, <3>1, <3>2 DEF RollbackInv, MemInv, SameTrialOver, SameTrial
    <3>4. QED BY <3>3
  <2>4. CASE HealthSave
    <3>1. Running /\ stateFile' = healthSnap /\ ~OnTrial(mem)
      BY <1>1, <2>4, CalmSteps DEF HealthSave, RollbackInv, SavesInv, TypeInv, ProgramRuns
    <3>2. stateFile.pending \in healthy
      BY <1>1, <3>1 DEF RollbackInv, MemInv
    <3>3. QED BY <3>2
  <2>5. QED BY <2>1, <2>2, <2>3, <2>4
<1>2. TypeInv /\ RollbackInv /\ EvidenceInv /\ Calm /\ Calm' /\ [Next]_vars
        => (OnTrial(stateFile) /\ stateFile'.pending # stateFile.pending =>
              LET v == stateFile.pending IN
              \/ v \in healthy
              \/ /\ launches[v] >= MaxBootAttempts
                 /\ IsPoisoned(stateFile', v)
                 /\ program = stateFile.previous
              \/ /\ OnTrial(stateFile')
                 /\ stateFile'.previous = v)
  BY <1>1
<1>3. QED
  BY <1>2, TypeInvInit, TypeInvStep, RecoveryInvInit, RecoveryInvStep, RollbackInit,
     RollbackStep, EvidenceInit, EvidenceStep, PTL DEF Spec, Favourable, TrialEndsOnEvidence

-----------------------------------------------------------------------------
(* The contract (module TrialContract) as what Agent implements.  Its      *)
(* invariant: the records on disk, in memory and in the threads' hands are *)
(* as state.go leaves them, and each differs from the one on disk by one   *)
(* step of the contract.                                                   *)

(* A record as the operators of state.go leave it.                         *)
Orderly(s) ==
    /\ ~OnTrial(s) => s.previous = NoVersion /\ s.boots = 0
    /\ Len(s.poisoned) <= MaxPoisoned
    /\ \A i, j \in DOMAIN s.poisoned : s.poisoned[i] = s.poisoned[j] => i = j

SameFailures(s, t) == PoisonedSet(s) = PoisonedSet(t)

(* What the contract says of remembering version v.                        *)
Remembers(s, v, t) ==
    \E kept \in SUBSET PoisonedSet(s) :
        /\ Cardinality(kept) < MaxPoisoned
        /\ kept = PoisonedSet(s) \/ Cardinality(PoisonedSet(s)) >= MaxPoisoned
        /\ PoisonedSet(t) = kept \cup {v}

OnDisk ==
    /\ Orderly(stateFile)
    /\ OnTrial(stateFile) => /\ stateFile.boots <= MaxBootAttempts
                             /\ stateFile.pending \notin PoisonedSet(stateFile)

InMemory ==
    /\ step \in {"down", "stopped", "load"} => mem = None
    /\ step \notin {"down", "stopped", "load"} => Orderly(mem)
    /\ step = "place" => program = NoVersion
    /\ step \in {"clearStaged", "clearRecord", "trial", "removeFailed", "putBack"}
          => SameFailures(mem, stateFile)
    /\ step = "handOver" => mem = stateFile

(* What the shim is about to save continues the trial on disk, ends it     *)
(* with a rollback, or begins another.                                     *)
DueContinues ==
    /\ mem.pending = stateFile.pending
    /\ mem.previous = stateFile.previous
    /\ mem.boots = IF OnTrial(stateFile) THEN stateFile.boots + 1 ELSE 0
    /\ SameFailures(mem, stateFile)

DueBegins ==
    /\ OnTrial(mem)
    /\ mem.boots = 1
    /\ mem.previous = IF OnTrial(stateFile) THEN stateFile.pending ELSE backup
    /\ SameFailures(mem, stateFile)

DueEnds ==
    /\ OnTrial(stateFile) /\ ~OnTrial(mem)
    /\ stateFile.boots = MaxBootAttempts
    /\ program = stateFile.previous
    /\ Remembers(stateFile, stateFile.pending, mem)

Due == step = "save" => DueContinues \/ DueBegins \/ DueEnds

InThreads ==
    /\ health = "saving" => Orderly(healthSnap)
    /\ Running /\ OnTrial(stateFile) /\ ~OnTrial(mem) => health = "saving"
    /\ step = "persist" =>
         \/ SameFailures(mem, stateFile)
         \/ \E v \in Versions \ (PoisonedSet(stateFile) \cup {program}) :
                Remembers(stateFile, v, mem)

ContractInv == OnDisk /\ InMemory /\ Due /\ InThreads

-----------------------------------------------------------------------------
(* A list without repetitions has as many members as entries.              *)
LEMMA MembersAreCounted ==
    ASSUME NEW q \in Seq(Versions),
           \A i, j \in DOMAIN q : q[i] = q[j] => i = j
    PROVE  Cardinality({q[i] : i \in DOMAIN q}) = Len(q)
<1> DEFINE T == {q[i] : i \in DOMAIN q}
<1>1. Len(q) \in Nat /\ DOMAIN q = 1 .. Len(q) /\ q \in [1 .. Len(q) -> T]
  BY LenProperties
<1>2. q \in Bijection(1 .. Len(q), T)
  BY <1>1 DEF Bijection, Injection, Surjection, IsInjective
<1>3. ExistsBijection(1 .. Len(q), T)
  BY <1>2 DEF ExistsBijection
<1> HIDE DEF T
<1>4. Cardinality(T) = Len(q)
  BY <1>1, <1>3, FS_CountingElements
<1>5. QED BY <1>4 DEF T

(* Poison remembers as the contract says.                                  *)
LEMMA PoisonRemembers ==
    ASSUME NEW s \in State, Orderly(s), NEW v \in Versions, ~IsPoisoned(s, v)
    PROVE  Orderly(Poison(s, v)) /\ Remembers(s, v, Poison(s, v))
<1> DEFINE p == s.poisoned
           n == Len(p)
           q == Append(p, v)
<1>1. v # NoVersion /\ p \in Seq(Versions) /\ n \in Nat /\ DOMAIN p = 1 .. n
  BY VersionsAssumption, LenProperties DEF State
<1>2. /\ q \in Seq(Versions) /\ Len(q) = n + 1 /\ DOMAIN q = 1 .. n + 1
      /\ q[n + 1] = v /\ \A i \in 1 .. n : q[i] = p[i]
  BY <1>1, AppendProperties, LenProperties
<1>3. n <= MaxPoisoned /\ MaxPoisoned \in Nat \ {0}
  BY MaxPoisonedAssumption DEF Orderly
<1>4. \A i, j \in 1 .. n : p[i] = p[j] => i = j
  BY <1>1 DEF Orderly
<1>5. \A i \in 1 .. n : p[i] # v
  BY <1>1 DEF IsPoisoned, PoisonedSet
<1>6. \A i, j \in 1 .. n + 1 : q[i] = q[j] => i = j
  <2>1. \A i \in 1 .. n + 1 : i \in 1 .. n \/ i = n + 1
    BY <1>1
  <2>2. \A i \in 1 .. n : q[i] = p[i] /\ q[i] # q[n + 1]
    BY <1>2, <1>5
  <2> HIDE DEF n, q, p
  <2>3. QED BY <1>4, <2>1, <2>2
<1>7. PoisonedSet(s) = {p[i] : i \in 1 .. n} /\ Cardinality(PoisonedSet(s)) = n
  BY <1>1, <1>4, MembersAreCounted DEF PoisonedSet
<1>8. /\ Poison(s, v).poisoned = Newest(q) /\ Poison(s, v).pending = s.pending
      /\ Poison(s, v).previous = s.previous /\ Poison(s, v).boots = s.boots
  BY <1>1 DEF Poison, State
<1>9. PoisonedSet(Poison(s, v)) = {Newest(q)[i] : i \in DOMAIN Newest(q)}
  BY <1>8 DEF PoisonedSet
<1>10. SUFFICES
         /\ Len(Newest(q)) <= MaxPoisoned
         /\ \A i, j \in DOMAIN Newest(q) : Newest(q)[i] = Newest(q)[j] => i = j
         /\ \E kept \in SUBSET PoisonedSet(s) :
              /\ Cardinality(kept) < MaxPoisoned
              /\ kept = PoisonedSet(s) \/ Cardinality(PoisonedSet(s)) >= MaxPoisoned
              /\ {Newest(q)[i] : i \in DOMAIN Newest(q)} = kept \cup {v}
  <2> HIDE DEF q, n, p
  <2>1. QED BY <1>8, <1>9 DEF Orderly, OnTrial, Remembers
<1>11. CASE n < MaxPoisoned
  <2>1. Newest(q) = q
    BY <1>1, <1>2, <1>3, <1>11 DEF Newest
  <2>2. {q[i] : i \in 1 .. n + 1} = PoisonedSet(s) \cup {v}
    <3>1. \A i \in 1 .. n + 1 : i \in 1 .. n \/ i = n + 1
      BY <1>1
    <3>2. 1 .. n \subseteq 1 .. n + 1 /\ n + 1 \in 1 .. n + 1
      BY <1>1
    <3> HIDE DEF n, q, p
    <3>3. QED BY <1>2, <1>7, <3>1, <3>2
  <2>3. n + 1 <= MaxPoisoned
    BY <1>1, <1>3, <1>11
  <2>4. PoisonedSet(s) \in SUBSET PoisonedSet(s) /\ Cardinality(PoisonedSet(s)) < MaxPoisoned
    BY <1>7, <1>11
  <2>5. {Newest(q)[i] : i \in DOMAIN Newest(q)} = PoisonedSet(s) \cup {v}
    BY <1>2, <2>1, <2>2
  <2>6. Len(Newest(q)) <= MaxPoisoned
    BY <1>2, <2>1, <2>3
  <2>7. \A i, j \in DOMAIN Newest(q) : Newest(q)[i] = Newest(q)[j] => i = j
    BY <1>2, <1>6, <2>1
  <2> HIDE DEF n, q, p
  <2>8. QED BY <2>4, <2>5, <2>6, <2>7
<1>12. CASE n = MaxPoisoned
  <2> DEFINE r == Newest(q)
             t == Tail(p)
  <2>1. r = SubSeq(q, 2, n + 1)
    BY <1>1, <1>2, <1>3, <1>12 DEF Newest
  <2>2. \A i \in 2 .. n + 1 : q[i] \in Versions
    BY <1>2, ElementOfSeq
  <2>3. /\ r \in Seq(Versions) /\ Len(r) = n /\ DOMAIN r = 1 .. n
        /\ \A i \in 1 .. n : r[i] = q[i + 1]
    BY <1>1, <1>2, <2>1, <2>2, SubSeqProperties, LenProperties
  <2>4. p # << >>
    BY <1>1, <1>3, <1>12, EmptySeq
  <2>5. /\ t \in Seq(Versions) /\ Len(t) = n - 1 /\ DOMAIN t = 1 .. n - 1
        /\ \A i \in 1 .. n - 1 : t[i] = p[i + 1]
    BY <1>1, <2>4, HeadTailProperties, LenProperties
  <2>6. \A i, j \in 1 .. n : r[i] = r[j] => i = j
    <3>1. \A i \in 1 .. n : i + 1 \in 1 .. n + 1
      BY <1>1
    <3>2. \A i, j \in 1 .. n : i + 1 = j + 1 => i = j
      OBVIOUS
    <3> HIDE DEF n, q, p, r
    <3>3. QED BY <1>6, <2>3, <3>1, <3>2
  <2>7. \A i, j \in 1 .. n - 1 : t[i] = t[j] => i = j
    <3>1. \A i \in 1 .. n - 1 : i + 1 \in 1 .. n
      BY <1>1
    <3>2. \A i, j \in 1 .. n - 1 : i + 1 = j + 1 => i = j
      OBVIOUS
    <3> HIDE DEF n, q, p, t
    <3>3. QED BY <1>4, <2>5, <3>1, <3>2
  <2> DEFINE kept == {t[i] : i \in 1 .. n - 1}
  <2>8. Cardinality(kept) = n - 1
    <3>1. \A i, j \in DOMAIN t : t[i] = t[j] => i = j
      BY <2>5, <2>7
    <3> HIDE DEF n, q, p, t
    <3>2. QED BY <2>5, <3>1, MembersAreCounted
  <2>9. kept \in SUBSET PoisonedSet(s)
    <3>1. \A i \in 1 .. n - 1 : i + 1 \in 1 .. n
      BY <1>1
    <3> HIDE DEF n, q, p, t
    <3>2. QED BY <1>7, <2>5, <3>1
  <2>10. {r[i] : i \in 1 .. n} = kept \cup {v}
    <3>1. \A i \in 1 .. n : (i \in 1 .. n - 1 /\ i + 1 \in 1 .. n) \/ i = n
      BY <1>1
    <3>2. 1 .. n - 1 \subseteq 1 .. n /\ n \in 1 .. n
      BY <1>1, <1>3, <1>12
    <3>3. \A i \in 1 .. n - 1 : r[i] = t[i]
      <4>1. \A i \in 1 .. n - 1 : i + 1 \in 1 .. n
        BY <1>1
      <4> HIDE DEF n, q, p, t, r
      <4>2. QED BY <1>2, <2>3, <2>5, <3>2, <4>1
    <3>4. r[n] = v
      <4> HIDE DEF n, q, p, t, r
      <4>1. QED BY <1>2, <2>3, <3>2
    <3> HIDE DEF n, q, p, t, r
    <3>5. QED BY <3>1, <3>2, <3>3, <3>4
  <2>11. n - 1 < MaxPoisoned /\ n <= MaxPoisoned /\ n >= MaxPoisoned
    BY <1>1, <1>12
  <2> HIDE DEF n, q, p, t, kept
  <2>12. QED BY <1>7, <2>3, <2>6, <2>8, <2>9, <2>10, <2>11
<1>13. QED BY <1>1, <1>3, <1>11, <1>12

(* The operators on a trial keep the record in order.                      *)
LEMMA OrderlyOperators ==
    ASSUME NEW s \in State, Orderly(s),
           NEW v \in VersionOrNone, NEW w \in VersionOrNone
    PROVE  /\ v # NoVersion => Orderly(BeginTrial(s, v, w))
           /\ OnTrial(s) => Orderly(RecordBoot(s))
           /\ Orderly(EndTrial(s))
           /\ Orderly(RequireReinstall(s, v))
           /\ Orderly(ClearReinstall(s))
           /\ EndTrial(s).previous = NoVersion /\ EndTrial(s).boots = 0
BY DEF Orderly, OnTrial, BeginTrial, RecordBoot, EndTrial, RequireReinstall,
       ClearReinstall, State

LEMMA ContractInit == Init => ContractInv
<1> SUFFICES ASSUME Init PROVE ContractInv
  OBVIOUS
<1>1. /\ FreshState.poisoned = << >> /\ ~OnTrial(FreshState)
      /\ FreshState.previous = NoVersion /\ FreshState.boots = 0
  BY DEF FreshState, OnTrial
<1>2. Len(<< >>) = 0 /\ DOMAIN << >> = {}
  BY EmptySeq
<1>3. Orderly(FreshState)
  BY <1>1, <1>2, MaxPoisonedAssumption DEF Orderly
<1>4. QED
  BY <1>1, <1>3
     DEF Init, ContractInv, OnDisk, InMemory, Due, InThreads, Running, ProgramSteps

(* Starts, kills and deaths.                                               *)
LEMMA EnvironmentKeepsContract ==
    ASSUME TypeInv, RecoveryInv, RollbackInv, ContractInv, Calm, Calm',
           TypeInv', RollbackInv', HarmlessCuts, SupervisorStarts \/ OperatorStarts \/ ShimCrashes
              \/ ProgramKilled \/ ProgramDies
    PROVE  ContractInv'
<1> USE CalmSteps, VersionsAssumption, NoneAssumption
     DEF RollbackInv, BeforeSwap, Read, InSwap, Swapped, Resolving,
     RollingBack, HandingOver, MemInv, SavesInv, StagingInv, Sound, Backs, Unfailed,
     Failures, Started,
     ContractInv, OnDisk, InMemory, Due, InThreads, SameFailures, OnTrial, Recorded,
     Running, ShimSteps, ProgramSteps, disk, threads, history
<1>0. mem \in State \cup {None}
  BY DEF TypeInv, TypeOK
<1>1. ASSUME SupervisorStarts \/ OperatorStarts PROVE ContractInv'
  BY <1>0, <1>1 DEF SupervisorStarts, OperatorStarts, TypeInv, TypeOK, ProgramRuns
<1>2. ASSUME ShimCrashes PROVE ContractInv'
  BY <1>0, <1>2 DEF ShimCrashes
<1>3. ASSUME ProgramKilled \/ ProgramDies PROVE ContractInv'
  BY <1>0, <1>3 DEF ProgramKilled, ProgramDies, Exit, TypeInv, TypeOK, ProgramRuns
<1>4. QED
  BY <1>1, <1>2, <1>3

(* The shim.                                                               *)
LEMMA ShimKeepsContract ==
    ASSUME TypeInv, RecoveryInv, RollbackInv, ContractInv, Calm, Calm',
           TypeInv', RollbackInv', ShimStep
    PROVE  ContractInv'
<1> USE CalmSteps, VersionsAssumption, NoneAssumption
     DEF RollbackInv, BeforeSwap, Read, InSwap, Swapped, Resolving,
     RollingBack, HandingOver, MemInv, SavesInv, StagingInv, Sound, Backs, Unfailed,
     Failures, Started,
     ContractInv, OnDisk, InMemory, Due, InThreads, SameFailures, OnTrial, Recorded,
     Running, ShimSteps, ProgramSteps, disk, threads, history,
     TypeInv, TypeOK, RecordRead, StagedVerified, RecoveryInv, RecordConsumed, Calm
<1>0. /\ step \in ShimSteps => health = "off"
      /\ step \in ShimSteps \ {"load"} => mem \in State
  BY DEF TypeInv, ProgramRuns, MemLoaded
<1>1. ASSUME ShimLoad PROVE ContractInv'
  BY <1>0, <1>1 DEF ShimLoad, Exit
<1>2. ASSUME ShimRead PROVE ContractInv'
  BY <1>0, <1>2 DEF ShimRead
<1>3. ASSUME ApplyVerify PROVE ContractInv'
  <2>1. OnDisk'
    BY <1>0, <1>3 DEF ApplyVerify, Verified, ApplyFailed
  <2>2. InMemory'
    <3>1. record # None /\ Verified
      BY <1>3, RecordIsSome DEF ApplyVerify, Verified, TypeInv, RecordRead
    <3>2. mem' = mem /\ step' = "dropBackup"
      BY <1>3, <3>1 DEF ApplyVerify
    <3>3. QED BY <3>2, <1>3 DEF ApplyVerify
  <2>3. Due'
    BY <1>0, <1>3 DEF ApplyVerify, Verified, ApplyFailed
  <2>4. InThreads'
    BY <1>0, <1>3 DEF ApplyVerify, Verified, ApplyFailed
  <2>5. QED BY <2>1, <2>2, <2>3, <2>4
<1>4. ASSUME ApplyDropBackup PROVE ContractInv'
  BY <1>0, <1>4 DEF ApplyDropBackup
<1>5. ASSUME ApplyMoveAside PROVE ContractInv'
  BY <1>0, <1>5 DEF ApplyMoveAside, MoveAside
<1>6. ASSUME ApplyPlace PROVE ContractInv'
  <2>1. OnDisk'
    BY <1>0, <1>6 DEF ApplyPlace, PlaceStaged
  <2>2. InMemory'
    <3>1. /\ record.version \in Versions /\ record.from \in Versions
          /\ mem \in State /\ mem = stateFile /\ Orderly(mem)
      BY <1>0, <1>6 DEF ApplyPlace, TypeInv, RecordRead, Record
    <3>2. /\ mem' = BeginTrial(mem, record.version, record.from)
          /\ step' = "clearStaged" /\ stateFile' = stateFile
      BY <1>6 DEF ApplyPlace
    <3>3. Orderly(mem)' /\ PoisonedSet(mem)' = PoisonedSet(mem)
      <4> DEFINE next == BeginTrial(mem, record.version, record.from)
      <4>1. /\ record.version \in VersionOrNone /\ record.from \in VersionOrNone
            /\ record.version # NoVersion
        BY ONLY <3>1, VersionsAssumption DEF VersionOrNone
      <4>2. Orderly(next)
        BY ONLY <3>1, <4>1, OrderlyOperators
      <4>3. PoisonedSet(next) = PoisonedSet(mem)
        BY ONLY <3>1, <4>1, RecordOperators
      <4>4. QED BY ONLY <3>2, <4>2, <4>3
    <3>4. QED BY ONLY <3>1, <3>2, <3>3 DEF InMemory, SameFailures
  <2>3. Due'
    BY <1>0, <1>6 DEF ApplyPlace, PlaceStaged
  <2>4. InThreads'
    BY <1>0, <1>6 DEF ApplyPlace, PlaceStaged
  <2>5. QED BY <2>1, <2>2, <2>3, <2>4
<1>7. ASSUME ClearStaged PROVE ContractInv'
  BY <1>0, <1>7 DEF ClearStaged
<1>8. ASSUME ClearRecord PROVE ContractInv'
  BY <1>0, <1>8 DEF ClearRecord
<1>9. ASSUME ResolveTrial PROVE ContractInv'
  <2>1. OnDisk'
    BY <1>0, <1>9 DEF ResolveTrial, TooManyBoots, BackupExists
  <2>2. InMemory'
    <3>1. mem \in State /\ Orderly(mem) /\ SameFailures(mem, stateFile) /\ stateFile' = stateFile
      BY <1>0, <1>9 DEF ResolveTrial
    <3>2. /\ step' \in {"save", "removeFailed"}
          /\ mem' = mem \/ (OnTrial(mem) /\ mem' = RecordBoot(mem))
      BY <1>9 DEF ResolveTrial
    <3>3. Orderly(mem)' /\ PoisonedSet(mem)' = PoisonedSet(mem)
      BY ONLY <3>1, <3>2, VersionsAssumption, OrderlyOperators, RecordOperators
         DEF VersionOrNone
    <3>4. QED BY ONLY <3>1, <3>2, <3>3 DEF InMemory, SameFailures
  <2>3. Due'
    <3>1. /\ mem \in State /\ Orderly(mem) /\ SameFailures(mem, stateFile)
          /\ UNCHANGED <<stateFile, backup>>
      BY <1>0, <1>9 DEF ResolveTrial
    <3>2. /\ OnTrial(stateFile) => Replaces(mem) \/ SameTrialOver(mem, stateFile)
          /\ OnTrial(mem) => mem.previous = backup /\ mem.boots <= MaxBootAttempts
      BY <1>9 DEF ResolveTrial
    <3>3. (mem.pending = stateFile.pending /\ mem.boots = stateFile.boots) \/ mem.boots = 0
      BY <1>9 DEF ResolveTrial, RecoveryInv, TrialLoaded
    <3>4. CASE ~OnTrial(mem)
      <4>1. mem' = mem
        BY <1>9, <3>4 DEF ResolveTrial
      <4>2. ~OnTrial(stateFile)
        BY <3>2, <3>4 DEF Replaces, SameTrialOver, SameTrial
      <4>3. DueContinues'
        BY <3>1, <3>4, <4>1, <4>2 DEF DueContinues, Orderly
      <4>4. QED BY <4>3
    <3>5. CASE OnTrial(mem)
      <4>1. mem' = RecordBoot(mem)
        BY <1>9, <3>5 DEF ResolveTrial
      <4>2. /\ mem'.pending = mem.pending /\ mem'.previous = mem.previous
            /\ PoisonedSet(mem)' = PoisonedSet(mem) /\ mem'.boots = mem.boots + 1
        BY <3>1, <3>2, <3>5, <4>1, RecordOperators DEF VersionOrNone
      <4>3. CASE OnTrial(stateFile) /\ SameTrialOver(mem, stateFile)
        <5>1. DueContinues'
          BY <3>1, <4>2, <4>3 DEF DueContinues, SameTrialOver, SameTrial
        <5>2. QED BY <5>1
      <4>4. CASE OnTrial(stateFile) /\ Replaces(mem)
        <5>1. DueBegins'
          BY <3>1, <3>5, <4>2, <4>4 DEF DueBegins, Replaces
        <5>2. QED BY <5>1
      <4>5. CASE ~OnTrial(stateFile)
        <5>1. mem.boots = 0
          BY <3>3, <3>5, <4>5
        <5>2. DueBegins'
          BY <3>1, <3>2, <3>5, <4>2, <4>5, <5>1 DEF DueBegins
        <5>3. QED BY <5>2
      <4>6. QED BY <3>2, <4>3, <4>4, <4>5
    <3>6. QED BY <3>4, <3>5
  <2>4. InThreads'
    BY <1>0, <1>9 DEF ResolveTrial, TooManyBoots, BackupExists
  <2>5. QED BY <2>1, <2>2, <2>3, <2>4
<1>10. ASSUME RestoreRemove PROVE ContractInv'
  BY <1>0, <1>10 DEF RestoreRemove
<1>11. ASSUME RestorePutBack PROVE ContractInv'
  <2>1. OnDisk'
    BY <1>0, <1>11 DEF RestorePutBack, PutBack
  <2>2. InMemory'
    <3>1. /\ mem \in State /\ Orderly(mem) /\ SameFailures(mem, stateFile)
          /\ mem' = Abandon(mem) /\ step' = "save"
          /\ program' = backup /\ UNCHANGED stateFile
      BY <1>0, <1>11 DEF RestorePutBack, PutBack
    <3>2. /\ OnTrial(stateFile) /\ stateFile.boots >= MaxBootAttempts
      BY <1>11 DEF RestorePutBack, RecoveryInv, RestoreJustified, TrialSpent
    <3>3. /\ mem.pending = stateFile.pending /\ mem.previous = stateFile.previous
          /\ mem.previous = backup
          /\ stateFile.boots <= MaxBootAttempts /\ mem.pending \notin PoisonedSet(stateFile)
      BY <1>11, <3>2 DEF RestorePutBack
    <3>4. mem.pending \in Versions
      BY <3>1, <3>2, <3>3 DEF State, VersionOrNone
    <3>5. ~IsPoisoned(mem, mem.pending)
      BY <3>1, <3>3 DEF IsPoisoned
    <3>6. /\ Orderly(Poison(mem, mem.pending)) /\ Poison(mem, mem.pending) \in State
          /\ Remembers(mem, mem.pending, Poison(mem, mem.pending))
      BY <3>1, <3>4, <3>5, PoisonRemembers, StateOperatorsType DEF VersionOrNone
    <3>7. Orderly(mem)'
      BY <3>1, <3>4, <3>6, OrderlyOperators DEF Abandon, VersionOrNone
    <3>8. QED BY <3>1, <3>7
  <2>3. Due'
    <3>1. /\ mem \in State /\ Orderly(mem) /\ SameFailures(mem, stateFile)
          /\ mem' = Abandon(mem) /\ step' = "save"
          /\ program' = backup /\ UNCHANGED stateFile
      BY <1>0, <1>11 DEF RestorePutBack, PutBack
    <3>2. /\ OnTrial(stateFile) /\ stateFile.boots >= MaxBootAttempts
      BY <1>11 DEF RestorePutBack, RecoveryInv, RestoreJustified, TrialSpent
    <3>3. /\ mem.pending = stateFile.pending /\ mem.previous = stateFile.previous
          /\ mem.previous = backup
          /\ stateFile.boots <= MaxBootAttempts /\ mem.pending \notin PoisonedSet(stateFile)
      BY <1>11, <3>2 DEF RestorePutBack
    <3>4. mem.pending \in Versions
      BY <3>1, <3>2, <3>3 DEF State, VersionOrNone
    <3>5. ~IsPoisoned(mem, mem.pending)
      BY <3>1, <3>3 DEF IsPoisoned
    <3>6. /\ Orderly(Poison(mem, mem.pending)) /\ Poison(mem, mem.pending) \in State
          /\ Remembers(mem, mem.pending, Poison(mem, mem.pending))
      BY <3>1, <3>4, <3>5, PoisonRemembers, StateOperatorsType DEF VersionOrNone
    <3>7. mem'.pending = NoVersion /\ PoisonedSet(mem)' = PoisonedSet(Poison(mem, mem.pending))
      BY <3>1, <3>4, RecordOperators DEF VersionOrNone
    <3>8. stateFile.boots = MaxBootAttempts
      BY <3>2, <3>3, MaxBootAttemptsAssumption DEF TypeInv, TypeOK, State, BootCount
    <3>9. Remembers(stateFile, stateFile.pending, mem)'
      BY <3>1, <3>3, <3>6, <3>7 DEF Remembers
    <3>10. DueEnds'
      BY <3>1, <3>2, <3>3, <3>7, <3>8, <3>9 DEF DueEnds
    <3>11. QED BY <3>10
  <2>4. InThreads'
    BY <1>0, <1>11 DEF RestorePutBack, PutBack
  <2>5. QED BY <2>1, <2>2, <2>3, <2>4
<1>12. ASSUME ShimSave PROVE ContractInv'
  BY <1>0, <1>12 DEF ShimSave
<1>13. ASSUME HandOver PROVE ContractInv'
  BY <1>0, <1>13 DEF HandOver, Exit
<1>15. ~DiscardRecord /\ ~DiscardStaged /\ ~ApplyUndo
  BY DEF RecoveryInv, ErrorPathsNeedFaults, Calm, DiscardRecord, DiscardStaged, ApplyUndo
<1>16. QED
  BY <1>1, <1>2, <1>3, <1>4, <1>5, <1>6, <1>7, <1>8, <1>9, <1>10, <1>11, <1>12, <1>13,
     <1>15 DEF ShimStep

(* The program.                                                            *)
LEMMA ProgramKeepsContract ==
    ASSUME TypeInv, RecoveryInv, RollbackInv, ContractInv, Calm, Calm',
           TypeInv', RollbackInv', PollStep \/ HealthStep
    PROVE  ContractInv'
<1> USE CalmSteps, VersionsAssumption, NoneAssumption
     DEF RollbackInv, BeforeSwap, Read, InSwap, Swapped, Resolving,
     RollingBack, HandingOver, MemInv, SavesInv, StagingInv, Sound, Backs, Unfailed,
     Failures, Started,
     ContractInv, OnDisk, InMemory, Due, InThreads, SameFailures, OnTrial, Recorded,
     Running, ShimSteps, ProgramSteps, disk, threads, history,
     TypeInv, TypeOK, OfferFetched, SnapshotTaken, Calm
<1>0. /\ Running => mem \in State /\ program \in Versions
      /\ health # "off" => Running
  BY DEF TypeInv, ProgramRuns, MemLoaded
<1>1. ASSUME Poll PROVE ContractInv'
  BY <1>0, <1>1 DEF Poll, PollMarshals
<1>2. ASSUME NoteCheck PROVE ContractInv'
  <2>1. OnDisk'
    <3>1. stateFile' = mem /\ Running /\ mem \in State /\ Orderly(mem)
      BY <1>2, <1>0, TornOfOne DEF NoteCheck, PollWrites
    <3>2. OnTrial(mem) => SameTrialOver(mem, stateFile) /\ mem.pending = program
      BY <1>2, <3>1 DEF NoteCheck, SameTrialOver, SameTrial
    <3>3. OnTrial(mem) => mem.boots <= MaxBootAttempts /\ program \notin PoisonedSet(mem)
      BY <1>2, <3>1, <3>2 DEF NoteCheck, SameTrialOver, SameTrial
    <3>4. PoisonedSet(stateFile') = PoisonedSet(mem)
      BY <3>1
    <3>5. QED BY <3>1, <3>2, <3>3, <3>4 DEF Orderly
  <2>2. InMemory'
    BY <1>0, <1>2 DEF NoteCheck, PollWrites
  <2>3. Due'
    BY <1>0, <1>2 DEF NoteCheck, PollWrites
  <2>4. InThreads'
    <3>1. stateFile' = mem /\ mem' = mem /\ step' \in {"poll", "decide"}
      BY <1>2, <1>0, TornOfOne DEF NoteCheck, PollWrites, BackToPoll
    <3>2. UNCHANGED <<health, healthSnap>>
      BY <1>2 DEF NoteCheck
    <3>3. QED BY <1>2, <3>1, <3>2 DEF NoteCheck
  <2>5. QED BY <2>1, <2>2, <2>3, <2>4
<1>3. ASSUME Decide PROVE ContractInv'
  <2>1. OnDisk'
    BY <1>0, <1>3 DEF Decide, BackToPoll, PollMarshals
  <2>2. InMemory'
    <3>1. offer \in Manifest /\ offer.version \in VersionOrNone
      BY <1>3, ManifestsAssumption DEF Decide, TypeInv, OfferFetched, Manifest
    <3>2. mem' \in {mem, RequireReinstall(mem, offer.version), ClearReinstall(mem)}
      BY <1>3 DEF Decide
    <3>3. Running /\ step = "decide" /\ mem \in State /\ Orderly(mem)
      BY <1>0, <1>3 DEF Decide
    <3>4. Orderly(mem)'
      BY <3>1, <3>2, <3>3, OrderlyOperators
    <3>5. step' \in {"stop", "poll", "persist", "download"}
      BY <1>3 DEF Decide, BackToPoll
    <3>6. QED BY <3>4, <3>5
  <2>3. Due'
    BY <1>0, <1>3 DEF Decide, BackToPoll, PollMarshals
  <2>4. InThreads'
    <3>1. offer \in Manifest /\ offer.version \in VersionOrNone
      BY <1>3, ManifestsAssumption DEF Decide, TypeInv, OfferFetched, Manifest
    <3>2. mem' \in {mem, RequireReinstall(mem, offer.version), ClearReinstall(mem)}
      BY <1>3 DEF Decide
    <3>3. Running /\ step = "decide" /\ mem \in State /\ Orderly(mem)
      BY <1>0, <1>3 DEF Decide
    <3>4. SameTrialOver(mem', mem) /\ PoisonedSet(mem)' = PoisonedSet(mem)
      BY <3>1, <3>2, <3>3, RecordOperators DEF SameTrialOver, SameTrial
    <3>5. /\ mem'.pending = mem.pending /\ PoisonedSet(mem) = PoisonedSet(stateFile)
          /\ UNCHANGED <<stateFile, health, healthSnap>>
          /\ step' \in ProgramSteps
      BY <3>3, <3>4, <1>3 DEF Decide, BackToPoll, SameTrialOver, SameTrial
    <3>6. QED BY <3>3, <3>4, <3>5
  <2>5. QED BY <2>1, <2>2, <2>3, <2>4
<1>4. ASSUME Download PROVE ContractInv'
  BY <1>0, <1>4 DEF Download, BackToPoll
<1>5. ASSUME Preflight PROVE ContractInv'
  <2>1. OnDisk'
    BY <1>0, <1>5 DEF Preflight, PollMarshals
  <2>2. InMemory'
    <3>1. /\ staged = offer.version /\ offer.version \in Versions /\ step = "preflight"
          /\ Running /\ mem \in State /\ Orderly(mem) /\ SameFailures(mem, stateFile)
          /\ offer.version # program /\ offer.version \notin PoisonedSet(stateFile)
      BY <1>0, <1>5 DEF Preflight, TypeInv, OfferFetched
    <3>2. CASE PreflightPasses
      <4>1. UNCHANGED <<mem, stateFile, health, healthSnap>> /\ step' = "stage"
        BY <1>5, <3>2 DEF Preflight, PreflightPasses
      <4>2. QED BY <3>1, <4>1
    <3>3. CASE PreflightFails
      <4>1. /\ mem' = Poison(mem, offer.version) /\ step' = "persist"
            /\ UNCHANGED <<program, stateFile, health, healthSnap>>
        BY <1>5, <3>3 DEF Preflight, PreflightFails
      <4>2. ~IsPoisoned(mem, offer.version)
        BY <3>1 DEF IsPoisoned
      <4>3. Orderly(mem') /\ Remembers(mem, offer.version, mem')
        BY <3>1, <4>1, <4>2, PoisonRemembers
      <4>4. QED BY <4>1, <4>3
    <3>4. QED BY <1>5, <3>2, <3>3 DEF Preflight, PreflightPasses, PreflightFails
  <2>3. Due'
    BY <1>0, <1>5 DEF Preflight, PollMarshals
  <2>4. InThreads'
    <3>1. /\ staged = offer.version /\ offer.version \in Versions /\ step = "preflight"
          /\ Running /\ mem \in State /\ Orderly(mem) /\ SameFailures(mem, stateFile)
          /\ offer.version # program /\ offer.version \notin PoisonedSet(stateFile)
      BY <1>0, <1>5 DEF Preflight, TypeInv, OfferFetched
    <3>2. CASE PreflightPasses
      <4>1. UNCHANGED <<mem, stateFile, health, healthSnap>> /\ step' = "stage"
        BY <1>5, <3>2 DEF Preflight, PreflightPasses
      <4>2. QED BY <3>1, <4>1
    <3>3. CASE PreflightFails
      <4>1. /\ mem' = Poison(mem, offer.version) /\ step' = "persist"
            /\ UNCHANGED <<program, stateFile, health, healthSnap>>
        BY <1>5, <3>3 DEF Preflight, PreflightFails
      <4>2. ~IsPoisoned(mem, offer.version)
        BY <3>1 DEF IsPoisoned
      <4>3. Orderly(mem') /\ Remembers(mem, offer.version, mem')
        BY <3>1, <4>1, <4>2, PoisonRemembers
      <4>4. Remembers(stateFile', offer.version, mem')
        BY <3>1, <4>1, <4>3 DEF Remembers
      <4>5. mem'.pending = mem.pending
        BY <3>1, <4>1, RecordOperators DEF SameTrialOver, SameTrial, VersionOrNone
      <4>6. offer.version \in Versions \ (PoisonedSet(stateFile') \cup {program'})
        BY <3>1, <4>1
      <4>7. QED BY <3>1, <4>1, <4>4, <4>5, <4>6
    <3>4. QED BY <1>5, <3>2, <3>3 DEF Preflight, PreflightPasses, PreflightFails
  <2>5. QED BY <2>1, <2>2, <2>3, <2>4
<1>6. ASSUME Persist PROVE ContractInv'
  <2>1. OnDisk'
    <3>1. stateFile' = mem /\ Running /\ mem \in State /\ Orderly(mem)
      BY <1>6, <1>0, TornOfOne DEF Persist, PollWrites
    <3>2. OnTrial(mem) => SameTrialOver(mem, stateFile) /\ mem.pending = program
      BY <1>6, <3>1 DEF Persist, SameTrialOver, SameTrial
    <3>3. OnTrial(mem) => mem.boots <= MaxBootAttempts /\ program \notin PoisonedSet(mem)
      BY <1>6, <3>1, <3>2 DEF Persist, SameTrialOver, SameTrial
    <3>4. PoisonedSet(stateFile') = PoisonedSet(mem)
      BY <3>1
    <3>5. QED BY <3>1, <3>2, <3>3, <3>4 DEF Orderly
  <2>2. InMemory'
    BY <1>0, <1>6 DEF Persist, PollWrites, BackToPoll
  <2>3. Due'
    BY <1>0, <1>6 DEF Persist, PollWrites, BackToPoll
  <2>4. InThreads'
    <3>1. stateFile' = mem /\ mem' = mem /\ step' \in {"poll", "decide"}
      BY <1>6, <1>0, TornOfOne DEF Persist, PollWrites, BackToPoll
    <3>2. UNCHANGED <<health, healthSnap>>
      BY <1>6 DEF Persist
    <3>3. QED BY <1>6, <3>1, <3>2 DEF Persist
  <2>5. QED BY <2>1, <2>2, <2>3, <2>4
<1>7. ASSUME Stage PROVE ContractInv'
  BY <1>0, <1>7 DEF Stage, BackToPoll
<1>8. ASSUME Leave PROVE ContractInv'
  BY <1>0, <1>8 DEF Leave, Exit
<1>9. ASSUME MarkHealthy PROVE ContractInv'
  <2>1. OnDisk'
    BY <1>0, <1>9 DEF MarkHealthy
  <2>2. InMemory'
    <3>1. /\ Running /\ mem \in State /\ Orderly(mem) /\ step \notin {"down", "stopped", "load"}
          /\ UNCHANGED <<program, stateFile, step>>
      BY <1>0, <1>9 DEF MarkHealthy
    <3>2. CASE mem.pending # program
      <4>1. mem' = mem /\ health' = "done" /\ health = "waiting"
        BY <1>9, <3>2 DEF MarkHealthy
      <4>2. QED BY <3>1, <4>1
    <3>3. CASE mem.pending = program
      <4>1. mem' = EndTrial(mem) /\ healthSnap' = mem' /\ health' = "saving" /\ pollSnap = None
        BY <1>9, <3>3 DEF MarkHealthy, Commit
      <4>2. Orderly(mem')
        BY <3>1, <4>1, NoVersion \in VersionOrNone, OrderlyOperators DEF VersionOrNone
      <4>3. QED BY <3>1, <4>1, <4>2
    <3>4. QED BY <3>2, <3>3
  <2>3. Due'
    BY <1>0, <1>9 DEF MarkHealthy
  <2>4. InThreads'
    <3>1. /\ Running /\ mem \in State /\ Orderly(mem) /\ step \notin {"down", "stopped", "load"}
          /\ UNCHANGED <<program, stateFile, step>>
      BY <1>0, <1>9 DEF MarkHealthy
    <3>2. CASE mem.pending # program
      <4>1. mem' = mem /\ health' = "done" /\ health = "waiting"
        BY <1>9, <3>2 DEF MarkHealthy
      <4>2. QED BY <3>1, <4>1
    <3>3. CASE mem.pending = program
      <4>1. mem' = EndTrial(mem) /\ healthSnap' = mem' /\ health' = "saving" /\ pollSnap = None
        BY <1>9, <3>3 DEF MarkHealthy, Commit
      <4>2. Orderly(mem')
        BY <3>1, <4>1, NoVersion \in VersionOrNone, OrderlyOperators DEF VersionOrNone
      <4>3. step # "persist" /\ Orderly(healthSnap')
        BY <4>1, <4>2
      <4>4. QED BY <3>1, <4>1, <4>3
    <3>4. QED BY <3>2, <3>3
  <2>5. QED BY <2>1, <2>2, <2>3, <2>4
<1>10. ASSUME HealthSave PROVE ContractInv'
  BY <1>0, <1>10 DEF HealthSave
<1>11. ASSUME HealthRemovesBackup PROVE ContractInv'
  BY <1>0, <1>11 DEF HealthRemovesBackup
<1>12. QED
  BY <1>1, <1>2, <1>3, <1>4, <1>5, <1>6, <1>7, <1>8, <1>9, <1>10, <1>11
     DEF PollStep, HealthStep

LEMMA ContractInvStep ==
    /\ TypeInv /\ RecoveryInv /\ RollbackInv /\ ContractInv
    /\ Calm /\ Calm' /\ [HarmlessCuts]_vars
    /\ [Next]_vars
    => ContractInv'
<1> SUFFICES ASSUME TypeInv, RecoveryInv, RollbackInv, ContractInv, Calm, Calm',
                    [HarmlessCuts]_vars, [Next]_vars
             PROVE  ContractInv'
  OBVIOUS
<1>1. TypeInv' /\ RollbackInv'
  BY TypeInvStep, RollbackStep
<1>2. CASE UNCHANGED vars
  BY <1>2 DEF vars, ContractInv, OnDisk, InMemory, Due, DueContinues, DueBegins, DueEnds,
     InThreads, Running
<1>3. QED
  BY <1>1, <1>2, EnvironmentKeepsContract, ShimKeepsContract, ProgramKeepsContract
     DEF Next

-----------------------------------------------------------------------------
(* What the contract sees as installed, when nothing goes wrong: the trial *)
(* on disk, else the backup while the swap is not on record, else the      *)
(* program.                                                                *)
Swapping ==
    \/ step = "place"
    \/ step \in {"clearStaged", "clearRecord", "trial", "save"} /\ OnTrial(mem)

Current == IF Swapping THEN backup ELSE program

InstalledIs == Installed = IF OnTrial(stateFile) THEN stateFile.pending ELSE Current

Good == TypeInv /\ RecoveryInv /\ RollbackInv /\ ContractInv /\ Calm

LEMMA InstalledSimply == Good => InstalledIs
<1> SUFFICES ASSUME Good, ~OnTrial(stateFile) PROVE InstalledIs
  BY DEF InstalledIs, Current, Swapping, Installed
<1>1. step \notin {"discardRecord", "discardStaged", "undo", "removeFailed", "putBack"}
  BY DEF Good, RecoveryInv, ErrorPathsNeedFaults, RestoreJustified, TrialSpent, Calm
<1>2. CASE step \notin ShimSteps
  BY <1>2 DEF InstalledIs, Current, Swapping, Installed, ShimSteps
<1>3. CASE step \in {"load", "read", "verify", "dropBackup", "moveAside", "handOver"}
  <2>1. program # NoVersion
    BY <1>3, VersionsAssumption DEF Good, RollbackInv, BeforeSwap, InSwap, HandingOver
  <2>2. mem = None \/ ~OnTrial(mem)
    BY <1>3 DEF Good, RollbackInv, Read, ContractInv, InMemory
  <2>3. QED BY <1>3, <2>1, <2>2 DEF InstalledIs, Current, Swapping, Installed
<1>4. CASE step = "place"
  BY <1>4
     DEF InstalledIs, Current, Swapping, Installed, ShimSteps, Good, ContractInv,
         InMemory
<1>5. CASE step \in {"clearStaged", "clearRecord", "trial", "save"}
  <2>1. program # NoVersion
    BY <1>5, VersionsAssumption DEF Good, RollbackInv, Swapped, Resolving, HandingOver
  <2>2. mem # None
    BY <1>5, NoneAssumption DEF Good, TypeInv, MemLoaded, ShimSteps
  <2>3. QED BY <1>5, <2>1, <2>2 DEF InstalledIs, Current, Swapping, Installed, ShimSteps
<1>6. QED BY <1>1, <1>2, <1>3, <1>4, <1>5 DEF ShimSteps

LEMMA InstalledSimplyNext == Good' => InstalledIs'
BY InstalledSimply, PTL

LEMMA OneCardinality == \A S : Contract!Cardinality(S) = Cardinality(S)
BY DEF Contract!Cardinality, Cardinality

Saving == ShimSave \/ NoteCheck \/ Persist \/ HealthSave

(* Only a save is a step of the contract.                                  *)
LEMMA OthersStutter ==
    ASSUME Good, Good', HarmlessCuts, Next, ~Saving
    PROVE  UNCHANGED Contract!vars
<1>1. stateFile' = stateFile
  BY DEF Saving, Next, ShimStep, PollStep, HealthStep,
     SupervisorStarts, OperatorStarts, ShimCrashes, ProgramKilled, ProgramDies,
     ShimLoad, ShimRead, DiscardRecord, DiscardStaged, ApplyVerify,
     ApplyDropBackup, ApplyMoveAside, ApplyPlace, ApplyUndo, ClearStaged, ClearRecord,
     ResolveTrial, RestoreRemove, RestorePutBack, HandOver, Poll,
     Decide, Download, Preflight, Stage, Leave,
     MarkHealthy, HealthRemovesBackup, disk
<1>2. SUFFICES Installed' = Installed
  BY <1>1 DEF Contract!vars
<1>3. InstalledIs /\ InstalledIs'
  BY InstalledSimply, InstalledSimplyNext
<1>4. CASE OnTrial(stateFile)
  BY <1>1, <1>3, <1>4 DEF InstalledIs
<1>5. CASE ~OnTrial(stateFile)
  <2>1. SUFFICES Current' = Current
    BY <1>1, <1>3, <1>5 DEF InstalledIs
  <2>2. /\ step \in ShimSteps \cup ProgramSteps \cup {"down", "stopped"}
        /\ health # "off" => Running
        /\ step \notin {"discardRecord", "discardStaged", "undo", "removeFailed", "putBack"}
        /\ step' \notin {"removeFailed", "putBack"}
    BY <1>1, <1>5
       DEF Good, TypeInv, TypeOK, ProgramRuns, RecoveryInv, ErrorPathsNeedFaults,
       RestoreJustified, TrialSpent, Calm
  <2>3. ~Fault
    BY CalmSteps DEF Good
  <2>4. CASE SupervisorStarts \/ OperatorStarts \/ ShimCrashes \/ ProgramKilled \/ ProgramDies
    <3>1. CASE SupervisorStarts \/ OperatorStarts \/ ProgramKilled \/ ProgramDies
      BY <2>2, <3>1
         DEF Current, Swapping, SupervisorStarts, OperatorStarts,
         ProgramKilled, ProgramDies, Exit, Running, ProgramSteps, disk
    <3>2. CASE ShimCrashes
      <4>1. NothingHalfDone
        BY <3>2 DEF HarmlessCuts
      <4>2. ~Swapping
        BY <1>5, <4>1 DEF NothingHalfDone, Swapping, OnTrial
      <4>3. ~Swapping' /\ program' = program
        BY <3>2 DEF ShimCrashes, Swapping, disk
      <4>4. QED BY <4>2, <4>3 DEF Current
    <3>3. QED BY <2>4, <3>1, <3>2
  <2>5. CASE PollStep \/ HealthStep
    <3>1. Running /\ step' \in ProgramSteps \cup {"down", "stopped"}
      BY <2>2, <2>5
         DEF PollStep, HealthStep, Saving, Poll, Decide, Download, Preflight, Stage,
         Leave, MarkHealthy, HealthRemovesBackup, BackToPoll, Exit, Running, ProgramSteps
    <3>2. program' = program
      BY <2>5 DEF PollStep, HealthStep, Saving, Poll, Decide, Download, Preflight, Stage,
         Leave, MarkHealthy, HealthRemovesBackup, disk
    <3>3. QED BY <3>1, <3>2 DEF Current, Swapping, Running, ProgramSteps
  <2>6. CASE ShimLoad \/ ShimRead \/ ApplyVerify \/ ApplyDropBackup \/ HandOver
    <3>1. record \in Record => record # None
      BY RecordIsSome
    <3>2. step = "verify" => Verified
      BY <3>1 DEF Good, RollbackInv, BeforeSwap, Recorded, Verified, TypeInv, RecordRead
    <3>3. step = "read" => ~OnTrial(mem)
      BY <1>5 DEF Good, RollbackInv, Read
    <3>4. QED
      BY <2>3, <2>6, <3>2, <3>3
         DEF Current, Swapping, threads, ShimLoad, ShimRead, ApplyVerify,
             ApplyDropBackup,
         HandOver, Exit, disk
  <2>7. CASE ApplyMoveAside
    BY <2>3, <2>7, VersionsAssumption
       DEF Current, Swapping, ApplyMoveAside, MoveAside, Good, RollbackInv, InSwap
  <2>8. CASE ApplyPlace
    BY <2>3, <2>8 DEF Current, Swapping, ApplyPlace, Good, RollbackInv, Swapped
  <2>9. CASE ClearStaged \/ ClearRecord
    BY <2>3, <2>9 DEF Current, Swapping, ClearStaged, ClearRecord, threads
  <2>10. CASE ResolveTrial
    <3>1. mem \in State
      BY <2>10 DEF ResolveTrial, Good, TypeInv, MemLoaded, ShimSteps
    <3>2. OnTrial(mem') <=> OnTrial(mem)
      BY <2>10, <3>1, NoVersion \in VersionOrNone, RecordOperators
         DEF ResolveTrial, OnTrial, VersionOrNone
    <3>3. QED BY <2>2, <2>10, <3>2 DEF Current, Swapping, ResolveTrial, disk
  <2>11. QED
    BY <2>2, <2>4, <2>5, <2>6, <2>7, <2>8, <2>9, <2>10 DEF Next, ShimStep, Saving,
       DiscardRecord, DiscardStaged, ApplyUndo, RestoreRemove, RestorePutBack
<1>6. QED BY <1>4, <1>5

(* The shim's save starts a trial, or starts it once more, or ends it with *)
(* a rollback, or changes nothing.                                         *)
LEMMA ShimSaveIsAStep ==
    ASSUME Good, Good', ShimSave
    PROVE  Contract!Next \/ UNCHANGED Contract!vars
<1>1. /\ step = "save" /\ step' = "handOver" /\ stateFile' = mem /\ mem' = mem
      /\ program' = program /\ backup' = backup
  BY CalmSteps DEF ShimSave, Good, threads
<1>2. /\ mem \in State /\ stateFile \in State /\ Orderly(mem) /\ Orderly(stateFile)
      /\ Sound(mem)
  BY <1>1 DEF Good, TypeInv, TypeOK, MemLoaded, ShimSteps, ContractInv, OnDisk, InMemory,
     RollbackInv, HandingOver
<1>3. /\ Installed = IF OnTrial(stateFile) THEN stateFile.pending
                     ELSE IF OnTrial(mem) THEN backup ELSE program
      /\ Installed' = IF OnTrial(mem) THEN mem.pending ELSE program
  BY <1>1, InstalledSimply, InstalledSimplyNext DEF InstalledIs, Current, Swapping
<1>4. OnTrial(mem) => /\ mem.pending \in Versions /\ mem.pending = program
                      /\ mem.previous = backup /\ backup # program
                      /\ program \notin PoisonedSet(mem) /\ mem.boots <= MaxBootAttempts
  BY <1>2 DEF Sound, Backs, Unfailed, Started, OnTrial, State, VersionOrNone
<1>5. CASE DueContinues
  <2>1. CASE OnTrial(stateFile)
    <3>1. stateFile.boots \in Nat
      BY <1>2, MaxBootAttemptsAssumption DEF State, BootCount
    <3>2. Contract!Start
      BY <1>1, <1>3, <1>4, <1>5, <2>1, <3>1, MaxBootAttemptsAssumption
         DEF Contract!Start, DueContinues, OnTrial, SameFailures
    <3>3. QED BY <3>2 DEF Contract!Next
  <2>2. CASE ~OnTrial(stateFile)
    BY <1>1, <1>2, <1>3, <1>5, <2>2
       DEF Contract!vars, DueContinues, OnTrial, SameFailures, Orderly
  <2>3. QED BY <2>1, <2>2
<1>6. CASE DueBegins
  <2>1. Contract!Install(mem.pending)
    BY <1>1, <1>3, <1>4, <1>6 DEF Contract!Install, DueBegins, SameFailures
  <2>2. QED BY <1>4, <1>6, <2>1 DEF Contract!Next, DueBegins
<1>7. CASE DueEnds
  <2>1. Contract!Remember(stateFile.pending)
    <3>1. PoisonedSet(stateFile)' = PoisonedSet(mem)
      BY <1>1 DEF PoisonedSet
    <3>2. PICK kept \in SUBSET PoisonedSet(stateFile) :
              /\ Cardinality(kept) < MaxPoisoned
              /\ kept = PoisonedSet(stateFile) \/ Cardinality(PoisonedSet(stateFile)) >= MaxPoisoned
              /\ PoisonedSet(mem) = kept \cup {stateFile.pending}
      BY <1>7 DEF DueEnds, Remembers
    <3>3. QED BY <3>1, <3>2, OneCardinality DEF Contract!Remember
  <2>2. Contract!EndTrial
    BY <1>1, <1>2, <1>7
       DEF Contract!EndTrial, Contract!NoVersion, NoVersion, DueEnds, Orderly
  <2>3. Contract!RollBack
    BY <1>1, <1>3, <1>7, <2>1, <2>2 DEF Contract!RollBack, DueEnds
  <2>4. QED BY <2>3 DEF Contract!Next
<1>8. QED BY <1>1, <1>5, <1>6, <1>7 DEF Good, ContractInv, Due

(* A save of the poll loop changes nothing, or rejects a candidate.        *)
LEMMA PollSaveIsAStep ==
    ASSUME Good, Good', NoteCheck \/ Persist
    PROVE  Contract!Next \/ UNCHANGED Contract!vars
<1>1. /\ Running /\ mem \in State /\ pollSnap = mem /\ health # "saving"
      /\ step \in {"note", "persist"}
  BY DEF NoteCheck, Persist, Good, TypeInv, MemLoaded, RollbackInv, SavesInv, Running,
     ProgramSteps
<1>2. /\ stateFile' = mem /\ step' \in {"poll", "decide"} /\ program' = program
  BY <1>1, CalmSteps, TornOfOne DEF NoteCheck, Persist, PollWrites, BackToPoll, Good
<1>3. /\ OnTrial(stateFile) <=> OnTrial(mem)
      /\ OnTrial(mem) => SameTrialOver(mem, stateFile)
      /\ Orderly(mem) /\ Orderly(stateFile)
  BY <1>1 DEF Good, ContractInv, OnDisk, InMemory, InThreads, RollbackInv, MemInv,
     SameTrialOver, SameTrial, OnTrial
<1>4. /\ mem.pending = stateFile.pending /\ mem.previous = stateFile.previous
      /\ mem.boots = stateFile.boots
  BY <1>3 DEF SameTrialOver, SameTrial, Orderly, OnTrial
<1>5. /\ Installed = program /\ Installed' = Installed
  BY <1>1, <1>2, <1>4, InstalledSimply, InstalledSimplyNext
     DEF InstalledIs, Current, Swapping, OnTrial, Good, RollbackInv, MemInv, Sound, Backs
<1>6. CASE SameFailures(mem, stateFile)
  BY <1>2, <1>4, <1>5, <1>6 DEF Contract!vars, OnTrial, SameFailures
<1>7. ASSUME NEW v \in Versions \ (PoisonedSet(stateFile) \cup {program}),
             Remembers(stateFile, v, mem)
      PROVE  Contract!Next
  <2>1. Contract!Remember(v)
    <3>1. PoisonedSet(stateFile)' = PoisonedSet(mem)
      BY <1>2 DEF PoisonedSet
    <3>2. PICK kept \in SUBSET PoisonedSet(stateFile) :
              /\ Cardinality(kept) < MaxPoisoned
              /\ kept = PoisonedSet(stateFile) \/ Cardinality(PoisonedSet(stateFile)) >= MaxPoisoned
              /\ PoisonedSet(mem) = kept \cup {v}
      BY <1>7 DEF Remembers
    <3>3. QED BY <3>1, <3>2, OneCardinality DEF Contract!Remember
  <2>2. Contract!Reject(v)
    BY <1>2, <1>4, <1>5, <2>1 DEF Contract!Reject, OnTrial
  <2>3. QED BY <2>2 DEF Contract!Next
<1>8. SameFailures(mem, stateFile) \/
      \E v \in Versions \ (PoisonedSet(stateFile) \cup {program}) : Remembers(stateFile, v, mem)
  BY <1>1 DEF Good, ContractInv, InThreads, RollbackInv, MemInv, SameFailures
<1>9. QED BY <1>6, <1>7, <1>8

(* The health thread's save commits.                                       *)
LEMMA HealthSaveIsAStep ==
    ASSUME Good, Good', HealthSave
    PROVE  Contract!Next \/ UNCHANGED Contract!vars
<1>1. /\ Running /\ stateFile' = healthSnap /\ step' = step /\ program' = program
      /\ ~OnTrial(healthSnap) /\ Orderly(healthSnap) /\ Orderly(stateFile)
      /\ SameFailures(healthSnap, stateFile)
      /\ OnTrial(stateFile) => stateFile.pending = program
  BY CalmSteps DEF HealthSave, Good, RollbackInv, SavesInv, MemInv, Sound, Backs, TypeInv,
     ProgramRuns, ContractInv, OnDisk, InThreads, SameFailures
<1>2. Installed = program /\ Installed' = program
  BY <1>1, InstalledSimply, InstalledSimplyNext
     DEF InstalledIs, Current, Swapping, Running, ProgramSteps
<1>3. CASE OnTrial(stateFile)
  <2>1. Contract!EndTrial
    BY <1>1 DEF Contract!EndTrial, Contract!NoVersion, NoVersion, Orderly
  <2>2. Contract!Commit
    BY <1>1, <1>2, <1>3, <2>1 DEF Contract!Commit, SameFailures
  <2>3. QED BY <2>2 DEF Contract!Next
<1>4. CASE ~OnTrial(stateFile)
  BY <1>1, <1>2, <1>4 DEF Contract!vars, SameFailures, Orderly, OnTrial
<1>5. QED BY <1>3, <1>4

(* Shim, updater and files together implement the contract of a trial, for *)
(* any releases, limits and numbers of kills: every step of theirs is an   *)
(* install, a start, a commit, a rollback or a rejection, or nothing that  *)
(* the contract sees (resolveTrial, MarkHealthy, preflight and the swaps   *)
(* between them).                                                          *)
THEOREM TheContractIsKept == Spec /\ Favourable => ImplementsContract
<1>1. Init => Contract!Init
  BY
     DEF Init, Contract!Init, Contract!NoVersion, NoVersion, Installed, FreshState,
         OnTrial,
     PoisonedSet, ShimSteps
<1>2. Good /\ Good' /\ [HarmlessCuts]_vars /\ [Next]_vars => [Contract!Next]_(Contract!vars)
  <2> SUFFICES ASSUME Good, Good', [HarmlessCuts]_vars, [Next]_vars
               PROVE  Contract!Next \/ UNCHANGED Contract!vars
    OBVIOUS
  <2>1. CASE UNCHANGED vars
    BY <2>1 DEF vars, Contract!vars, Installed
  <2>2. CASE Next
    BY <2>1, <2>2, OthersStutter, ShimSaveIsAStep, PollSaveIsAStep, HealthSaveIsAStep DEF Saving
  <2>3. QED BY <2>1, <2>2
<1>3. QED
  BY <1>1, <1>2, TypeInvInit, TypeInvStep, RecoveryInvInit, RecoveryInvStep, RollbackInit,
     RollbackStep, ContractInit, ContractInvStep, PTL
     DEF Spec, Favourable, ImplementsContract, Contract!Spec, Good

=============================================================================
