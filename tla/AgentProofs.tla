---------------------------- MODULE AgentProofs -----------------------------
(***************************************************************************)
(* Theorems about module Agent, for every value of its constants, whatever *)
(* crashes, faults, kills and overlapping saves there are: its types, that *)
(* the shim finds a program to hand over to, that every start of a trial   *)
(* is counted, and that no single mishap takes the last copy.              *)
(***************************************************************************)
EXTENDS Agent, AgentStateProofs

-----------------------------------------------------------------------------
LEMMA TornType ==
    ASSUME NEW old \in State, NEW new \in State
    PROVE  Torn(old, new) \subseteq State
<1>1. ASSUME NEW p \in VersionOrNone, NEW q \in VersionOrNone, NEW b \in BootCount
      PROVE  [old EXCEPT !.pending = p, !.previous = q, !.boots = b] \in State
  BY DEF State
<1>2. /\ {old.pending, new.pending} \subseteq VersionOrNone
      /\ {old.previous, new.previous} \subseteq VersionOrNone
      /\ {old.boots, new.boots} \subseteq BootCount
  BY DEF State
<1>3. ASSUME NEW s \in Torn(old, new)
      PROVE  s \in State
  <2>1. PICK p \in {old.pending, new.pending},
             q \in {old.previous, new.previous},
             b \in {old.boots, new.boots} :
               s = [old EXCEPT !.pending = p, !.previous = q, !.boots = b]
    BY DEF Torn
  <2> QED
    BY <1>1, <1>2, <2>1
<1> QED
  BY <1>3

-----------------------------------------------------------------------------
(* What each step of the code may rely on: the values it reads have been   *)
(* written by the steps before it.                                         *)

MemLoaded == step \in (ShimSteps \ {"load"}) \cup ProgramSteps => mem \in State

RecordRead ==
    step \in {"verify", "dropBackup", "moveAside", "place", "undo"}
        => record \in Record

StagedVerified ==
    step \in {"dropBackup", "moveAside", "place"} => staged = record.version

OfferFetched ==
    /\ step \in {"decide", "download", "preflight", "stage", "persist"}
          => offer \in Manifests
    /\ step \in {"download", "preflight", "stage"} => offer.version \in Versions

SnapshotTaken ==
    /\ step \in {"note", "persist"} => pollSnap \in State
    /\ health = "saving" => healthSnap \in State

ProgramRuns ==
    /\ Running => program \in Versions
    /\ health # "off" => Running

TypeInv ==
    /\ TypeOK
    /\ MemLoaded
    /\ RecordRead
    /\ StagedVerified
    /\ OfferFetched
    /\ SnapshotTaken
    /\ ProgramRuns

LEMMA TypeInvInit == Init => TypeInv
<1> SUFFICES ASSUME Init PROVE TypeInv
  OBVIOUS
<1>1. InitialVersion \in Versions
  BY InitialVersionAssumption
<1>2. launches \in [Versions -> BootCount]
  BY MaxBootAttemptsAssumption DEF Init, BootCount
<1>3. spent \in Budgets
  BY BudgetsAssumption DEF Init, Budgets
<1>4. TypeOK
  BY <1>1, <1>2, <1>3, FreshStateType DEF Init, TypeOK, VersionOrNone
<1> QED
  BY <1>4 DEF Init, TypeInv, MemLoaded, RecordRead, StagedVerified,
     OfferFetched, SnapshotTaken, ProgramRuns, Running, ShimSteps, ProgramSteps

(* What the environment spends stays within its budgets, and only a        *)
(* failing file operation spends a fault.                                  *)
LEMMA SpendingType ==
    ASSUME spent \in Budgets
    PROVE  /\ Fault => spent' \in Budgets /\ spent'.faults # 0
           /\ \A b \in BOOLEAN :
                Overlapping(b) => spent' \in Budgets /\ spent'.faults = spent.faults
           /\ spent.crashes < MaxCrashes /\ Spend("crashes")
                => spent' \in Budgets /\ spent'.faults = spent.faults
           /\ spent.kills < MaxKills /\ Spend("kills")
                => spent' \in Budgets /\ spent'.faults = spent.faults
<1>1. Fault => spent' \in Budgets /\ spent'.faults # 0
  BY BudgetsAssumption DEF Fault, Spend, Budgets
<1>2. \A b \in BOOLEAN :
        Overlapping(b) => spent' \in Budgets /\ spent'.faults = spent.faults
  BY BudgetsAssumption DEF Overlapping, Spend, Budgets
<1>3. spent.crashes < MaxCrashes /\ Spend("crashes")
        => spent' \in Budgets /\ spent'.faults = spent.faults
  BY BudgetsAssumption DEF Spend, Budgets
<1>4. spent.kills < MaxKills /\ Spend("kills")
        => spent' \in Budgets /\ spent'.faults = spent.faults
  BY BudgetsAssumption DEF Spend, Budgets
<1> QED
  BY <1>1, <1>2, <1>3, <1>4

LEMMA LaunchesType ==
    ASSUME NEW f \in [Versions -> BootCount], NEW v \in Versions
    PROVE  /\ [f EXCEPT ![v] = 0] \in [Versions -> BootCount]
           /\ [f EXCEPT ![v] = IF @ > MaxBootAttempts THEN @ ELSE @ + 1]
                \in [Versions -> BootCount]
BY MaxBootAttemptsAssumption DEF BootCount

(* The environment's steps: starts, power cuts, kills, deaths.             *)
LEMMA EnvironmentType ==
    ASSUME TypeInv, SupervisorStarts \/ OperatorStarts \/ ShimCrashes \/ ProgramKilled \/ ProgramDies PROVE TypeInv'
<1> USE DEF TypeInv, TypeOK, MemLoaded, RecordRead, StagedVerified,
     OfferFetched, SnapshotTaken, ProgramRuns, Running, ShimSteps,
     ProgramSteps, VersionOrNone, disk, threads, history
<1>1. ASSUME SupervisorStarts PROVE TypeInv'
  BY <1>1, SpendingType, StateOperatorsType DEF SupervisorStarts
<1>2. ASSUME OperatorStarts PROVE TypeInv'
  BY <1>2, SpendingType, StateOperatorsType DEF OperatorStarts
<1>3. ASSUME ShimCrashes PROVE TypeInv'
  BY <1>3, SpendingType, StateOperatorsType DEF ShimCrashes
<1>4. ASSUME ProgramKilled PROVE TypeInv'
  BY <1>4, SpendingType, StateOperatorsType DEF ProgramKilled, Exit
<1>5. ASSUME ProgramDies PROVE TypeInv'
  BY <1>5, SpendingType, StateOperatorsType DEF ProgramDies, Exit
<1> QED
  BY <1>1, <1>2, <1>3, <1>4, <1>5

(* The shim's steps.                                                       *)
LEMMA ShimType ==
    ASSUME TypeInv, ShimStep PROVE TypeInv'
<1> USE DEF TypeInv, TypeOK, MemLoaded, RecordRead, StagedVerified,
     OfferFetched, SnapshotTaken, ProgramRuns, Running, ShimSteps,
     ProgramSteps, VersionOrNone, disk, threads, history
<1>1. ASSUME ShimLoad PROVE TypeInv'
  BY <1>1, SpendingType, StateOperatorsType DEF ShimLoad, Exit
<1>2. ASSUME ShimRead PROVE TypeInv'
  BY <1>2, SpendingType, StateOperatorsType DEF ShimRead
<1>3. ASSUME DiscardRecord PROVE TypeInv'
  BY <1>3, SpendingType, StateOperatorsType DEF DiscardRecord
<1>4. ASSUME DiscardStaged PROVE TypeInv'
  BY <1>4, SpendingType, StateOperatorsType DEF DiscardStaged
<1>5. ASSUME ApplyVerify PROVE TypeInv'
  <2>1. record.version \in Versions /\ record.from \in Versions
    BY <1>5 DEF Record, ApplyVerify
  <2>2. /\ Poison(mem, record.version) \in State
        /\ BeginTrial(mem, record.version, record.from) \in State
    BY <1>5, <2>1, StateOperatorsType DEF ApplyVerify
  <2>3. TypeOK'
    BY <1>5, <2>1, <2>2, SpendingType DEF ApplyVerify, Verified, ApplyFailed
  <2>4. MemLoaded' /\ RecordRead' /\ StagedVerified'
    BY <1>5, <2>1, <2>2, SpendingType DEF ApplyVerify, Verified, ApplyFailed
  <2>5. OfferFetched' /\ SnapshotTaken' /\ ProgramRuns'
    BY <1>5, <2>1, <2>2, SpendingType DEF ApplyVerify, Verified, ApplyFailed
  <2> QED
    BY <2>3, <2>4, <2>5
<1>6. ASSUME ApplyDropBackup PROVE TypeInv'
  <2>1. record.version \in Versions /\ record.from \in Versions
    BY <1>6 DEF Record, ApplyDropBackup
  <2>2. /\ Poison(mem, record.version) \in State
        /\ BeginTrial(mem, record.version, record.from) \in State
    BY <1>6, <2>1, StateOperatorsType DEF ApplyDropBackup
  <2>3. TypeOK'
    BY <1>6, <2>1, <2>2, SpendingType DEF ApplyDropBackup, ApplyFailed
  <2>4. MemLoaded' /\ RecordRead' /\ StagedVerified'
    BY <1>6, <2>1, <2>2, SpendingType DEF ApplyDropBackup, ApplyFailed
  <2>5. OfferFetched' /\ SnapshotTaken' /\ ProgramRuns'
    BY <1>6, <2>1, <2>2, SpendingType DEF ApplyDropBackup, ApplyFailed
  <2> QED
    BY <2>3, <2>4, <2>5
<1>7. ASSUME ApplyMoveAside PROVE TypeInv'
  <2>1. record.version \in Versions /\ record.from \in Versions
    BY <1>7 DEF Record, ApplyMoveAside
  <2>2. /\ Poison(mem, record.version) \in State
        /\ BeginTrial(mem, record.version, record.from) \in State
    BY <1>7, <2>1, StateOperatorsType DEF ApplyMoveAside
  <2>3. TypeOK'
    BY <1>7, <2>1, <2>2, SpendingType DEF ApplyMoveAside, MoveAside,
       ApplyFailed
  <2>4. MemLoaded' /\ RecordRead' /\ StagedVerified'
    BY <1>7, <2>1, <2>2, SpendingType DEF ApplyMoveAside, MoveAside,
       ApplyFailed
  <2>5. OfferFetched' /\ SnapshotTaken' /\ ProgramRuns'
    BY <1>7, <2>1, <2>2, SpendingType DEF ApplyMoveAside, MoveAside,
       ApplyFailed
  <2> QED
    BY <2>3, <2>4, <2>5
<1>8. ASSUME ApplyPlace PROVE TypeInv'
  <2>1. record.version \in Versions /\ record.from \in Versions
    BY <1>8 DEF Record, ApplyPlace
  <2>2. /\ Poison(mem, record.version) \in State
        /\ BeginTrial(mem, record.version, record.from) \in State
    BY <1>8, <2>1, StateOperatorsType DEF ApplyPlace
  <2>3. TypeOK'
    BY <1>8, <2>1, <2>2, SpendingType, LaunchesType DEF ApplyPlace,
       PlaceStaged
  <2>4. MemLoaded' /\ RecordRead' /\ StagedVerified'
    BY <1>8, <2>1, <2>2, SpendingType, LaunchesType DEF ApplyPlace,
       PlaceStaged
  <2>5. OfferFetched' /\ SnapshotTaken' /\ ProgramRuns'
    BY <1>8, <2>1, <2>2, SpendingType, LaunchesType DEF ApplyPlace,
       PlaceStaged
  <2> QED
    BY <2>3, <2>4, <2>5
<1>9. ASSUME ApplyUndo PROVE TypeInv'
  <2>1. record.version \in Versions /\ record.from \in Versions
    BY <1>9 DEF Record, ApplyUndo
  <2>2. /\ Poison(mem, record.version) \in State
        /\ BeginTrial(mem, record.version, record.from) \in State
    BY <1>9, <2>1, StateOperatorsType DEF ApplyUndo
  <2>3. TypeOK'
    BY <1>9, <2>1, <2>2, SpendingType DEF ApplyUndo, ApplyFailed, PutBack
  <2>4. MemLoaded' /\ RecordRead' /\ StagedVerified'
    BY <1>9, <2>1, <2>2, SpendingType DEF ApplyUndo, ApplyFailed, PutBack
  <2>5. OfferFetched' /\ SnapshotTaken' /\ ProgramRuns'
    BY <1>9, <2>1, <2>2, SpendingType DEF ApplyUndo, ApplyFailed, PutBack
  <2> QED
    BY <2>3, <2>4, <2>5
<1>10. ASSUME ClearStaged PROVE TypeInv'
  BY <1>10, SpendingType, StateOperatorsType DEF ClearStaged
<1>11. ASSUME ClearRecord PROVE TypeInv'
  BY <1>11, SpendingType, StateOperatorsType DEF ClearRecord
<1>12. ASSUME ResolveTrial PROVE TypeInv'
  BY <1>12, SpendingType, StateOperatorsType DEF ResolveTrial
<1>13. ASSUME RestoreRemove PROVE TypeInv'
  BY <1>13, SpendingType, StateOperatorsType DEF RestoreRemove
<1>14. ASSUME RestorePutBack PROVE TypeInv'
  BY <1>14, SpendingType, StateOperatorsType DEF RestorePutBack, PutBack
<1>15. ASSUME ShimSave PROVE TypeInv'
  BY <1>15, SpendingType, StateOperatorsType DEF ShimSave
<1>16. ASSUME HandOver PROVE TypeInv'
  BY <1>16, SpendingType, StateOperatorsType, LaunchesType DEF HandOver, Exit
<1> QED
  BY <1>1, <1>2, <1>3, <1>4, <1>5, <1>6, <1>7, <1>8, <1>9, <1>10, <1>11,
     <1>12, <1>13, <1>14, <1>15, <1>16 DEF ShimStep

(* The poll loop's steps.                                                  *)
LEMMA PollType ==
    ASSUME TypeInv, PollStep PROVE TypeInv'
<1> USE DEF TypeInv, TypeOK, MemLoaded, RecordRead, StagedVerified,
     OfferFetched, SnapshotTaken, ProgramRuns, Running, ShimSteps,
     ProgramSteps, VersionOrNone, disk, threads, history
<1>1. ASSUME Poll PROVE TypeInv'
  <2>1. mem \in State
    BY <1>1 DEF Poll
  <2>2. TypeOK'
    BY <1>1, <2>1, SpendingType DEF Poll, PollMarshals
  <2>3. MemLoaded' /\ RecordRead' /\ StagedVerified'
    BY <1>1, SpendingType DEF Poll, PollMarshals
  <2>4. OfferFetched' /\ SnapshotTaken' /\ ProgramRuns'
    BY <1>1, <2>1, ManifestsAssumption DEF Poll, PollMarshals
  <2> QED
    BY <2>2, <2>3, <2>4
<1>2. ASSUME NoteCheck PROVE TypeInv'
  <2>1. pollSnap \in State /\ mem \in State
    BY <1>2 DEF NoteCheck
  <2>2. Torn(pollSnap, mem) \subseteq State
    BY <2>1, TornType
  <2>3. stateFile' \in State /\ spent' \in Budgets
    BY <1>2, <2>2, SpendingType DEF NoteCheck, PollWrites
  <2>4. TypeOK'
    BY <1>2, <2>3 DEF NoteCheck, PollWrites
  <2>5. MemLoaded' /\ RecordRead' /\ StagedVerified'
    BY <1>2, SpendingType DEF NoteCheck, PollWrites
  <2>6. OfferFetched' /\ SnapshotTaken' /\ ProgramRuns'
    BY <1>2 DEF NoteCheck, PollWrites
  <2> QED
    BY <2>4, <2>5, <2>6
<1>3. ASSUME Decide PROVE TypeInv'
  <2>1. offer \in Manifest /\ offer.version \in VersionOrNone
    BY <1>3, ManifestsAssumption DEF Decide, Manifest
  <2>2. Evaluate(offer, program, mem) = "apply" => offer.version \in Versions
    BY <2>1 DEF Evaluate, Eligible
  <2>3. /\ RequireReinstall(mem, offer.version) \in State
        /\ ClearReinstall(mem) \in State
    BY <1>3, <2>1, StateOperatorsType DEF Decide
  <2>4. /\ mem' \in State
        /\ pollSnap' \in State \cup {None}
        /\ spent' \in Budgets
        /\ staged' \in VersionOrNone \cup {Partial}
    BY <1>3, <2>3, SpendingType DEF Decide, PollMarshals, BackToPoll
  <2>5. TypeOK'
    BY <1>3, <2>1, <2>2, <2>3, <2>4, SpendingType DEF Decide, PollMarshals,
       BackToPoll
  <2>6. MemLoaded' /\ RecordRead' /\ StagedVerified'
    BY <1>3, <2>1, <2>2, <2>3, <2>4, SpendingType DEF Decide, PollMarshals,
       BackToPoll
  <2>7. OfferFetched' /\ SnapshotTaken' /\ ProgramRuns'
    BY <1>3, <2>1, <2>2, <2>3, <2>4, SpendingType DEF Decide, PollMarshals,
       BackToPoll
  <2> QED
    BY <2>5, <2>6, <2>7
<1>4. ASSUME Download PROVE TypeInv'
  BY <1>4, SpendingType, StateOperatorsType DEF Download, BackToPoll
<1>5. ASSUME Preflight PROVE TypeInv'
  <2>1. Poison(mem, offer.version) \in State
    BY <1>5, StateOperatorsType DEF Preflight
  <2>2. mem' \in State /\ pollSnap' \in State \cup {None} /\ spent' \in Budgets
    BY <1>5, <2>1, SpendingType DEF Preflight, PollMarshals
  <2>6. cutShort' \subseteq Versions
    <3>1. offer.version \in Versions /\ cutShort \subseteq Versions
      BY <1>5 DEF Preflight
    <3>2. QED BY <1>5, <3>1 DEF Preflight, CutShort
  <2>3. TypeOK'
    BY <1>5, <2>2, <2>6 DEF Preflight
  <2>4. MemLoaded' /\ RecordRead' /\ StagedVerified'
    BY <1>5, <2>2, SpendingType DEF Preflight, PollMarshals
  <2>5. OfferFetched' /\ SnapshotTaken' /\ ProgramRuns'
    BY <1>5, <2>2 DEF Preflight, PollMarshals
  <2> QED
    BY <2>3, <2>4, <2>5
<1>6. ASSUME Persist PROVE TypeInv'
  <2>1. pollSnap \in State /\ mem \in State
    BY <1>6 DEF Persist
  <2>2. Torn(pollSnap, mem) \subseteq State
    BY <2>1, TornType
  <2>3. stateFile' \in State /\ spent' \in Budgets
    BY <1>6, <2>2, SpendingType DEF Persist, PollWrites
  <2>4. TypeOK'
    BY <1>6, <2>3 DEF Persist, PollWrites, BackToPoll
  <2>5. MemLoaded' /\ RecordRead' /\ StagedVerified'
    BY <1>6, SpendingType DEF Persist, PollWrites, BackToPoll
  <2>6. OfferFetched' /\ SnapshotTaken' /\ ProgramRuns'
    BY <1>6 DEF Persist, PollWrites, BackToPoll
  <2> QED
    BY <2>4, <2>5, <2>6
<1>7. ASSUME Stage PROVE TypeInv'
  <2>1. [version |-> offer.version, from |-> program] \in Record
    BY <1>7 DEF Stage, Record
  <2>2. TypeOK'
    BY <1>7, <2>1, SpendingType DEF Stage, BackToPoll
  <2>3. MemLoaded' /\ RecordRead' /\ StagedVerified'
    BY <1>7, <2>1, SpendingType DEF Stage, BackToPoll
  <2>4. OfferFetched' /\ SnapshotTaken' /\ ProgramRuns'
    BY <1>7, <2>1, SpendingType DEF Stage, BackToPoll
  <2> QED
    BY <2>2, <2>3, <2>4
<1>8. ASSUME Leave PROVE TypeInv'
  BY <1>8, SpendingType, StateOperatorsType DEF Leave, Exit
<1> QED
  BY <1>1, <1>2, <1>3, <1>4, <1>5, <1>6, <1>7, <1>8 DEF PollStep

(* The health thread's steps.                                              *)
LEMMA HealthType ==
    ASSUME TypeInv, HealthStep PROVE TypeInv'
<1> USE DEF TypeInv, TypeOK, MemLoaded, RecordRead, StagedVerified,
     OfferFetched, SnapshotTaken, ProgramRuns, Running, ShimSteps,
     ProgramSteps, VersionOrNone, disk, threads, history
<1>1. ASSUME MarkHealthy PROVE TypeInv'
  <2>1. mem \in State /\ program \in Versions
    BY <1>1 DEF MarkHealthy
  <2>2. Commit(mem) \in State
    BY <2>1, StateOperatorsType DEF Commit
  <2>3. mem' \in State /\ healthSnap' \in State \cup {None} /\ spent' \in Budgets
    BY <1>1, <2>1, <2>2, SpendingType DEF MarkHealthy
  <2>4. healthy' \subseteq Versions /\ health' \in {"saving", "done"}
    BY <1>1, <2>1 DEF MarkHealthy
  <2>5. UNCHANGED <<program, backup, staged, record, stateFile, step, offer, pollSnap,
                    cutShort, launches>>
    BY <1>1 DEF MarkHealthy
  <2>6. TypeOK'
    BY <2>3, <2>4, <2>5
  <2>7. /\ spent'.faults = spent.faults
        /\ health' = "saving" => healthSnap' = mem'
    BY <1>1, SpendingType DEF MarkHealthy
  <2>8. MemLoaded' /\ RecordRead' /\ StagedVerified'
    BY <2>3, <2>5, <2>7
  <2>9. OfferFetched' /\ SnapshotTaken' /\ ProgramRuns'
    BY <1>1, <2>3, <2>5, <2>7 DEF MarkHealthy
  <2> QED
    BY <2>6, <2>8, <2>9
<1>2. ASSUME HealthSave PROVE TypeInv'
  BY <1>2, SpendingType, StateOperatorsType DEF HealthSave
<1>3. ASSUME HealthRemovesBackup PROVE TypeInv'
  BY <1>3, SpendingType, StateOperatorsType DEF HealthRemovesBackup
<1> QED
  BY <1>1, <1>2, <1>3 DEF HealthStep

LEMMA TypeInvStep == TypeInv /\ [Next]_vars => TypeInv'
<1> SUFFICES ASSUME TypeInv, [Next]_vars PROVE TypeInv'
  OBVIOUS
<1>1. CASE UNCHANGED vars
  BY <1>1 DEF vars, TypeInv, TypeOK, MemLoaded, RecordRead, StagedVerified,
     OfferFetched, SnapshotTaken, ProgramRuns, Running
<1> QED
  BY <1>1, EnvironmentType, ShimType, PollType, HealthType DEF Next

(* TypeOK, for every value of the constants: what every file, every thread *)
(* and every counter may hold, through crashes, faults and overlaps.       *)
THEOREM TypeCorrect == Spec => []TypeOK
<1>1. TypeInv => TypeOK
  BY DEF TypeInv
<1> QED
  BY <1>1, TypeInvInit, TypeInvStep, PTL DEF Spec

(* PlacesWhatWasRecorded: nothing but the recorded candidate ever reaches  *)
(* the program's path through Apply, whatever failed before.               *)
THEOREM OnlyTheRecordedIsPlaced == Spec => PlacesWhatWasRecorded
<1>1. TypeInv /\ [Next]_vars
        => (step = "place" /\ program' # program => program' = record.version)
  <2> SUFFICES ASSUME TypeInv, [Next]_vars, step = "place", program' # program
               PROVE  program' = record.version
    OBVIOUS
  <2>1. ApplyPlace
    BY DEF vars, Next, ShimStep, PollStep, HealthStep, Running, ProgramSteps,
       SupervisorStarts, OperatorStarts, ShimCrashes, ProgramKilled, ProgramDies,
       ShimLoad, ShimRead, DiscardRecord, DiscardStaged, ApplyVerify,
       ApplyDropBackup, ApplyMoveAside, ApplyUndo, ClearStaged, ClearRecord,
       ResolveTrial, RestoreRemove, RestorePutBack, ShimSave, HandOver, Poll,
       NoteCheck, Decide, Download, Preflight, Persist, Stage, Leave,
       MarkHealthy, HealthSave, HealthRemovesBackup, disk
  <2> QED
    BY <2>1 DEF ApplyPlace, PlaceStaged, TypeInv, StagedVerified
<1> QED
  BY <1>1, TypeInvInit, TypeInvStep, PTL DEF Spec, PlacesWhatWasRecorded

-----------------------------------------------------------------------------
(* Why the shim always finds a program to hand over to.  Without failing   *)
(* file operations, the installed binary is missing only between the two   *)
(* renames of Apply or of Restore, and what power cuts leave behind leads  *)
(* the next start to the second rename: the staging record is still there  *)
(* in the one case, the trial's spent boot counter in the other.           *)

(* Every step up to resolveTrial has the trial as it was loaded, or the    *)
(* one that Apply has just begun.                                          *)
TrialLoaded ==
    step \in {"read", "discardRecord", "discardStaged", "verify", "dropBackup",
              "moveAside", "place", "undo", "clearStaged", "clearRecord", "trial"}
        => \/ mem.pending = stateFile.pending /\ mem.boots = stateFile.boots
           \/ mem.boots = 0

(* Only a failing file operation leads to the error paths.                 *)
ErrorPathsNeedFaults ==
    spent.faults = 0 => step \notin {"discardRecord", "discardStaged", "undo"}

RecordConsumed ==
    spent.faults = 0 /\ step \in {"trial", "removeFailed", "putBack"}
        => record = None

TrialSpent == OnTrial(stateFile) /\ stateFile.boots >= MaxBootAttempts

RestoreJustified ==
    step \in {"removeFailed", "putBack"} => backup # NoVersion /\ TrialSpent

MidApply ==
    /\ step \in {"down", "load", "read", "verify", "dropBackup", "moveAside", "place"}
    /\ record \in Record
    /\ staged = record.version

MidRestore ==
    /\ step \in {"down", "load", "read", "trial", "removeFailed", "putBack"}
    /\ step \in {"read", "trial"} => /\ mem.pending = stateFile.pending
                                     /\ mem.boots = stateFile.boots
    /\ record = None
    /\ backup # NoVersion
    /\ TrialSpent

ProgramOrRecovery ==
    spent.faults = 0 => program # NoVersion \/ MidApply \/ MidRestore

RecoveryInv ==
    /\ TrialLoaded
    /\ ErrorPathsNeedFaults
    /\ RecordConsumed
    /\ RestoreJustified
    /\ ProgramOrRecovery

(* What the operators on the record do to the trial.                       *)
LEMMA TrialOperators ==
    ASSUME NEW s \in State, NEW v, NEW w
    PROVE  /\ BeginTrial(s, v, w).boots = 0
           /\ Poison(s, v).pending = s.pending
           /\ Poison(s, v).boots = s.boots
           /\ RecordBoot(s).pending = s.pending
           /\ RecordBoot(s).boots \in Int
           /\ RecordBoot(s).boots <= s.boots + 1
           /\ s.boots >= MaxBootAttempts => RecordBoot(s).boots > MaxBootAttempts
BY MaxBootAttemptsAssumption DEF BeginTrial, Poison, RecordBoot, State, BootCount

(* The environment's steps: starts, power cuts, kills, deaths.             *)
LEMMA EnvironmentRecovers ==
    ASSUME TypeInv, RecoveryInv, SupervisorStarts \/ OperatorStarts \/ ShimCrashes \/ ProgramKilled \/ ProgramDies PROVE RecoveryInv'
<1> USE NoneAssumption, MaxBootAttemptsAssumption
     DEF TypeInv, TypeOK, MemLoaded, RecordRead, StagedVerified,
     ProgramRuns, Running, ShimSteps, ProgramSteps, VersionOrNone, disk,
     threads, history, RecoveryInv, TrialLoaded, ErrorPathsNeedFaults,
     RecordConsumed, RestoreJustified, ProgramOrRecovery, MidApply, MidRestore,
     TrialSpent, OnTrial
<1>1. ASSUME SupervisorStarts PROVE RecoveryInv'
  BY <1>1, SpendingType DEF SupervisorStarts
<1>2. ASSUME OperatorStarts PROVE RecoveryInv'
  BY <1>2, SpendingType DEF OperatorStarts
<1>3. ASSUME ShimCrashes PROVE RecoveryInv'
  BY <1>3, SpendingType DEF ShimCrashes, Spend
<1>4. ASSUME ProgramKilled PROVE RecoveryInv'
  BY <1>4, SpendingType DEF ProgramKilled, Exit, Spend
<1>5. ASSUME ProgramDies PROVE RecoveryInv'
  BY <1>5, SpendingType DEF ProgramDies, Exit
<1> QED
  BY <1>1, <1>2, <1>3, <1>4, <1>5

(* The shim's steps.                                                       *)
LEMMA ShimRecovers ==
    ASSUME TypeInv, RecoveryInv, ShimStep PROVE RecoveryInv'
<1> USE NoneAssumption, MaxBootAttemptsAssumption
     DEF TypeInv, TypeOK, MemLoaded, RecordRead, StagedVerified,
     ProgramRuns, Running, ShimSteps, ProgramSteps, VersionOrNone, disk,
     threads, history, RecoveryInv, TrialLoaded, ErrorPathsNeedFaults,
     RecordConsumed, RestoreJustified, ProgramOrRecovery, MidApply, MidRestore,
     TrialSpent, OnTrial
<1>1. ASSUME ShimLoad PROVE RecoveryInv'
  BY <1>1, SpendingType DEF ShimLoad, Exit
<1>2. ASSUME ShimRead PROVE RecoveryInv'
  <2>1. TrialLoaded' /\ ErrorPathsNeedFaults' /\ RestoreJustified'
    BY <1>2, SpendingType DEF ShimRead
  <2>2. RecordConsumed'
    BY <1>2, SpendingType DEF ShimRead
  <2>3. ProgramOrRecovery'
    <3>1. CASE spent'.faults # 0
      BY <3>1
    <3>2. CASE spent'.faults = 0
      <4>1. /\ step' = IF record = None THEN "trial" ELSE "verify"
            /\ spent.faults = 0
        BY <1>2, <3>2, SpendingType DEF ShimRead
      <4>2. MidApply => MidApply'
        BY <1>2, <4>1 DEF ShimRead, Record
      <4>3. MidRestore => MidRestore'
        BY <1>2, <4>1 DEF ShimRead
      <4> QED
        BY <1>2, <4>1, <4>2, <4>3 DEF ShimRead
    <3> QED
      BY <3>1, <3>2
  <2> QED
    BY <2>1, <2>2, <2>3
<1>3. ASSUME DiscardRecord PROVE RecoveryInv'
  BY <1>3, SpendingType DEF DiscardRecord
<1>4. ASSUME DiscardStaged PROVE RecoveryInv'
  BY <1>4, SpendingType DEF DiscardStaged
<1>5. ASSUME ApplyVerify PROVE RecoveryInv'
  BY <1>5, SpendingType, TrialOperators DEF ApplyVerify, Verified,
     ApplyFailed
<1>6. ASSUME ApplyDropBackup PROVE RecoveryInv'
  BY <1>6, SpendingType, TrialOperators DEF ApplyDropBackup, ApplyFailed
<1>7. ASSUME ApplyMoveAside PROVE RecoveryInv'
  BY <1>7, SpendingType, TrialOperators DEF ApplyMoveAside, MoveAside,
     ApplyFailed
<1>8. ASSUME ApplyPlace PROVE RecoveryInv'
  <2>1. mem \in State
    BY <1>8 DEF ApplyPlace
  <2>2. BeginTrial(mem, record.version, record.from).boots = 0
    BY <2>1, TrialOperators
  <2>3. record.version # NoVersion
    BY <1>8, VersionsAssumption DEF ApplyPlace, Record
  <2> QED
    BY <1>8, <2>2, <2>3, SpendingType DEF ApplyPlace, PlaceStaged
<1>9. ASSUME ApplyUndo PROVE RecoveryInv'
  BY <1>9, SpendingType, TrialOperators DEF ApplyUndo, ApplyFailed, PutBack
<1>10. ASSUME ClearStaged PROVE RecoveryInv'
  BY <1>10, SpendingType DEF ClearStaged
<1>11. ASSUME ClearRecord PROVE RecoveryInv'
  BY <1>11, SpendingType DEF ClearRecord
<1>12. ASSUME ResolveTrial PROVE RecoveryInv'
  <2>1. mem \in State /\ mem.boots \in Int
    BY <1>12 DEF ResolveTrial, State, BootCount
  <2>2. /\ RecordBoot(mem).boots \in Int
        /\ RecordBoot(mem).boots <= mem.boots + 1
        /\ mem.boots >= MaxBootAttempts => RecordBoot(mem).boots > MaxBootAttempts
    BY <2>1, TrialOperators
  <2>3. stateFile.boots \in Int
    BY DEF State, BootCount
  <2>4. CASE OnTrial(mem) /\ TooManyBoots(mem') /\ BackupExists
    BY <1>12, <2>1, <2>2, <2>3, <2>4 DEF ResolveTrial, TooManyBoots, BackupExists
  <2>5. CASE ~(OnTrial(mem) /\ TooManyBoots(mem') /\ BackupExists)
    BY <1>12, <2>1, <2>2, <2>3, <2>5 DEF ResolveTrial, TooManyBoots, BackupExists
  <2> QED
    BY <2>4, <2>5
<1>13. ASSUME RestoreRemove PROVE RecoveryInv'
  BY <1>13, SpendingType DEF RestoreRemove
<1>14. ASSUME RestorePutBack PROVE RecoveryInv'
  BY <1>14, SpendingType DEF RestorePutBack, PutBack
<1>15. ASSUME ShimSave PROVE RecoveryInv'
  BY <1>15, SpendingType DEF ShimSave
<1>16. ASSUME HandOver PROVE RecoveryInv'
  BY <1>16, SpendingType DEF HandOver, Exit
<1> QED
  BY <1>1, <1>2, <1>3, <1>4, <1>5, <1>6, <1>7, <1>8, <1>9, <1>10, <1>11,
     <1>12, <1>13, <1>14, <1>15, <1>16 DEF ShimStep

(* The poll loop's steps.                                                  *)
LEMMA PollRecovers ==
    ASSUME TypeInv, RecoveryInv, PollStep PROVE RecoveryInv'
<1> USE NoneAssumption, MaxBootAttemptsAssumption
     DEF TypeInv, TypeOK, MemLoaded, RecordRead, StagedVerified,
     ProgramRuns, Running, ShimSteps, ProgramSteps, VersionOrNone, disk,
     threads, history, RecoveryInv, TrialLoaded, ErrorPathsNeedFaults,
     RecordConsumed, RestoreJustified, ProgramOrRecovery, MidApply, MidRestore,
     TrialSpent, OnTrial
<1>1. ASSUME Poll PROVE RecoveryInv'
  BY <1>1, SpendingType DEF Poll, PollMarshals
<1>2. ASSUME NoteCheck PROVE RecoveryInv'
  BY <1>2, SpendingType DEF NoteCheck, PollWrites
<1>3. ASSUME Decide PROVE RecoveryInv'
  BY <1>3, SpendingType DEF Decide, PollMarshals, BackToPoll
<1>4. ASSUME Download PROVE RecoveryInv'
  BY <1>4, SpendingType DEF Download, BackToPoll
<1>5. ASSUME Preflight PROVE RecoveryInv'
  BY <1>5, SpendingType DEF Preflight, PollMarshals, BackToPoll
<1>6. ASSUME Persist PROVE RecoveryInv'
  BY <1>6, SpendingType DEF Persist, PollWrites, BackToPoll
<1>7. ASSUME Stage PROVE RecoveryInv'
  BY <1>7, SpendingType DEF Stage, BackToPoll
<1>8. ASSUME Leave PROVE RecoveryInv'
  BY <1>8, SpendingType DEF Leave, Exit
<1> QED
  BY <1>1, <1>2, <1>3, <1>4, <1>5, <1>6, <1>7, <1>8 DEF PollStep

(* The health thread's steps.                                              *)
LEMMA HealthRecovers ==
    ASSUME TypeInv, RecoveryInv, HealthStep PROVE RecoveryInv'
<1> USE NoneAssumption, MaxBootAttemptsAssumption
     DEF TypeInv, TypeOK, MemLoaded, RecordRead, StagedVerified,
     ProgramRuns, Running, ShimSteps, ProgramSteps, VersionOrNone, disk,
     threads, history, RecoveryInv, TrialLoaded, ErrorPathsNeedFaults,
     RecordConsumed, RestoreJustified, ProgramOrRecovery, MidApply, MidRestore,
     TrialSpent, OnTrial
<1>1. ASSUME MarkHealthy PROVE RecoveryInv'
  BY <1>1, SpendingType DEF MarkHealthy, Commit
<1>2. ASSUME HealthSave PROVE RecoveryInv'
  BY <1>2, SpendingType DEF HealthSave
<1>3. ASSUME HealthRemovesBackup PROVE RecoveryInv'
  BY <1>3, SpendingType DEF HealthRemovesBackup
<1> QED
  BY <1>1, <1>2, <1>3 DEF HealthStep

LEMMA RecoveryInvStep == TypeInv /\ RecoveryInv /\ [Next]_vars => RecoveryInv'
<1> SUFFICES ASSUME TypeInv, RecoveryInv, [Next]_vars PROVE RecoveryInv'
  OBVIOUS
<1>1. CASE UNCHANGED vars
  BY <1>1 DEF vars, RecoveryInv, TrialLoaded, ErrorPathsNeedFaults,
     RecordConsumed, RestoreJustified, ProgramOrRecovery, MidApply, MidRestore,
     TrialSpent
<1> QED
  BY <1>1, EnvironmentRecovers, ShimRecovers, PollRecovers, HealthRecovers
     DEF Next

LEMMA RecoveryInvInit == Init => RecoveryInv
BY InitialVersionAssumption, VersionsAssumption
   DEF Init, RecoveryInv, TrialLoaded, ErrorPathsNeedFaults, RecordConsumed,
       RestoreJustified, ProgramOrRecovery

(* HandOverFindsProgram, for every number of releases, power cuts, kills   *)
(* and overlapping saves.                                                  *)
THEOREM AlwaysAProgram == Spec => []HandOverFindsProgram
<1>1. RecoveryInv => HandOverFindsProgram
  BY DEF RecoveryInv, ProgramOrRecovery, MidApply, MidRestore,
     HandOverFindsProgram
<1> QED
  BY <1>1, TypeInvInit, TypeInvStep, RecoveryInvInit, RecoveryInvStep, PTL
     DEF Spec

-----------------------------------------------------------------------------
(* Why every start is counted.  Up to resolveTrial the counter in memory   *)
(* is no smaller than the number of starts; from there on it includes the  *)
(* start to come; and what the program saves has the counter it was handed *)
(* over with, or no trial at all.                                          *)

Quiet == spent.faults = 0 /\ spent.overlaps = 0

(* launches, once the program has been started again.                      *)
NextStart(v) ==
    IF launches[v] > MaxBootAttempts THEN launches[v] ELSE launches[v] + 1

DiskCounts == OnTrial(stateFile) => launches[stateFile.pending] <= stateFile.boots

BeforeCounting ==
    {"read", "discardRecord", "discardStaged", "verify", "dropBackup", "moveAside",
     "place", "undo", "clearStaged", "clearRecord", "trial"}

MemCounts ==
    step \in BeforeCounting /\ OnTrial(mem) => launches[mem.pending] <= mem.boots

MemHasCounted ==
    step \in {"removeFailed", "putBack", "save"} /\ OnTrial(mem)
        => NextStart(mem.pending) <= mem.boots

DiskHasCounted ==
    step = "handOver" /\ OnTrial(stateFile)
        => NextStart(stateFile.pending) <= stateFile.boots

SameTrial(s, t) == s.pending = t.pending /\ s.boots = t.boots

ProgramKeepsCount ==
    /\ Running => ~OnTrial(mem) \/ SameTrial(mem, stateFile)
    /\ Running /\ pollSnap # None => SameTrial(pollSnap, mem)
    /\ health = "saving" => ~OnTrial(healthSnap) /\ ~OnTrial(mem)

CountInv ==
    /\ ~Running => pollSnap = None
    /\ Quiet => /\ DiskCounts
                /\ MemCounts
                /\ MemHasCounted
                /\ DiskHasCounted
                /\ ProgramKeepsCount

LEMMA CountInit == Init => CountInv
BY DEF Init, CountInv, Quiet, DiskCounts, MemCounts, MemHasCounted, DiskHasCounted,
       ProgramKeepsCount, BeforeCounting, OnTrial, FreshState, Running, ProgramSteps

(* A budget that has been spent stays spent.                               *)
LEMMA QuietBefore ==
    ASSUME TypeInv
    PROVE  /\ Fault => ~Quiet'
           /\ \A b \in BOOLEAN : Overlapping(b) /\ Quiet' => Quiet /\ ~b
           /\ Spend("crashes") /\ Quiet' => Quiet
           /\ Spend("kills") /\ Quiet' => Quiet
           /\ UNCHANGED spent /\ Quiet' => Quiet
<1>1. spent \in Budgets
  BY DEF TypeInv, TypeOK
<1>2. Fault => ~Quiet'
  BY <1>1, BudgetsAssumption DEF Fault, Spend, Budgets, Quiet
<1>3. \A b \in BOOLEAN : Overlapping(b) /\ Quiet' => Quiet /\ ~b
  BY <1>1, BudgetsAssumption DEF Overlapping, Spend, Budgets, Quiet
<1>4. (Spend("crashes") \/ Spend("kills")) /\ Quiet' => Quiet
  BY <1>1, BudgetsAssumption DEF Spend, Budgets, Quiet
<1>5. QED BY <1>2, <1>3, <1>4 DEF Quiet

(* What each operator does to the trial.                                   *)
LEMMA TrialKept ==
    ASSUME NEW s \in State, NEW v, NEW w
    PROVE  /\ SameTrial(Poison(s, v), s)
           /\ SameTrial(RequireReinstall(s, v), s)
           /\ SameTrial(ClearReinstall(s), s)
           /\ ~OnTrial(Commit(s))
           /\ ~OnTrial(Abandon(s))
           /\ BeginTrial(s, v, w).pending = v /\ BeginTrial(s, v, w).boots = 0
<1>1. SameTrial(Poison(s, v), s)
  BY DEF SameTrial, Poison, State
<1>2. SameTrial(RequireReinstall(s, v), s) /\ SameTrial(ClearReinstall(s), s)
  BY DEF SameTrial, RequireReinstall, ClearReinstall, State
<1>3. \A t \in State : EndTrial(t).pending = NoVersion
  BY DEF EndTrial, State
<1>4. Poison(s, s.pending) \in State
  BY StateOperatorsType DEF State
<1>5. ~OnTrial(Commit(s)) /\ ~OnTrial(Abandon(s))
  BY <1>3, <1>4 DEF Commit, Abandon, OnTrial
<1>6. BeginTrial(s, v, w).pending = v /\ BeginTrial(s, v, w).boots = 0
  BY DEF BeginTrial, State
<1>7. QED BY <1>1, <1>2, <1>5, <1>6

LEMMA RecordBootCounts ==
    ASSUME NEW s \in State, OnTrial(s), launches \in [Versions -> BootCount],
           launches[s.pending] <= s.boots
    PROVE  /\ RecordBoot(s).pending = s.pending
           /\ NextStart(s.pending) <= RecordBoot(s).boots
<1>1. s.pending \in Versions /\ s.boots \in BootCount /\ launches[s.pending] \in BootCount
  BY DEF State, OnTrial, VersionOrNone
<1>2. QED
  BY <1>1, MaxBootAttemptsAssumption DEF RecordBoot, State, BootCount, NextStart

LEMMA StartIsNoLess ==
    ASSUME launches \in [Versions -> BootCount], NEW v \in Versions
    PROVE  launches[v] <= NextStart(v) /\ launches[v] \in Int /\ NextStart(v) \in Int
<1>1. launches[v] \in BootCount
  OBVIOUS
<1>2. QED BY <1>1, MaxBootAttemptsAssumption DEF BootCount, NextStart

(* A save by the poll, which no save of the other thread overlaps, writes  *)
(* the trial that is in memory.                                            *)
LEMMA PollWritesTheTrial ==
    ASSUME TypeInv, CountInv, Running, step \in {"note", "persist"}, PollWrites, Quiet'
    PROVE  Quiet /\ SameTrial(stateFile', mem) /\ UNCHANGED spent /\ pollSnap' = None
<1>1. UNCHANGED spent /\ stateFile' \in Torn(pollSnap, mem) /\ pollSnap' = None
  BY QuietBefore DEF PollWrites
<1>2. Quiet
  BY <1>1, QuietBefore
<1>3. pollSnap \in State /\ mem \in State
  BY DEF TypeInv, SnapshotTaken, MemLoaded, Running
<1>4. SameTrial(pollSnap, mem)
  BY <1>2, <1>3, NoneAssumption DEF CountInv, ProgramKeepsCount
<1>5. PICK p \in {pollSnap.pending, mem.pending},
           q \in {pollSnap.previous, mem.previous},
           b \in {pollSnap.boots, mem.boots} :
             stateFile' = [pollSnap EXCEPT !.pending = p, !.previous = q, !.boots = b]
  BY <1>1 DEF Torn
<1>6. p = mem.pending /\ b = mem.boots
  BY <1>4, <1>5 DEF SameTrial
<1>7. SameTrial(stateFile', mem)
  BY <1>3, <1>5, <1>6 DEF SameTrial, State
<1>8. QED BY <1>1, <1>2, <1>7

LEMMA EnvironmentCounts ==
    ASSUME TypeInv, CountInv,
           SupervisorStarts \/ OperatorStarts \/ ShimCrashes \/ ProgramKilled \/ ProgramDies
    PROVE  CountInv'
<1> USE DEF CountInv, DiskCounts, MemCounts, MemHasCounted, DiskHasCounted,
     ProgramKeepsCount, BeforeCounting, Running, ShimSteps, ProgramSteps, OnTrial,
     NextStart, SameTrial, disk, threads, history
<1>1. ASSUME SupervisorStarts PROVE CountInv'
  BY <1>1, QuietBefore DEF SupervisorStarts, TypeInv, ProgramRuns
<1>2. ASSUME OperatorStarts PROVE CountInv'
  BY <1>2, QuietBefore DEF OperatorStarts, TypeInv, ProgramRuns
<1>3. ASSUME ShimCrashes PROVE CountInv'
  BY <1>3, QuietBefore DEF ShimCrashes, TypeInv, ProgramRuns
<1>4. ASSUME ProgramKilled PROVE CountInv'
  BY <1>4, QuietBefore DEF ProgramKilled, Exit
<1>5. ASSUME ProgramDies PROVE CountInv'
  BY <1>5, QuietBefore DEF ProgramDies, Exit
<1>6. QED BY <1>1, <1>2, <1>3, <1>4, <1>5

LEMMA ShimCounts ==
    ASSUME TypeInv, CountInv, ShimStep PROVE CountInv'
<1> USE DEF CountInv, DiskCounts, MemCounts, MemHasCounted, DiskHasCounted,
     ProgramKeepsCount, BeforeCounting, Running, ShimSteps, ProgramSteps, OnTrial,
     SameTrial, disk, threads, history
<1>0. /\ stateFile \in State /\ launches \in [Versions -> BootCount]
      /\ step \in (ShimSteps \ {"load"}) => mem \in State
  BY DEF TypeInv, TypeOK, MemLoaded
<1>1. ASSUME ShimLoad PROVE CountInv'
  BY <1>1, QuietBefore DEF ShimLoad, Exit, TypeInv, ProgramRuns
<1>2. ASSUME ShimRead PROVE CountInv'
  BY <1>2, QuietBefore DEF ShimRead, TypeInv, ProgramRuns
<1>3. ASSUME DiscardRecord PROVE CountInv'
  BY <1>3, QuietBefore DEF DiscardRecord, TypeInv, ProgramRuns
<1>4. ASSUME DiscardStaged PROVE CountInv'
  BY <1>4, QuietBefore DEF DiscardStaged, TypeInv, ProgramRuns
<1>5. ASSUME ApplyVerify PROVE CountInv'
  BY <1>0, <1>5, QuietBefore, TrialKept DEF ApplyVerify, ApplyFailed, TypeInv, ProgramRuns
<1>6. ASSUME ApplyDropBackup PROVE CountInv'
  BY <1>0, <1>6, QuietBefore, TrialKept DEF ApplyDropBackup, ApplyFailed, TypeInv, ProgramRuns
<1>7. ASSUME ApplyMoveAside PROVE CountInv'
  BY <1>0, <1>7, QuietBefore, TrialKept DEF ApplyMoveAside, ApplyFailed, TypeInv, ProgramRuns
<1>8. ASSUME ApplyPlace PROVE CountInv'
  <2>1. step = "place" /\ health = "off" /\ ~Running'
    BY <1>8 DEF ApplyPlace, TypeInv, ProgramRuns
  <2>2. CASE Fault
    BY <1>8, <2>1, <2>2, QuietBefore DEF ApplyPlace
  <2>3. CASE PlaceStaged /\ UNCHANGED spent /\ step' = "clearStaged"
             /\ mem' = BeginTrial(mem, record.version, record.from)
    <3>1. staged = record.version /\ staged \in Versions
      BY <2>1 DEF TypeInv, StagedVerified, RecordRead, Record
    <3>2. mem'.pending = staged /\ mem'.boots = 0
      BY <1>0, <2>1, <2>3, <3>1, TrialKept
    <3>3. \A v \in Versions : launches'[v] = IF v = staged THEN 0 ELSE launches[v]
      BY <1>0, <2>3 DEF PlaceStaged
    <3>4. OnTrial(stateFile) => stateFile.pending \in Versions /\ stateFile.boots \in Nat
      BY <1>0, MaxBootAttemptsAssumption DEF State, VersionOrNone, BootCount
    <3>5. DiskCounts' \/ ~Quiet'
      BY <1>8, <2>3, <3>3, <3>4, QuietBefore DEF ApplyPlace
    <3>6. MemCounts'
      BY <3>1, <3>2, <3>3
    <3>7. QED BY <1>8, <2>1, <2>3, <3>5, <3>6, QuietBefore DEF ApplyPlace
  <2>4. QED BY <1>8, <2>2, <2>3 DEF ApplyPlace
<1>9. ASSUME ApplyUndo PROVE CountInv'
  BY <1>0, <1>9, QuietBefore, TrialKept DEF ApplyUndo, ApplyFailed, TypeInv, ProgramRuns
<1>10. ASSUME ClearStaged PROVE CountInv'
  BY <1>10, QuietBefore DEF ClearStaged, TypeInv, ProgramRuns
<1>11. ASSUME ClearRecord PROVE CountInv'
  BY <1>11, QuietBefore DEF ClearRecord, TypeInv, ProgramRuns
<1>12. ASSUME ResolveTrial PROVE CountInv'
  BY <1>0, <1>12, QuietBefore, RecordBootCounts DEF ResolveTrial, NextStart, TypeInv, ProgramRuns
<1>13. ASSUME RestoreRemove PROVE CountInv'
  BY <1>13, QuietBefore DEF RestoreRemove, NextStart, TypeInv, ProgramRuns
<1>14. ASSUME RestorePutBack PROVE CountInv'
  BY <1>0, <1>14, QuietBefore, TrialKept DEF RestorePutBack, TypeInv, ProgramRuns
<1>15. ASSUME ShimSave PROVE CountInv'
  <2>1. OnTrial(mem) => mem.pending \in Versions /\ mem.boots \in Int
    BY <1>0, <1>15 DEF ShimSave, State, VersionOrNone, BootCount
  <2>2. OnTrial(mem) =>
          /\ launches[mem.pending] <= NextStart(mem.pending)
          /\ launches[mem.pending] \in Int /\ NextStart(mem.pending) \in Int
    BY <1>0, <2>1, StartIsNoLess
  <2>3. Quiet' => DiskCounts' /\ DiskHasCounted'
    BY <1>15, <2>1, <2>2, QuietBefore DEF ShimSave, NextStart
  <2>4. QED BY <1>15, <2>3, QuietBefore DEF ShimSave, TypeInv, ProgramRuns
<1>16. ASSUME HandOver PROVE CountInv'
  <2>0. step = "handOver" /\ health = "off" /\ pollSnap = None
    BY <1>16 DEF HandOver, TypeInv, ProgramRuns
  <2>1. CASE Fault /\ Exit("1")
    BY <1>16, <2>1, QuietBefore DEF HandOver, Exit
  <2>2. CASE program = NoVersion /\ Exit("1") /\ UNCHANGED <<launches, spent>>
    BY <1>16, <2>2, QuietBefore DEF HandOver, Exit
  <2>3. CASE /\ program # NoVersion
             /\ launches' = [launches EXCEPT ![program] =
                                IF @ > MaxBootAttempts THEN @ ELSE @ + 1]
             /\ mem' = stateFile
             /\ health' = "waiting"
             /\ step' = "poll"
             /\ UNCHANGED <<offer, pollSnap, healthSnap, spent>>
    <3>1. \A v \in Versions :
            launches'[v] = IF v = program THEN NextStart(v) ELSE launches[v]
      BY <1>0, <2>3 DEF NextStart
    <3>2. OnTrial(stateFile) => stateFile.pending \in Versions /\ stateFile.boots \in Int
      BY <1>0 DEF State, VersionOrNone, BootCount
    <3>3. Quiet' => DiskCounts'
      BY <1>16, <2>0, <2>3, <3>1, <3>2, QuietBefore DEF HandOver
    <3>4. QED BY <1>16, <2>0, <2>3, <3>3, QuietBefore DEF HandOver
  <2>4. QED BY <1>16, <2>1, <2>2, <2>3 DEF HandOver
<1>17. QED
  BY <1>1, <1>2, <1>3, <1>4, <1>5, <1>6, <1>7, <1>8, <1>9, <1>10, <1>11,
     <1>12, <1>13, <1>14, <1>15, <1>16 DEF ShimStep

LEMMA PollCounts ==
    ASSUME TypeInv, CountInv, PollStep PROVE CountInv'
<1> USE DEF CountInv, DiskCounts, MemCounts, MemHasCounted, DiskHasCounted,
     ProgramKeepsCount, BeforeCounting, Running, ShimSteps, ProgramSteps, OnTrial,
     SameTrial, disk, threads, history
<1>0. Running => mem \in State
  BY DEF TypeInv, MemLoaded
<1>1. ASSUME Poll PROVE CountInv'
  BY <1>1, QuietBefore DEF Poll, PollMarshals
<1>2. ASSUME NoteCheck PROVE CountInv'
  <2>1. Running /\ PollWrites
    BY <1>2 DEF NoteCheck
  <2>2. Quiet' => Quiet /\ SameTrial(stateFile', mem) /\ pollSnap' = None
    BY <1>2, <2>1, PollWritesTheTrial DEF NoteCheck
  <2>3. QED BY <1>2, <2>1, <2>2 DEF NoteCheck
<1>3. ASSUME Decide PROVE CountInv'
  <2>1. mem \in State
    BY <1>0, <1>3 DEF Decide
  <2>2. SameTrial(mem', mem) /\ (pollSnap' = mem' \/ UNCHANGED pollSnap)
    BY <1>3, <2>1, TrialKept DEF Decide, PollMarshals
  <2>3. Quiet' => Quiet
    BY <1>3, QuietBefore DEF Decide, PollMarshals
  <2>4. Running /\ Running'
    BY <1>3 DEF Decide, BackToPoll
  <2>5. QED BY <1>3, <2>2, <2>3, <2>4 DEF Decide
<1>4. ASSUME Download PROVE CountInv'
  BY <1>4, QuietBefore DEF Download, BackToPoll
<1>5. ASSUME Preflight PROVE CountInv'
  <2>1. mem \in State
    BY <1>0, <1>5 DEF Preflight
  <2>2. SameTrial(mem', mem) /\ (pollSnap' = mem' \/ UNCHANGED pollSnap)
    BY <1>5, <2>1, TrialKept DEF Preflight, PollMarshals
  <2>3. Quiet' => Quiet
    BY <1>5, QuietBefore DEF Preflight, PollMarshals
  <2>4. QED BY <1>5, <2>2, <2>3 DEF Preflight
<1>6. ASSUME Persist PROVE CountInv'
  <2>1. Running /\ PollWrites
    BY <1>6 DEF Persist
  <2>2. Quiet' => Quiet /\ SameTrial(stateFile', mem) /\ pollSnap' = None
    BY <1>6, <2>1, PollWritesTheTrial DEF Persist
  <2>3. QED BY <1>6, <2>1, <2>2 DEF Persist, BackToPoll
<1>7. ASSUME Stage PROVE CountInv'
  BY <1>7, QuietBefore DEF Stage, BackToPoll
<1>8. ASSUME Leave PROVE CountInv'
  BY <1>8, QuietBefore DEF Leave, Exit
<1>9. QED
  BY <1>1, <1>2, <1>3, <1>4, <1>5, <1>6, <1>7, <1>8 DEF PollStep

LEMMA HealthCounts ==
    ASSUME TypeInv, CountInv, HealthStep PROVE CountInv'
<1> USE DEF CountInv, DiskCounts, MemCounts, MemHasCounted, DiskHasCounted,
     ProgramKeepsCount, BeforeCounting, Running, ShimSteps, ProgramSteps, OnTrial,
     SameTrial, disk, threads, history
<1>0. Running => mem \in State
  BY DEF TypeInv, MemLoaded
<1>1. ASSUME MarkHealthy PROVE CountInv'
  <2>1. Running /\ mem \in State
    BY <1>0, <1>1 DEF MarkHealthy
  <2>2. CASE mem.pending = program
    <3>1. /\ mem' = Commit(mem) /\ healthSnap' = mem'
          /\ ~OnTrial(mem')
          /\ Quiet' => Quiet /\ pollSnap = None
      BY <1>1, <2>1, <2>2, QuietBefore, TrialKept DEF MarkHealthy
    <3>2. QED BY <1>1, <2>1, <3>1 DEF MarkHealthy
  <2>3. CASE mem.pending # program
    BY <1>1, <2>1, <2>3, QuietBefore DEF MarkHealthy
  <2>4. QED BY <2>2, <2>3
<1>2. ASSUME HealthSave PROVE CountInv'
  <2>1. Running /\ Running' /\ health' = "removing" /\ UNCHANGED <<mem, pollSnap, launches>>
    BY <1>2 DEF HealthSave, TypeInv, ProgramRuns
  <2>2. CASE Fault
    BY <2>1, <2>2, QuietBefore
  <2>3. CASE stateFile' = healthSnap /\ UNCHANGED spent
    BY <1>2, <2>1, <2>3, QuietBefore DEF HealthSave
  <2>4. QED BY <1>2, <2>2, <2>3 DEF HealthSave
<1>3. ASSUME HealthRemovesBackup PROVE CountInv'
  <2>1. /\ Running /\ Running' /\ health' = "done"
        /\ UNCHANGED <<stateFile, step, mem, pollSnap, launches>>
        /\ Quiet' => Quiet
    BY <1>3, QuietBefore DEF HealthRemovesBackup, TypeInv, ProgramRuns
  <2>2. QED BY <2>1
<1>4. QED BY <1>1, <1>2, <1>3 DEF HealthStep

LEMMA CountStep == TypeInv /\ CountInv /\ [Next]_vars => CountInv'
<1> SUFFICES ASSUME TypeInv, CountInv, [Next]_vars PROVE CountInv'
  OBVIOUS
<1>1. CASE UNCHANGED vars
  BY <1>1 DEF vars, CountInv, Quiet, DiskCounts, MemCounts, MemHasCounted,
     DiskHasCounted, ProgramKeepsCount, NextStart, Running, OnTrial, SameTrial
<1>2. QED
  BY <1>1, EnvironmentCounts, ShimCounts, PollCounts, HealthCounts DEF Next

(* No start of a version on trial escapes the counter on disk, wherever    *)
(* power is cut and however often the program is killed (resolveTrial      *)
(* counts and run saves before handOver).                                  *)
THEOREM EveryStartIsCounted == Spec => []LaunchesAreCounted
<1>1. TypeInv /\ CountInv => LaunchesAreCounted
  <2> SUFFICES ASSUME TypeInv, CountInv, Running, stateFile.pending = program,
                      spent.faults + spent.overlaps = 0
               PROVE  launches[program] <= stateFile.boots
    BY DEF LaunchesAreCounted
  <2>1. Quiet
    BY DEF Quiet, TypeInv, TypeOK, Budgets
  <2>2. OnTrial(stateFile)
    BY VersionsAssumption DEF OnTrial, TypeInv, ProgramRuns
  <2>3. QED BY <2>1, <2>2 DEF CountInv, DiskCounts
<1>2. QED
  BY <1>1, TypeInvInit, TypeInvStep, CountInit, CountStep, PTL DEF Spec

-----------------------------------------------------------------------------
(* Why the count also limits the starts: where there is a backup, the shim *)
(* only saves, and only hands over to, a trial that has starts left.       *)
Left(s) == OnTrial(s) => s.boots <= MaxBootAttempts

ChancesInv ==
    Quiet /\ backup # NoVersion =>
        /\ step = "save" => Left(mem)
        /\ step = "handOver" \/ Running => Left(stateFile)

LEMMA ChancesInit == Init => ChancesInv
BY DEF Init, ChancesInv, Running, ProgramSteps

LEMMA ShimLeavesChances ==
    ASSUME TypeInv, ChancesInv, ShimStep PROVE ChancesInv'
<1>1. CASE ResolveTrial
  <2>1. /\ mem \in State /\ step' \in {"save", "removeFailed"}
        /\ backup' = backup
    BY <1>1 DEF ResolveTrial, TypeInv, MemLoaded, ShimSteps, disk
  <2>2. ASSUME backup # NoVersion, step' = "save", OnTrial(mem)
        PROVE  mem'.boots <= MaxBootAttempts
    <3>1. /\ mem' = RecordBoot(mem)
          /\ step' = IF TooManyBoots(mem') /\ BackupExists
                     THEN "removeFailed" ELSE "save"
      BY <1>1, <2>2 DEF ResolveTrial
    <3>2. ~(mem'.boots > MaxBootAttempts)
      BY <2>2, <3>1 DEF BackupExists, TooManyBoots
    <3>3. RecordBoot(mem).boots \in Nat
      <4>1. RecordBoot(mem) \in State
        BY <2>1, StateOperatorsType DEF State
      <4>2. QED BY <4>1, MaxBootAttemptsAssumption DEF State, BootCount
    <3>4. QED BY <3>1, <3>2, <3>3, MaxBootAttemptsAssumption
  <2>3. ~OnTrial(mem) => mem' = mem
    BY <1>1 DEF ResolveTrial
  <2>4. QED BY <2>1, <2>2, <2>3 DEF ChancesInv, Left, Running, ProgramSteps, OnTrial
<1>2. CASE RestorePutBack
  BY <1>2, QuietBefore DEF RestorePutBack, PutBack, ChancesInv, Running, ProgramSteps
<1>3. CASE RestoreRemove
  BY <1>3, QuietBefore DEF RestoreRemove, ChancesInv, Running, ProgramSteps
<1>4. CASE ShimSave
  <2>1. /\ step = "save" /\ step' = "handOver" /\ backup' = backup
        /\ Quiet' => Quiet /\ stateFile' = mem
    BY <1>4, QuietBefore DEF ShimSave
  <2>2. QED BY <2>1 DEF ChancesInv, Left, Running, ProgramSteps, OnTrial
<1>5. CASE HandOver
  <2>1. /\ step = "handOver" /\ step' \in {"poll", "down", "stopped"}
        /\ UNCHANGED <<stateFile, backup>>
    BY <1>5 DEF HandOver, Exit, disk
  <2>2. step' = "poll" => UNCHANGED spent
    BY <1>5 DEF HandOver, Exit
  <2>3. QED
    BY <2>1, <2>2, QuietBefore DEF ChancesInv, Left, Running, ProgramSteps, OnTrial
<1>6. CASE ~(ResolveTrial \/ RestorePutBack \/ RestoreRemove \/ ShimSave \/ HandOver)
  <2>1. step' \notin {"save", "handOver"} \cup ProgramSteps
    BY <1>6 DEF ShimStep, ShimLoad, ShimRead, DiscardRecord, DiscardStaged, ApplyVerify,
       ApplyDropBackup, ApplyMoveAside, ApplyPlace, ApplyUndo, ClearStaged, ClearRecord,
       ApplyFailed, Exit, ProgramSteps
  <2>2. QED BY <2>1 DEF ChancesInv, Running
<1>7. QED BY <1>1, <1>2, <1>3, <1>4, <1>5, <1>6

LEMMA ProgramLeavesChances ==
    ASSUME TypeInv, CountInv, ChancesInv, PollStep \/ HealthStep PROVE ChancesInv'
<1>1. /\ Running /\ (backup' = backup \/ backup' = NoVersion)
      /\ step' \in ProgramSteps \cup {"down", "stopped"}
  BY DEF PollStep, HealthStep, Poll, NoteCheck, Decide, Download, Preflight, Persist,
     Stage, Leave, MarkHealthy, HealthSave, HealthRemovesBackup, BackToPoll, Exit, disk,
     TypeInv, ProgramRuns, Running, ProgramSteps
<1>2. Quiet' => Quiet
  BY QuietBefore
     DEF PollStep, HealthStep, Poll, NoteCheck, Decide, Download, Preflight, Persist,
     Stage, Leave, MarkHealthy, HealthSave, HealthRemovesBackup, PollMarshals, PollWrites
<1>3. SUFFICES ASSUME Quiet, Quiet', backup # NoVersion, Left(stateFile)
               PROVE  Left(stateFile)'
  BY <1>1, <1>2 DEF ChancesInv, Running, ProgramSteps
<1>4. CASE NoteCheck \/ Persist
  <2>1. SameTrial(stateFile', mem)
    BY <1>1, <1>3, <1>4, PollWritesTheTrial DEF NoteCheck, Persist
  <2>2. ~OnTrial(mem) \/ SameTrial(mem, stateFile)
    BY <1>1, <1>3 DEF CountInv, ProgramKeepsCount
  <2>3. QED BY <1>3, <2>1, <2>2 DEF Left, SameTrial, OnTrial
<1>5. CASE HealthSave
  <2>1. stateFile' = healthSnap /\ ~OnTrial(healthSnap)
    BY <1>3, <1>5, QuietBefore DEF HealthSave, CountInv, ProgramKeepsCount
  <2>2. QED BY <2>1 DEF Left, OnTrial
<1>6. CASE ~(NoteCheck \/ Persist \/ HealthSave)
  <2>1. stateFile' = stateFile
    BY <1>6 DEF PollStep, HealthStep, Poll, Decide, Download, Preflight, Stage, Leave,
       MarkHealthy, HealthRemovesBackup, disk
  <2>2. QED BY <1>3, <2>1 DEF Left, OnTrial
<1>7. QED BY <1>4, <1>5, <1>6

LEMMA ChancesStep == TypeInv /\ CountInv /\ ChancesInv /\ [Next]_vars => ChancesInv'
<1> SUFFICES ASSUME TypeInv, CountInv, ChancesInv, [Next]_vars PROVE ChancesInv'
  OBVIOUS
<1>1. CASE UNCHANGED vars
  BY <1>1 DEF vars, ChancesInv, Quiet, Left, Running, OnTrial
<1>2. CASE SupervisorStarts \/ OperatorStarts \/ ShimCrashes \/ ProgramKilled \/ ProgramDies
  <2>1. step' \in {"load", "down", "stopped"}
    BY <1>2 DEF SupervisorStarts, OperatorStarts, ShimCrashes, ProgramKilled,
       ProgramDies, Exit
  <2>2. QED BY <2>1 DEF ChancesInv, Running, ProgramSteps
<1>3. QED BY <1>1, <1>2, ShimLeavesChances, ProgramLeavesChances DEF Next

(* Wherever power is cut and however often the program is killed, a        *)
(* version on trial over a backup is started MaxBootAttempts times at most *)
(* (resolveTrial).                                                         *)
THEOREM NoFourthChanceOverABackup == Spec => []ThreeChancesWithBackup
<1>1. TypeInv /\ CountInv /\ ChancesInv => ThreeChancesWithBackup
  <2> SUFFICES ASSUME TypeInv, CountInv, ChancesInv, Running, backup # NoVersion,
                      stateFile.pending = program, spent.faults + spent.overlaps = 0
               PROVE  launches[program] <= MaxBootAttempts
    BY DEF ThreeChancesWithBackup
  <2>1. Quiet
    BY DEF Quiet, TypeInv, TypeOK, Budgets
  <2>2. OnTrial(stateFile)
    BY VersionsAssumption DEF OnTrial, TypeInv, ProgramRuns
  <2>3. launches[program] <= stateFile.boots /\ stateFile.boots <= MaxBootAttempts
    BY <2>1, <2>2 DEF CountInv, DiskCounts, ChancesInv, Left
  <2>4. launches[program] \in Nat /\ stateFile.boots \in Nat
    BY MaxBootAttemptsAssumption DEF TypeInv, TypeOK, ProgramRuns, State, BootCount
  <2>5. QED BY <2>3, <2>4, MaxBootAttemptsAssumption
<1>2. QED
  BY <1>1, TypeInvInit, TypeInvStep, CountInit, CountStep, ChancesInit, ChancesStep, PTL
     DEF Spec

-----------------------------------------------------------------------------
(* Why one mishap never takes the last copy.  Power cuts alone are covered *)
(* by RecoveryInv.  For a failing file operation: until it happens, the    *)
(* program is at its path or, between two renames, at the backup's; after  *)
(* it, the one or the other is left except where Apply holds the verified  *)
(* candidate, and no further operation fails there.                        *)

AtMostOneFault == spent.crashes = 0 /\ spent.faults \in {0, 1}

CopyInv ==
    AtMostOneFault =>
        /\ program # NoVersion \/ backup # NoVersion \/ step \in {"moveAside", "place"}
        /\ spent.faults = 0 =>
              IF step \in {"place", "putBack"} THEN backup # NoVersion
                                               ELSE program # NoVersion

LEMMA MishapsAdd ==
    ASSUME spent \in Budgets
    PROVE  /\ Fault /\ AtMostOneFault' => AtMostOneFault /\ spent.faults = 0 /\ spent'.faults = 1
           /\ \A b \in BOOLEAN :
                Overlapping(b) => (AtMostOneFault' <=> AtMostOneFault) /\ spent'.faults = spent.faults
           /\ spent.crashes < MaxCrashes /\ Spend("crashes") => ~AtMostOneFault'
           /\ Spend("kills") => (AtMostOneFault' <=> AtMostOneFault) /\ spent'.faults = spent.faults
           /\ UNCHANGED spent => (AtMostOneFault' <=> AtMostOneFault) /\ spent'.faults = spent.faults
<1>1. Fault /\ AtMostOneFault' => AtMostOneFault /\ spent.faults = 0 /\ spent'.faults = 1
  BY BudgetsAssumption DEF Fault, Spend, Budgets, AtMostOneFault
<1>2. \A b \in BOOLEAN :
        Overlapping(b) => (AtMostOneFault' <=> AtMostOneFault) /\ spent'.faults = spent.faults
  BY BudgetsAssumption DEF Overlapping, Spend, Budgets, AtMostOneFault
<1>3. Spend("crashes") => ~AtMostOneFault'
  BY BudgetsAssumption DEF Spend, Budgets, AtMostOneFault
<1>4. Spend("kills") => (AtMostOneFault' <=> AtMostOneFault) /\ spent'.faults = spent.faults
  BY BudgetsAssumption DEF Spend, Budgets, AtMostOneFault
<1>5. QED BY <1>1, <1>2, <1>3, <1>4 DEF AtMostOneFault

LEMMA EnvironmentKeepsCopy ==
    ASSUME TypeInv, RecoveryInv, CopyInv,
           SupervisorStarts \/ OperatorStarts \/ ShimCrashes \/ ProgramKilled \/ ProgramDies
    PROVE  CopyInv'
<1> USE MishapsAdd DEF TypeInv, TypeOK, ProgramRuns, CopyInv, Running, ShimSteps,
     ProgramSteps, disk
<1>1. ASSUME SupervisorStarts \/ OperatorStarts PROVE CopyInv'
  BY <1>1 DEF SupervisorStarts, OperatorStarts
<1>2. ASSUME ShimCrashes PROVE CopyInv'
  BY <1>2 DEF ShimCrashes
<1>3. ASSUME ProgramKilled \/ ProgramDies PROVE CopyInv'
  BY <1>3 DEF ProgramKilled, ProgramDies, Exit
<1>4. QED BY <1>1, <1>2, <1>3

LEMMA ShimKeepsCopy ==
    ASSUME TypeInv, RecoveryInv, CopyInv, ShimStep PROVE CopyInv'
<1> USE MishapsAdd, VersionsAssumption DEF TypeInv, TypeOK, RecordRead, StagedVerified, CopyInv, disk,
     RecoveryInv, ErrorPathsNeedFaults, RestoreJustified, Record
<1>1. ASSUME ShimLoad PROVE CopyInv'
  BY <1>1 DEF ShimLoad, Exit
<1>2. ASSUME ShimRead PROVE CopyInv'
  BY <1>2 DEF ShimRead
<1>3. ASSUME DiscardRecord PROVE CopyInv'
  BY <1>3 DEF DiscardRecord
<1>4. ASSUME DiscardStaged PROVE CopyInv'
  BY <1>4 DEF DiscardStaged
<1>5. ASSUME ApplyVerify PROVE CopyInv'
  BY <1>5 DEF ApplyVerify, ApplyFailed
<1>6. ASSUME ApplyDropBackup PROVE CopyInv'
  BY <1>6 DEF ApplyDropBackup, ApplyFailed
<1>7. ASSUME ApplyMoveAside PROVE CopyInv'
  BY <1>7 DEF ApplyMoveAside, MoveAside, ApplyFailed
<1>8. ASSUME ApplyPlace PROVE CopyInv'
  <2>1. step = "place" /\ staged \in Versions /\ UNCHANGED backup
    BY <1>8 DEF ApplyPlace
  <2>2. CASE PlaceStaged /\ step' = "clearStaged" /\ UNCHANGED spent
    <3>1. program' # NoVersion
      BY <2>1, <2>2 DEF PlaceStaged
    <3>2. QED BY <2>2, <3>1
  <2>3. CASE Fault /\ step' = "undo"
    <3>1. AtMostOneFault' => backup' # NoVersion /\ spent'.faults = 1
      BY <2>1, <2>3
    <3>2. QED BY <2>3, <3>1
  <2>4. QED BY <1>8, <2>2, <2>3 DEF ApplyPlace
<1>9. ASSUME ApplyUndo PROVE CopyInv'
  BY <1>9 DEF ApplyUndo, PutBack, ApplyFailed
<1>10. ASSUME ClearStaged PROVE CopyInv'
  BY <1>10 DEF ClearStaged
<1>11. ASSUME ClearRecord PROVE CopyInv'
  BY <1>11 DEF ClearRecord
<1>12. ASSUME ResolveTrial PROVE CopyInv'
  BY <1>12 DEF ResolveTrial
<1>13. ASSUME RestoreRemove PROVE CopyInv'
  BY <1>13 DEF RestoreRemove
<1>14. ASSUME RestorePutBack PROVE CopyInv'
  BY <1>14 DEF RestorePutBack, PutBack
<1>15. ASSUME ShimSave PROVE CopyInv'
  BY <1>15 DEF ShimSave
<1>16. ASSUME HandOver PROVE CopyInv'
  BY <1>16 DEF HandOver, Exit
<1>17. QED
  BY <1>1, <1>2, <1>3, <1>4, <1>5, <1>6, <1>7, <1>8, <1>9, <1>10, <1>11,
     <1>12, <1>13, <1>14, <1>15, <1>16 DEF ShimStep

(* While the program runs, it is there, whatever happens to the backup.    *)
LEMMA ProgramKeepsCopy ==
    ASSUME TypeInv, CopyInv, PollStep \/ HealthStep PROVE CopyInv'
<1>1. Running /\ program # NoVersion
  BY VersionsAssumption DEF TypeInv, ProgramRuns, PollStep, HealthStep, Running, ProgramSteps,
     Poll, NoteCheck, Decide, Download, Preflight, Persist, Stage, Leave,
     MarkHealthy, HealthSave, HealthRemovesBackup
<1>2. UNCHANGED program
  BY DEF PollStep, HealthStep, Poll, NoteCheck, Decide, Download, Preflight,
     Persist, Stage, Leave, MarkHealthy, HealthSave, HealthRemovesBackup, disk
<1>3. step' \notin {"place", "putBack"}
  BY <1>1 DEF PollStep, HealthStep, Poll, NoteCheck, Decide, Download, Preflight,
     Persist, Stage, Leave, MarkHealthy, HealthSave, HealthRemovesBackup,
     BackToPoll, Exit, Running, ProgramSteps
<1>4. QED BY <1>1, <1>2, <1>3 DEF CopyInv

LEMMA CopyStep == TypeInv /\ RecoveryInv /\ CopyInv /\ [Next]_vars => CopyInv'
<1> SUFFICES ASSUME TypeInv, RecoveryInv, CopyInv, [Next]_vars PROVE CopyInv'
  OBVIOUS
<1>1. CASE UNCHANGED vars
  BY <1>1 DEF vars, CopyInv, AtMostOneFault
<1>2. QED
  BY <1>1, EnvironmentKeepsCopy, ShimKeepsCopy, ProgramKeepsCopy DEF Next

LEMMA CopyInit == Init => CopyInv
BY InitialVersionAssumption, VersionsAssumption DEF Init, CopyInv

(* No single power cut and no single failing file operation, wherever it   *)
(* strikes and however many kills come with it, leaves a machine without a *)
(* copy of the program (the order of the renames in Apply and Restore).    *)
THEOREM LastCopyIsSafe == Spec => []ACopySurvives
<1>1. TypeInv /\ RecoveryInv /\ CopyInv => ACopySurvives
  <2> SUFFICES ASSUME TypeInv, RecoveryInv, CopyInv, spent.crashes + spent.faults <= 1
               PROVE  \/ program # NoVersion
                      \/ backup # NoVersion
                      \/ record # None /\ staged = record.version
    BY DEF ACopySurvives
  <2>1. spent.crashes \in Nat /\ spent.faults \in Nat
    BY BudgetsAssumption DEF TypeInv, TypeOK, Budgets
  <2>2. CASE spent.faults = 0
    BY <2>2, NoneAssumption DEF RecoveryInv, ProgramOrRecovery, MidApply, MidRestore, Record
  <2>3. CASE AtMostOneFault
    BY <2>3, NoneAssumption
       DEF CopyInv, TypeInv, RecordRead, StagedVerified, Record
  <2>4. QED BY <2>1, <2>2, <2>3 DEF AtMostOneFault
<1>2. QED
  BY <1>1, TypeInvInit, TypeInvStep, RecoveryInvInit, RecoveryInvStep, CopyInit, CopyStep,
     PTL DEF Spec

=============================================================================
