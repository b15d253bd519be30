---------------------------- MODULE InstallProofs ---------------------------
(***************************************************************************)
(* Theorems about module Install, for every value of its constants: any    *)
(* number of installs, repairs and uninstalls, any number of which end     *)
(* halfway, over an agent to which everything of module Agent may happen.  *)
(***************************************************************************)
EXTENDS Install, AgentProofs

-----------------------------------------------------------------------------
(* What the agent's own steps rely on.  It is the invariant of module      *)
(* AgentProofs with one difference: a copy, unlike a download, may leave a *)
(* Partial file at the program's path, and Apply or Restore may carry it   *)
(* on to the backup's and back.                                            *)

FilesOK ==
    /\ program \in VersionOrNone \cup {Partial}
    /\ backup \in VersionOrNone \cup {Partial}
    /\ staged \in VersionOrNone \cup {Partial}
    /\ record \in Record \cup {None}
    /\ stateFile \in State

ProcessOK ==
    /\ step \in ShimSteps \cup ProgramSteps \cup {"down", "stopped"}
    /\ mem \in State \cup {None}
    /\ health \in {"off", "waiting", "saving", "removing", "done"}
    /\ offer \in Manifests \cup {None}
    /\ pollSnap \in State \cup {None}
    /\ healthSnap \in State \cup {None}

(* Between two runs of the agent nothing of it is in memory.               *)
MemoryCleared ==
    /\ step \in {"down", "stopped", "load"} => mem = None
    /\ ~Running => pollSnap = None /\ healthSnap = None

AgentInv ==
    /\ FilesOK
    /\ ProcessOK
    /\ MemLoaded
    /\ RecordRead
    /\ StagedVerified
    /\ OfferFetched
    /\ SnapshotTaken
    /\ ProgramRuns
    /\ MemoryCleared

(* What the tools leave behind, and that they and the agent exclude each   *)
(* other.                                                                  *)
ToolsOK ==
    /\ shimFile \in {"absent", "torn", "whole"}
    /\ registered \in BOOLEAN
    /\ tool \in {"idle"} \cup InstallSteps \cup RemovalSteps
    /\ package \in Packages
    /\ toolSpent \in [runs : Nat, stops : Nat, refusals : Nat]
    /\ since \subseteq Versions
    /\ step # "stopped" => registered /\ tool = "idle"

(* What the installer has copied when it gets to the identity, and what    *)
(* the uninstaller has removed at each of its steps.                       *)
ToolInv ==
    /\ tool \in {"openProgram", "copyProgram", "identity", "register"}
          => shimFile = "whole"
    /\ tool \in {"identity", "register"} => program = package
    /\ tool \in {"program", "backup", "staged", "record", "purge"}
          => shimFile = "absent"
    /\ tool \in {"backup", "staged", "record", "purge"} => program = NoVersion
    /\ tool \in {"staged", "record", "purge"} => backup = NoVersion
    /\ tool \in {"record", "purge"} => staged = NoVersion
    /\ tool = "purge" => record = None

(* Whatever is torn is so while the service is not registered.             *)
TornInv ==
    toolSpent.refusals = 0 =>
        /\ backup # Partial
        /\ registered => tool = "idle" /\ program # Partial /\ shimFile = "whole"

(* A backup is only ever restored in a trial, or within the Apply that     *)
(* made it.                                                                *)
TrialKnown ==
    \/ OnTrial(stateFile)
    \/ mem # None /\ OnTrial(mem)
    \/ pollSnap # None /\ OnTrial(pollSnap)
    \/ healthSnap # None /\ OnTrial(healthSnap)
    \/ step \in {"moveAside", "place", "undo", "removeFailed", "putBack"}

(* Every binary that may come to the program's path has come to the        *)
(* machine since the last install.                                         *)
OnlyRecent ==
    /\ program \in since \cup {NoVersion}
    /\ record # None => record.version \in since
    /\ TrialKnown => backup \in since \cup {NoVersion}

RepairInv == clean => tool = "idle" /\ OnlyRecent

InstallInv ==
    /\ AgentInv
    /\ ToolsOK
    /\ ToolInv
    /\ TornInv
    /\ RepairInv

LEMMA InstallInvInit == InstallInit => InstallInv
<1> SUFFICES ASSUME InstallInit PROVE InstallInv
  OBVIOUS
<1>1. AgentInv
  BY FreshStateType DEF InstallInit, AgentInv, FilesOK, ProcessOK, MemoryCleared,
     MemLoaded, RecordRead, StagedVerified, OfferFetched, SnapshotTaken,
     ProgramRuns, Running, ShimSteps, ProgramSteps, VersionOrNone
<1>2. ToolsOK /\ ToolInv /\ RepairInv
  BY DEF InstallInit, ToolsOK, ToolInv, RepairInv
<1>3. TornInv
  BY DEF InstallInit, TornInv, NoVersion, Partial
<1> QED
  BY <1>1, <1>2, <1>3 DEF InstallInv

-----------------------------------------------------------------------------
(* The agent's steps keep what they rely on.                               *)

LEMMA EnvironmentKeepsAgent ==
    ASSUME AgentInv,
           \/ SupervisorStarts \/ OperatorStarts
           \/ ShimCrashes \/ ProgramKilled \/ ProgramDies
           \/ step = "handOver" /\ Exit("1") /\ UNCHANGED disk
    PROVE  AgentInv'
<1> USE DEF AgentInv, FilesOK, ProcessOK, MemoryCleared, MemLoaded, RecordRead,
     StagedVerified, OfferFetched, SnapshotTaken, ProgramRuns, Running,
     ShimSteps, ProgramSteps, disk, threads
<1>1. CASE SupervisorStarts \/ OperatorStarts
  BY <1>1 DEF SupervisorStarts, OperatorStarts
<1>2. CASE ShimCrashes
  BY <1>2 DEF ShimCrashes
<1>3. CASE ProgramKilled
  BY <1>3 DEF ProgramKilled, Exit
<1>4. CASE ProgramDies
  BY <1>4 DEF ProgramDies, Exit
<1>5. CASE step = "handOver" /\ Exit("1") /\ UNCHANGED disk
  BY <1>5 DEF Exit
<1> QED
  BY <1>1, <1>2, <1>3, <1>4, <1>5

LEMMA ShimKeepsAgent ==
    ASSUME AgentInv, ShimStep, ~(step = "handOver" /\ program = Partial)
    PROVE  AgentInv'
<1> USE DEF AgentInv, FilesOK, ProcessOK, MemoryCleared, MemLoaded, RecordRead,
     StagedVerified, OfferFetched, SnapshotTaken, ProgramRuns, Running,
     ShimSteps, ProgramSteps, disk, threads
<1>1. CASE ShimLoad
  BY <1>1 DEF ShimLoad, Exit
<1>2. CASE ShimRead \/ DiscardRecord \/ DiscardStaged
  BY <1>2 DEF ShimRead, DiscardRecord, DiscardStaged, VersionOrNone
<1>3. CASE ApplyVerify
  <2>1. Poison(mem, record.version) \in State
    BY <1>3, StateOperatorsType DEF ApplyVerify, Record, VersionOrNone
  <2> QED
    BY <1>3, <2>1 DEF ApplyVerify, Verified, ApplyFailed
<1>4. CASE ApplyDropBackup
  <2>1. Poison(mem, record.version) \in State
    BY <1>4, StateOperatorsType DEF ApplyDropBackup, Record, VersionOrNone
  <2> QED
    BY <1>4, <2>1 DEF ApplyDropBackup, ApplyFailed, VersionOrNone
<1>5. CASE ApplyMoveAside
  <2>1. Poison(mem, record.version) \in State
    BY <1>5, StateOperatorsType DEF ApplyMoveAside, Record, VersionOrNone
  <2> QED
    BY <1>5, <2>1 DEF ApplyMoveAside, ApplyFailed, MoveAside, VersionOrNone
<1>6. CASE ApplyPlace
  <2>1. BeginTrial(mem, record.version, record.from) \in State
    BY <1>6, StateOperatorsType DEF ApplyPlace, Record, VersionOrNone
  <2> QED
    BY <1>6, <2>1 DEF ApplyPlace, PlaceStaged, VersionOrNone
<1>7. CASE ApplyUndo
  <2>1. Poison(mem, record.version) \in State
    BY <1>7, StateOperatorsType DEF ApplyUndo, Record, VersionOrNone
  <2> QED
    BY <1>7, <2>1 DEF ApplyUndo, ApplyFailed, PutBack, VersionOrNone
<1>8. CASE ClearStaged \/ ClearRecord
  BY <1>8 DEF ClearStaged, ClearRecord, VersionOrNone
<1>9. CASE ResolveTrial
  <2>1. RecordBoot(mem) \in State
    BY <1>9, StateOperatorsType DEF ResolveTrial, VersionOrNone
  <2> QED
    BY <1>9, <2>1 DEF ResolveTrial
<1>10. CASE RestoreRemove
  BY <1>10 DEF RestoreRemove, VersionOrNone
<1>11. CASE RestorePutBack
  <2>1. Abandon(mem) \in State
    BY <1>11, StateOperatorsType DEF RestorePutBack, VersionOrNone
  <2> QED
    BY <1>11, <2>1 DEF RestorePutBack, PutBack, VersionOrNone
<1>12. CASE ShimSave
  BY <1>12 DEF ShimSave
<1>13. CASE HandOver
  BY <1>13 DEF HandOver, Exit, VersionOrNone
<1> QED
  BY <1>1, <1>2, <1>3, <1>4, <1>5, <1>6, <1>7, <1>8, <1>9, <1>10, <1>11, <1>12,
     <1>13 DEF ShimStep

LEMMA PollKeepsAgent ==
    ASSUME AgentInv, PollStep
    PROVE  AgentInv'
<1> USE DEF AgentInv, FilesOK, ProcessOK, MemoryCleared, MemLoaded, RecordRead,
     StagedVerified, OfferFetched, SnapshotTaken, ProgramRuns, Running,
     ShimSteps, ProgramSteps, disk, threads
<1>1. CASE Poll
  BY <1>1 DEF Poll, PollMarshals
<1>2. CASE NoteCheck
  BY <1>2, TornType DEF NoteCheck, PollWrites
<1>3. CASE Decide
  <2>1. offer.version \in VersionOrNone
    BY <1>3, ManifestsAssumption DEF Decide, Manifest
  <2>2. Evaluate(offer, program, mem) = "apply" => offer.version \in Versions
    BY <2>1 DEF Evaluate, Eligible, VersionOrNone
  <2>3. /\ RequireReinstall(mem, offer.version) \in State
        /\ ClearReinstall(mem) \in State
    BY <1>3, <2>1, StateOperatorsType DEF Decide
  <2> QED
    BY <1>3, <2>2, <2>3 DEF Decide, PollMarshals, BackToPoll
<1>4. CASE Download
  BY <1>4 DEF Download, BackToPoll, VersionOrNone
<1>5. CASE Preflight
  <2>1. Poison(mem, offer.version) \in State
    BY <1>5, StateOperatorsType DEF Preflight, VersionOrNone
  <2> QED
    BY <1>5, <2>1 DEF Preflight, PollMarshals, VersionOrNone
<1>6. CASE Persist
  BY <1>6, TornType DEF Persist, PollWrites, BackToPoll
<1>7. CASE Stage
  <2>1. [version |-> offer.version, from |-> program] \in Record
    BY <1>7 DEF Stage, Record
  <2> QED
    BY <1>7, <2>1 DEF Stage, BackToPoll, VersionOrNone
<1>8. CASE Leave
  BY <1>8 DEF Leave, Exit
<1> QED
  BY <1>1, <1>2, <1>3, <1>4, <1>5, <1>6, <1>7, <1>8 DEF PollStep

LEMMA HealthKeepsAgent ==
    ASSUME AgentInv, HealthStep
    PROVE  AgentInv'
<1> USE DEF AgentInv, FilesOK, ProcessOK, MemoryCleared, MemLoaded, RecordRead,
     StagedVerified, OfferFetched, SnapshotTaken, ProgramRuns, Running,
     ShimSteps, ProgramSteps, disk, threads
<1>1. CASE MarkHealthy
  <2>1. Commit(mem) \in State
    BY <1>1, StateOperatorsType DEF MarkHealthy, Commit, VersionOrNone
  <2> QED
    BY <1>1, <2>1 DEF MarkHealthy
<1>2. CASE HealthSave
  BY <1>2 DEF HealthSave
<1>3. CASE HealthRemovesBackup
  BY <1>3 DEF HealthRemovesBackup, VersionOrNone
<1> QED
  BY <1>1, <1>2, <1>3 DEF HealthStep

-----------------------------------------------------------------------------
(* Whatever the agent does, it neither makes a torn binary nor, after an   *)
(* install that found nothing left over, an old one.                       *)

LEMMA AgentTearsNothing ==
    ASSUME AgentInv, program # Partial, backup # Partial,
           ShimCrashes \/ ProgramKilled \/ ProgramDies \/ ShimStep \/ PollStep \/ HealthStep
    PROVE  program' # Partial /\ backup' # Partial
<1>1. NoVersion # Partial /\ \A v \in Versions : v # Partial
  BY VersionsAssumption DEF NoVersion, Partial
<1>2. CASE UNCHANGED <<program, backup>>
  BY <1>2
<1>3. CASE ApplyPlace
  <2>1. staged \in Versions
    BY <1>3 DEF ApplyPlace, AgentInv, StagedVerified, RecordRead, Record
  <2> QED
    BY <1>1, <1>3, <2>1 DEF ApplyPlace, PlaceStaged
<1>4. CASE \/ ApplyDropBackup \/ ApplyMoveAside \/ ApplyUndo \/ RestoreRemove
           \/ RestorePutBack \/ HealthRemovesBackup
  BY <1>1, <1>4 DEF ApplyDropBackup, ApplyMoveAside, MoveAside, ApplyUndo, PutBack,
     RestoreRemove, RestorePutBack, HealthRemovesBackup
<1>5. \/ UNCHANGED <<program, backup>>
      \/ ApplyPlace
      \/ ApplyDropBackup \/ ApplyMoveAside \/ ApplyUndo \/ RestoreRemove
      \/ RestorePutBack \/ HealthRemovesBackup
  BY DEF ShimStep, PollStep, HealthStep, disk, ShimCrashes, ProgramKilled, ProgramDies,
     ShimLoad, ShimRead, DiscardRecord, DiscardStaged, ApplyVerify, ClearStaged,
     ClearRecord, ResolveTrial, ShimSave, HandOver, Poll, NoteCheck, Decide, Download,
     Preflight, Persist, Stage, Leave, MarkHealthy, HealthSave
<1> QED
  BY <1>2, <1>3, <1>4, <1>5

(* Which trials a step of the agent writes.                                *)
LEMMA TrialsOfOperators ==
    ASSUME NEW s \in State, NEW v
    PROVE  /\ Poison(s, v).pending = s.pending
           /\ RecordBoot(s).pending = s.pending
           /\ RequireReinstall(s, v).pending = s.pending
           /\ ClearReinstall(s).pending = s.pending
           /\ Commit(s).pending = NoVersion
           /\ \A t \in State : \A u \in Torn(s, t) : u.pending \in {s.pending, t.pending}
<1>1. /\ Poison(s, v).pending = s.pending
      /\ RecordBoot(s).pending = s.pending
      /\ RequireReinstall(s, v).pending = s.pending
      /\ ClearReinstall(s).pending = s.pending
      /\ Commit(s).pending = NoVersion
  BY DEF Poison, RecordBoot, RequireReinstall, ClearReinstall, Commit, EndTrial, State
<1>2. ASSUME NEW t \in State, NEW u \in Torn(s, t)
      PROVE  u.pending \in {s.pending, t.pending}
  <2>1. PICK p \in {s.pending, t.pending},
             q \in {s.previous, t.previous},
             b \in {s.boots, t.boots} :
               u = [s EXCEPT !.pending = p, !.previous = q, !.boots = b]
    BY DEF Torn
  <2> QED
    BY <2>1 DEF State
<1> QED
  BY <1>1, <1>2

LEMMA EnvironmentKeepsRecent ==
    ASSUME AgentInv, OnlyRecent, since' = since,
           \/ SupervisorStarts \/ OperatorStarts
           \/ ShimCrashes \/ ProgramKilled \/ ProgramDies
           \/ step = "handOver" /\ Exit("1") /\ UNCHANGED disk
    PROVE  OnlyRecent'
BY NoneAssumption DEF OnlyRecent, TrialKnown, SupervisorStarts, OperatorStarts,
   ShimCrashes, ProgramKilled, ProgramDies, Exit, disk, threads

LEMMA ShimKeepsRecent ==
    ASSUME AgentInv, AgentInv', OnlyRecent, since' = since, ShimStep
    PROVE  OnlyRecent'
<1> USE DEF OnlyRecent, TrialKnown, OnTrial, disk, threads
<1>1. /\ stateFile \in State
      /\ step \in ShimSteps
      /\ step # "load" => mem \in State
      /\ pollSnap = None /\ healthSnap = None
      /\ None \notin State
  BY NoneAssumption DEF ShimStep, AgentInv, FilesOK, ProcessOK, MemLoaded, MemoryCleared,
     Running, ShimSteps, ProgramSteps, ShimLoad, ShimRead, DiscardRecord,
     DiscardStaged, ApplyVerify, ApplyDropBackup, ApplyMoveAside, ApplyPlace,
     ApplyUndo, ClearStaged, ClearRecord, ResolveTrial, RestoreRemove,
     RestorePutBack, ShimSave, HandOver
<1>2. CASE ShimLoad
  BY <1>1, <1>2 DEF ShimLoad, Exit
<1>3. CASE ShimRead \/ DiscardRecord \/ DiscardStaged
  BY <1>1, <1>3 DEF ShimRead, DiscardRecord, DiscardStaged
<1>4. CASE ApplyVerify
  BY <1>1, <1>4, TrialsOfOperators DEF ApplyVerify, ApplyFailed
<1>5. CASE ApplyDropBackup
  BY <1>1, <1>5, TrialsOfOperators DEF ApplyDropBackup, ApplyFailed
<1>6. CASE ApplyMoveAside
  BY <1>1, <1>6, TrialsOfOperators DEF ApplyMoveAside, ApplyFailed, MoveAside
<1>7. CASE ApplyPlace
  <2>1. record \in Record /\ staged = record.version /\ record # None
    BY <1>7, NoneAssumption DEF ApplyPlace, AgentInv, StagedVerified, RecordRead, Record
  <2> QED
    BY <1>1, <1>7, <2>1 DEF ApplyPlace, PlaceStaged
<1>8. CASE ApplyUndo
  BY <1>1, <1>8, TrialsOfOperators DEF ApplyUndo, ApplyFailed, PutBack
<1>9. CASE ClearStaged \/ ClearRecord
  BY <1>1, <1>9 DEF ClearStaged, ClearRecord
<1>10. CASE ResolveTrial
  BY <1>1, <1>10, TrialsOfOperators DEF ResolveTrial
<1>11. CASE RestoreRemove
  BY <1>1, <1>11 DEF RestoreRemove
<1>12. CASE RestorePutBack
  BY <1>1, <1>12 DEF RestorePutBack, PutBack
<1>13. CASE ShimSave
  BY <1>1, <1>13 DEF ShimSave
<1>14. CASE HandOver
  BY <1>1, <1>14 DEF HandOver, Exit
<1> QED
  BY <1>2, <1>3, <1>4, <1>5, <1>6, <1>7, <1>8, <1>9, <1>10, <1>11, <1>12, <1>13,
     <1>14 DEF ShimStep

(* Only Stage writes a staging record, of what the history then notes.     *)
LEMMA PollKeepsRecent ==
    ASSUME AgentInv, AgentInv', OnlyRecent, PollStep,
           since' = IF record' \in {record, None} THEN since
                    ELSE since \cup {record'.version}
    PROVE  OnlyRecent'
<1> USE DEF OnlyRecent, TrialKnown, OnTrial, disk
<1>1. /\ stateFile \in State /\ mem \in State
      /\ None \notin State
      /\ since \subseteq since'
  BY NoneAssumption DEF PollStep, AgentInv, FilesOK, MemLoaded, ShimSteps, ProgramSteps,
     Poll, NoteCheck, Decide, Download, Preflight, Persist, Stage, Leave
<1>2. CASE Poll
  BY <1>1, <1>2 DEF Poll, PollMarshals
<1>3. CASE NoteCheck
  <2>1. pollSnap \in State
    BY <1>3 DEF NoteCheck, AgentInv, SnapshotTaken
  <2> QED
    BY <1>1, <1>3, <2>1, TrialsOfOperators DEF NoteCheck, PollWrites
<1>4. CASE Decide
  BY <1>1, <1>4, TrialsOfOperators DEF Decide, PollMarshals, BackToPoll
<1>5. CASE Download
  BY <1>1, <1>5 DEF Download, BackToPoll
<1>6. CASE Preflight
  BY <1>1, <1>6, TrialsOfOperators DEF Preflight, PollMarshals
<1>7. CASE Persist
  <2>1. pollSnap \in State
    BY <1>7 DEF Persist, AgentInv, SnapshotTaken
  <2> QED
    BY <1>1, <1>7, <2>1, TrialsOfOperators DEF Persist, PollWrites, BackToPoll
<1>8. CASE Stage
  BY <1>1, <1>8 DEF Stage, BackToPoll
<1>9. CASE Leave
  BY <1>1, <1>9 DEF Leave, Exit
<1> QED
  BY <1>2, <1>3, <1>4, <1>5, <1>6, <1>7, <1>8, <1>9 DEF PollStep

LEMMA HealthKeepsRecent ==
    ASSUME AgentInv, AgentInv', OnlyRecent, HealthStep, since' = since
    PROVE  OnlyRecent'
<1> USE DEF OnlyRecent, TrialKnown, OnTrial, disk
<1>1. None \notin State
  BY NoneAssumption
<1>2. CASE MarkHealthy
  <2>1. mem \in State
    BY <1>2 DEF MarkHealthy, Running, AgentInv, MemLoaded
  <2> QED
    BY <1>1, <1>2, <2>1, TrialsOfOperators DEF MarkHealthy
<1>3. CASE HealthSave
  <2>1. healthSnap \in State
    BY <1>3 DEF HealthSave, AgentInv, SnapshotTaken
  <2> QED
    BY <1>1, <1>3, <2>1 DEF HealthSave
<1>4. CASE HealthRemovesBackup
  BY <1>1, <1>4 DEF HealthRemovesBackup
<1> QED
  BY <1>2, <1>3, <1>4 DEF HealthStep

-----------------------------------------------------------------------------
(* The steps of the installation.                                          *)

(* A tool's step spends a run, a stop or a refusal, or nothing.            *)
LEMMA SpendToolType ==
    ASSUME toolSpent \in [runs : Nat, stops : Nat, refusals : Nat],
           NEW what \in {{"runs"}, {"stops"}, {"refusals"}, {"runs", "refusals"}},
           SpendTool(what)
    PROVE  /\ toolSpent' \in [runs : Nat, stops : Nat, refusals : Nat]
           /\ toolSpent' # toolSpent
           /\ toolSpent'.refusals = 0 => toolSpent.refusals = 0 /\ "refusals" \notin what
<1>1. DOMAIN toolSpent = {"runs", "stops", "refusals"}
  OBVIOUS
<1>2. toolSpent' = [b \in {"runs", "stops", "refusals"} |->
                       toolSpent[b] + IF b \in what THEN 1 ELSE 0]
  BY <1>1 DEF SpendTool
<1>3. /\ toolSpent'.runs = toolSpent.runs + IF "runs" \in what THEN 1 ELSE 0
      /\ toolSpent'.stops = toolSpent.stops + IF "stops" \in what THEN 1 ELSE 0
      /\ toolSpent'.refusals = toolSpent.refusals + IF "refusals" \in what THEN 1 ELSE 0
  BY <1>2
<1>4. toolSpent.runs \in Nat /\ toolSpent.stops \in Nat /\ toolSpent.refusals \in Nat
  OBVIOUS
<1>5. toolSpent' \in [runs : Nat, stops : Nat, refusals : Nat]
  BY <1>2, <1>4
<1>6. /\ \/ toolSpent'.runs # toolSpent.runs
         \/ toolSpent'.stops # toolSpent.stops
         \/ toolSpent'.refusals # toolSpent.refusals
      /\ toolSpent'.refusals = 0 => toolSpent.refusals = 0 /\ "refusals" \notin what
  BY <1>3, <1>4
<1> QED
  BY <1>5, <1>6

(* The agent's steps happen only while no tool is at work.                 *)
LEMMA AgentIsUp ==
    ASSUME AgentInv,
           ShimCrashes \/ ProgramKilled \/ ProgramDies \/ ShimStep \/ PollStep \/ HealthStep
    PROVE  step # "stopped"
BY DEF AgentInv, ProgramRuns, Running, ShimSteps, ProgramSteps, ShimStep, PollStep,
   HealthStep, ShimCrashes, ProgramKilled, ProgramDies, ShimLoad, ShimRead,
   DiscardRecord, DiscardStaged, ApplyVerify, ApplyDropBackup, ApplyMoveAside,
   ApplyPlace, ApplyUndo, ClearStaged, ClearRecord, ResolveTrial, RestoreRemove,
   RestorePutBack, ShimSave, HandOver, Poll, NoteCheck, Decide, Download, Preflight,
   Persist, Stage, Leave, MarkHealthy, HealthSave, HealthRemovesBackup

LEMMA StartsKeep == ASSUME InstallInv, Starts PROVE InstallInv'
<1>1. AgentInv'
  BY EnvironmentKeepsAgent DEF InstallInv, Starts
<1>2. UNCHANGED <<program, backup, staged, record, stateFile, toolVars>>
      /\ registered /\ tool = "idle"
  BY DEF Starts, SupervisorStarts, OperatorStarts, disk
<1>3. ToolsOK' /\ ToolInv' /\ TornInv'
  BY <1>2 DEF InstallInv, ToolsOK, ToolInv, TornInv, toolVars
<1>4. OnlyRecent => OnlyRecent'
  BY <1>2, EnvironmentKeepsRecent DEF InstallInv, Starts, toolVars
<1>5. RepairInv'
  BY <1>2, <1>4 DEF InstallInv, RepairInv, toolVars
<1> QED
  BY <1>1, <1>3, <1>5 DEF InstallInv

LEMMA HandOverFailsKeeps == ASSUME InstallInv, HandOverFails PROVE InstallInv'
<1>1. AgentInv'
  BY EnvironmentKeepsAgent DEF InstallInv, HandOverFails
<1>2. /\ UNCHANGED <<program, backup, staged, record, stateFile, toolVars>>
      /\ step = "handOver"
  BY DEF HandOverFails, disk
<1>3. registered /\ tool = "idle"
  BY <1>2 DEF InstallInv, ToolsOK
<1>4. ToolsOK' /\ ToolInv' /\ TornInv'
  BY <1>2, <1>3 DEF InstallInv, ToolsOK, ToolInv, TornInv, toolVars
<1>5. OnlyRecent => OnlyRecent'
  BY <1>2, EnvironmentKeepsRecent DEF InstallInv, HandOverFails, toolVars
<1>6. RepairInv'
  BY <1>2, <1>5 DEF InstallInv, RepairInv, toolVars
<1> QED
  BY <1>1, <1>4, <1>6 DEF InstallInv

LEMMA AgentStepsKeep == ASSUME InstallInv, AgentSteps PROVE InstallInv'
<1> DEFINE Work == \/ ShimCrashes \/ ProgramKilled \/ ProgramDies
                   \/ ShimStep \/ PollStep \/ HealthStep
<1>1. /\ Work
      /\ ~(step = "handOver" /\ program = Partial)
      /\ since' = IF record' \in {record, None} THEN since
                  ELSE since \cup {record'.version}
      /\ UNCHANGED <<shimFile, registered, tool, package, toolSpent, clean>>
  BY DEF AgentSteps
<1>2. AgentInv /\ ToolsOK /\ ToolInv /\ TornInv /\ RepairInv
  BY DEF InstallInv
<1>3. AgentInv'
  BY <1>1, <1>2, EnvironmentKeepsAgent, ShimKeepsAgent, PollKeepsAgent,
     HealthKeepsAgent
<1>4. registered /\ tool = "idle"
  BY <1>1, <1>2, AgentIsUp DEF ToolsOK
<1>5. ToolsOK'
  BY <1>1, <1>2, <1>3, <1>4 DEF ToolsOK, AgentInv, FilesOK, Record
<1>6. ToolInv'
  BY <1>1, <1>4 DEF ToolInv
<1>7. TornInv'
  <2> SUFFICES ASSUME toolSpent.refusals = 0
               PROVE  backup' # Partial /\ program' # Partial /\ shimFile = "whole"
    BY <1>1, <1>4 DEF TornInv
  <2> QED
    BY <1>1, <1>2, <1>4, AgentTearsNothing DEF TornInv
<1>8. RepairInv'
  <2> SUFFICES ASSUME clean PROVE OnlyRecent'
    BY <1>1, <1>4 DEF RepairInv
  <2>1. OnlyRecent
    BY <1>2 DEF RepairInv
  <2>2. CASE PollStep
    BY <1>1, <1>2, <1>3, <2>1, <2>2, PollKeepsRecent
  <2>3. CASE ~PollStep
    <3>1. record' \in {record, None}
      BY <1>1, <2>3 DEF ShimCrashes, ProgramKilled, ProgramDies, ShimStep, HealthStep,
         ShimLoad, ShimRead, DiscardRecord, DiscardStaged, ApplyVerify,
         ApplyDropBackup, ApplyMoveAside, ApplyPlace, ApplyUndo, ClearStaged,
         ClearRecord, ResolveTrial, RestoreRemove, RestorePutBack, ShimSave,
         HandOver, MarkHealthy, HealthSave, HealthRemovesBackup, disk
    <3>2. since' = since
      BY <1>1, <3>1
    <3> QED
      BY <1>1, <1>2, <1>3, <2>1, <2>3, <3>2, EnvironmentKeepsRecent,
         ShimKeepsRecent, HealthKeepsRecent
  <2> QED
    BY <2>2, <2>3
<1> QED
  BY <1>3, <1>5, <1>6, <1>7, <1>8 DEF InstallInv

(* Both tools begin by stopping the agent.                                 *)
LEMMA StoppingKeeps ==
    ASSUME AgentInv, AgentStopped, UNCHANGED disk
    PROVE  AgentInv' /\ step' = "stopped"
BY DEF AgentStopped, AgentInv, FilesOK, ProcessOK, MemoryCleared, MemLoaded, RecordRead,
   StagedVerified, OfferFetched, SnapshotTaken, ProgramRuns, Running, ShimSteps,
   ProgramSteps, disk

LEMMA BeginInstallKeeps == ASSUME InstallInv, BeginInstall PROVE InstallInv'
<1>1. /\ UNCHANGED <<program, backup, staged, record, stateFile, shimFile, since>>
      /\ tool = "idle" /\ tool' = "openShim"
      /\ package' \in Packages
      /\ clean' = FALSE
  BY DEF BeginInstall, At, disk
<1>2. AgentInv' /\ step' = "stopped"
  BY StoppingKeeps DEF InstallInv, BeginInstall
<1>3. toolSpent \in [runs : Nat, stops : Nat, refusals : Nat]
  BY DEF InstallInv, ToolsOK
<1>4. \/ registered' = FALSE /\ SpendTool({"runs"})
      \/ SpendTool({"runs", "refusals"}) /\ UNCHANGED registered
  BY DEF BeginInstall, Refused
<1>5. /\ toolSpent' \in [runs : Nat, stops : Nat, refusals : Nat]
      /\ toolSpent'.refusals = 0 => toolSpent.refusals = 0 /\ registered' = FALSE
  BY <1>3, <1>4, SpendToolType
<1>6. ToolsOK'
  BY <1>1, <1>2, <1>4, <1>5 DEF InstallInv, ToolsOK, InstallSteps
<1>7. ToolInv' /\ TornInv' /\ RepairInv'
  BY <1>1, <1>5 DEF InstallInv, ToolInv, TornInv, RepairInv
<1> QED
  BY <1>2, <1>6, <1>7 DEF InstallInv

LEMMA BeginUninstallKeeps == ASSUME InstallInv, BeginUninstall PROVE InstallInv'
<1>1. /\ UNCHANGED <<program, backup, staged, record, stateFile, shimFile, since, package>>
      /\ tool = "idle" /\ tool' \in {"idle", "shim"}
      /\ clean' = FALSE
  BY DEF BeginUninstall, disk
<1>2. AgentInv' /\ step' = "stopped"
  BY StoppingKeeps DEF InstallInv, BeginUninstall
<1>3. toolSpent \in [runs : Nat, stops : Nat, refusals : Nat]
  BY DEF InstallInv, ToolsOK
<1>4. \/ registered' = FALSE /\ SpendTool({"runs"})
      \/ ~registered /\ registered' = registered /\ SpendTool({"runs"})
      \/ SpendTool({"runs", "refusals"}) /\ UNCHANGED registered
  BY DEF BeginUninstall, Refused, NothingToDelete
<1>5. /\ toolSpent' \in [runs : Nat, stops : Nat, refusals : Nat]
      /\ toolSpent'.refusals = 0 => toolSpent.refusals = 0 /\ ~registered'
  BY <1>3, <1>4, SpendToolType
<1>6. ToolsOK'
  BY <1>1, <1>2, <1>4, <1>5 DEF InstallInv, ToolsOK, RemovalSteps
<1>7. ToolInv' /\ TornInv' /\ RepairInv'
  BY <1>1, <1>5 DEF InstallInv, ToolInv, TornInv, RepairInv
<1> QED
  BY <1>2, <1>6, <1>7 DEF InstallInv

(* While a tool is at work the agent is stopped, with nothing in memory,   *)
(* and nothing is known of the last install any more.                      *)
LEMMA ToolAtWork ==
    ASSUME InstallInv, tool # "idle"
    PROVE  /\ step = "stopped"
           /\ ~clean
           /\ mem = None /\ pollSnap = None /\ healthSnap = None
           /\ toolSpent.refusals = 0 => ~registered
BY DEF InstallInv, AgentInv, MemoryCleared, Running, ProgramSteps, ToolsOK, TornInv,
   RepairInv

(* A tool that writes or removes files keeps what the agent relies on.     *)
LEMMA FilesKeepAgent ==
    ASSUME AgentInv, step = "stopped",
           UNCHANGED <<mem, health, offer, pollSnap, healthSnap>>,
           step' \in {"stopped", "down"}, FilesOK'
    PROVE  AgentInv'
BY DEF AgentInv, ProcessOK, MemoryCleared, MemLoaded, RecordRead, StagedVerified,
   OfferFetched, SnapshotTaken, ProgramRuns, Running, ShimSteps, ProgramSteps

LEMMA CopyingKeeps ==
    ASSUME InstallInv, OpenShim \/ CopyShim \/ OpenProgram \/ CopyProgram \/ EnsureIdentity
    PROVE  InstallInv'
<1>1. /\ tool \in {"openShim", "copyShim", "openProgram", "copyProgram", "identity"}
      /\ tool' \in {"copyShim", "openProgram", "copyProgram", "identity", "register", "idle"}
      /\ UNCHANGED <<backup, staged, record, stateFile, step, mem, health, offer,
                     pollSnap, healthSnap, registered, package, toolSpent, since, clean>>
      /\ program' \in {program, Partial, package}
      /\ shimFile' \in {shimFile, "torn", "whole"}
  BY DEF OpenShim, CopyShim, OpenProgram, CopyProgram, EnsureIdentity, At, vars, threads
<1>2. step = "stopped" /\ ~clean /\ (toolSpent.refusals = 0 => ~registered)
  BY <1>1, ToolAtWork
<1>3. package \in Versions
  BY PackagesAssumption DEF InstallInv, ToolsOK
<1>4. AgentInv'
  <2>1. FilesOK'
    BY <1>1, <1>3 DEF InstallInv, AgentInv, FilesOK, VersionOrNone
  <2> QED
    BY <1>1, <1>2, <2>1, FilesKeepAgent DEF InstallInv
<1>5. ToolsOK'
  BY <1>1, <1>2 DEF InstallInv, ToolsOK, InstallSteps
<1>6. ToolInv'
  BY DEF InstallInv, ToolInv, OpenShim, CopyShim, OpenProgram, CopyProgram,
     EnsureIdentity, At, vars
<1>7. TornInv' /\ RepairInv'
  BY <1>1, <1>2 DEF InstallInv, TornInv, RepairInv
<1> QED
  BY <1>4, <1>5, <1>6, <1>7 DEF InstallInv

(* The service is registered over a whole shim and the package; and where  *)
(* nothing was left over, there is neither a record nor a trial to meet.   *)
LEMMA RegisterKeeps == ASSUME InstallInv, Register PROVE InstallInv'
<1>1. /\ tool = "register" /\ tool' = "idle"
      /\ UNCHANGED <<program, backup, staged, record, stateFile, mem, health, offer,
                     pollSnap, healthSnap, shimFile, package>>
      /\ since' = {package}
      /\ clean' = NothingLeftOver
  BY DEF Register, At, disk, threads
<1>2. /\ step = "stopped"
      /\ mem = None /\ pollSnap = None /\ healthSnap = None
  BY <1>1, ToolAtWork
<1>3. toolSpent \in [runs : Nat, stops : Nat, refusals : Nat]
  BY DEF InstallInv, ToolsOK
<1>4. \/ registered' = TRUE /\ step' = "down" /\ UNCHANGED toolSpent
      \/ SpendTool({"refusals"}) /\ registered' \in BOOLEAN /\ step' = step
  BY <1>2 DEF Register
<1>5. /\ toolSpent' \in [runs : Nat, stops : Nat, refusals : Nat]
      /\ toolSpent'.refusals = 0 => toolSpent.refusals = 0
  BY <1>3, <1>4, SpendToolType
<1>6. shimFile = "whole" /\ program = package /\ package \in Versions
  BY <1>1, PackagesAssumption DEF InstallInv, ToolInv, ToolsOK
<1>7. AgentInv'
  <2>1. FilesOK'
    BY <1>1 DEF InstallInv, AgentInv, FilesOK
  <2> QED
    BY <1>1, <1>2, <1>4, <2>1, FilesKeepAgent DEF InstallInv
<1>8. ToolsOK' /\ ToolInv'
  BY <1>1, <1>2, <1>4, <1>5, <1>6 DEF InstallInv, ToolsOK, ToolInv
<1>9. TornInv'
  <2>1. program # Partial
    BY <1>6, VersionsAssumption DEF Partial
  <2> QED
    BY <1>1, <1>5, <1>6, <2>1 DEF InstallInv, TornInv
<1>10. RepairInv'
  BY <1>1, <1>2, <1>4, <1>6 DEF RepairInv, OnlyRecent, TrialKnown, NothingLeftOver
<1> QED
  BY <1>7, <1>8, <1>9, <1>10 DEF InstallInv

LEMMA RemovingKeeps == ASSUME InstallInv, RemoveShim \/ RemoveFile PROVE InstallInv'
<1>1. /\ tool \in RemovalSteps /\ tool' \in RemovalSteps \cup {"idle"}
      /\ UNCHANGED <<step, mem, health, offer, pollSnap, healthSnap, registered,
                     package, toolSpent, since, clean>>
      /\ program' \in {program, NoVersion}
      /\ backup' \in {backup, NoVersion}
      /\ staged' \in {staged, NoVersion}
      /\ record' \in {record, None}
      /\ stateFile' \in {stateFile, FreshState}
      /\ shimFile' \in {shimFile, "absent"}
  BY DEF RemoveShim, RemoveFile, RemoveProgram, RemoveBackup, RemoveStaged, RemoveRecord,
     Purge, At, vars, threads, RemovalSteps
<1>2. step = "stopped" /\ ~clean /\ (toolSpent.refusals = 0 => ~registered)
  BY <1>1, ToolAtWork DEF RemovalSteps
<1>3. AgentInv'
  <2>1. FilesOK'
    BY <1>1, FreshStateType DEF InstallInv, AgentInv, FilesOK, VersionOrNone
  <2> QED
    BY <1>1, <1>2, <2>1, FilesKeepAgent DEF InstallInv
<1>4. ToolsOK'
  BY <1>1, <1>2 DEF InstallInv, ToolsOK
<1>5. ToolInv'
  BY DEF InstallInv, ToolInv, RemoveShim, RemoveFile, RemoveProgram, RemoveBackup,
     RemoveStaged, RemoveRecord, Purge, At, vars
<1>6. TornInv' /\ RepairInv'
  BY <1>1, <1>2, VersionsAssumption DEF InstallInv, TornInv, RepairInv, NoVersion, Partial
<1> QED
  BY <1>3, <1>4, <1>5, <1>6 DEF InstallInv

LEMMA ToolStopsKeeps == ASSUME InstallInv, ToolStops PROVE InstallInv'
<1>1. /\ tool # "idle" /\ tool' = "idle"
      /\ UNCHANGED <<backup, staged, record, stateFile, step, mem, health, offer,
                     pollSnap, healthSnap, registered, package, since, clean>>
      /\ program' \in {program, Partial, NoVersion}
      /\ shimFile' \in {shimFile, "torn", "absent"}
      /\ SpendTool({"stops"})
  BY DEF ToolStops, threads
<1>2. step = "stopped" /\ ~clean /\ (toolSpent.refusals = 0 => ~registered)
  BY <1>1, ToolAtWork
<1>3. /\ toolSpent' \in [runs : Nat, stops : Nat, refusals : Nat]
      /\ toolSpent'.refusals = 0 => toolSpent.refusals = 0
  BY <1>1, SpendToolType DEF InstallInv, ToolsOK
<1>4. AgentInv'
  <2>1. FilesOK'
    BY <1>1 DEF InstallInv, AgentInv, FilesOK, VersionOrNone
  <2> QED
    BY <1>1, <1>2, <2>1, FilesKeepAgent DEF InstallInv
<1>5. ToolsOK' /\ ToolInv' /\ TornInv' /\ RepairInv'
  BY <1>1, <1>2, <1>3 DEF InstallInv, ToolsOK, ToolInv, TornInv, RepairInv
<1> QED
  BY <1>4, <1>5 DEF InstallInv

LEMMA InstallInvStep == InstallInv /\ [InstallNext]_allVars => InstallInv'
<1> SUFFICES ASSUME InstallInv, [InstallNext]_allVars PROVE InstallInv'
  OBVIOUS
<1>1. CASE UNCHANGED allVars
  BY <1>1 DEF allVars, vars, toolVars, InstallInv, AgentInv, FilesOK, ProcessOK,
     MemoryCleared, MemLoaded, RecordRead, StagedVerified, OfferFetched,
     SnapshotTaken, ProgramRuns, Running, ToolsOK, ToolInv, TornInv, RepairInv,
     OnlyRecent, TrialKnown
<1>2. CASE InstallNext
  BY <1>2, StartsKeep, HandOverFailsKeeps, AgentStepsKeep, BeginInstallKeeps,
     CopyingKeeps, RegisterKeeps, BeginUninstallKeeps, RemovingKeeps, ToolStopsKeeps
     DEF InstallNext, Installing, Uninstalling
<1> QED
  BY <1>1, <1>2

-----------------------------------------------------------------------------
(* InstallTypeOK, for every number of tool runs that end anywhere and of   *)
(* refusals of the service manager: what the tools and the agent leave to  *)
(* each other, and that the agent is at work only where it is registered   *)
(* and no tool is.                                                         *)
THEOREM ToolsAndAgentExclude == InstallSpec => []InstallTypeOK
<1>1. InstallInv => InstallTypeOK
  BY DEF InstallInv, AgentInv, FilesOK, ProcessOK, ToolsOK, InstallTypeOK
<1> QED
  BY <1>1, InstallInvInit, InstallInvStep, PTL DEF InstallSpec

(* TornIsNeverUsed: the order of install (stop, copy, register) keeps torn *)
(* binaries from being started or kept, wherever a tool died before.       *)
THEOREM TornStaysAside == InstallSpec => []TornIsNeverUsed
<1>1. InstallInv => TornIsNeverUsed
  BY DEF InstallInv, ToolsOK, TornInv, TornIsNeverUsed
<1> QED
  BY <1>1, InstallInvInit, InstallInvStep, PTL DEF InstallSpec

(* RepairHolds: after an install that met neither a staged update nor a    *)
(* trial, no binary from before it ever runs again, whatever the releases, *)
(* the faults and the power cuts since.                                    *)
THEOREM RepairsHold == InstallSpec => []RepairHolds
<1>1. InstallInv => RepairHolds
  <2> SUFFICES ASSUME InstallInv, clean, Running PROVE program \in since
    BY DEF RepairHolds
  <2>1. program \in Versions /\ program \in since \cup {NoVersion}
    BY DEF InstallInv, AgentInv, ProgramRuns, RepairInv, OnlyRecent
  <2> QED
    BY <2>1, VersionsAssumption DEF NoVersion
<1> QED
  BY <1>1, InstallInvInit, InstallInvStep, PTL DEF InstallSpec

(* UninstallLeavesNothing: an uninstall that runs to its end has removed   *)
(* everything it is meant to, whatever it met when it began.               *)
THEOREM UninstallIsComplete == InstallSpec => UninstallLeavesNothing
<1>1. ASSUME InstallInv, InstallNext, toolSpent' = toolSpent,
             tool \in {"record", "purge"}, tool' = "idle"
      PROVE  /\ shimFile' = "absent" /\ program' = NoVersion /\ backup' = NoVersion
             /\ staged' = NoVersion /\ record' = None
             /\ tool = "purge" => stateFile' = FreshState
  <2>1. ~ToolStops
    BY <1>1, SpendToolType DEF ToolStops, InstallInv, ToolsOK
  <2>2. RemoveFile
    BY <1>1, <2>1 DEF InstallNext, Starts, HandOverFails, AgentSteps, toolVars,
       BeginInstall, BeginUninstall, Installing, OpenShim, CopyShim, OpenProgram,
       CopyProgram, EnsureIdentity, Register, Uninstalling, RemoveShim, At
  <2> QED
    BY <1>1, <2>2 DEF RemoveFile, RemoveProgram, RemoveBackup, RemoveStaged,
       RemoveRecord, Purge, At, InstallInv, ToolInv
<1>2. InstallInv /\ [InstallNext]_allVars
        => (toolSpent' = toolSpent /\ tool \in {"record", "purge"} /\ tool' = "idle" =>
              /\ shimFile' = "absent" /\ program' = NoVersion /\ backup' = NoVersion
              /\ staged' = NoVersion /\ record' = None
              /\ tool = "purge" => stateFile' = FreshState)
  BY <1>1 DEF allVars, toolVars
<1> QED
  BY <1>2, InstallInvInit, InstallInvStep, PTL DEF InstallSpec, UninstallLeavesNothing

=============================================================================
