------------------------------- MODULE Agent --------------------------------
(***************************************************************************)
(* One machine: the shim (cmd/shim/main.go), the program it hands over to  *)
(* (cmd/app/main.go with internal/updater/updater.go), the files they      *)
(* share in the install and data directories (internal/staging,            *)
(* internal/state), and the supervisor that starts the shim again.         *)
(*                                                                         *)
(* The shim and the program never overlap: on Unix the shim becomes the    *)
(* program, elsewhere it waits for it.  So there is one process, whose     *)
(* place in the code is step, with one copy of the state record, mem.      *)
(* While the program runs a second thread, the health timer, shares mem.   *)
(* Every operation on a file is a step of its own; a change of memory only *)
(* is part of the file operation before or after it, since a crash cannot  *)
(* tell them apart.  What the environment may do is bounded by budgets.    *)
(*                                                                         *)
(* Simplifications.  A file is its content: the version a binary reports,  *)
(* or Partial.  Atomic writes (temporary file and rename) are one step.    *)
(* Events, logging and the identity file are other modules' subject.  The  *)
(* poll interval and the ETag are the updater's: here any manifest of      *)
(* Manifests, or none, may answer any poll.                                *)
(***************************************************************************)
EXTENDS Policy, FiniteSets

CONSTANTS
    InitialVersion,   \* what the installer placed
    Manifests,        \* the signed manifests the channel may serve
    Unrunnable,       \* releases that fail the pre-flight self-check
    Broken,           \* releases that pass it and die before reporting healthy
    BrokenStatuses,   \* how a broken release dies
    RestartStatuses,  \* the exits after which the supervisor starts again
    MaxCrashes,       \* bound: power cuts while the shim runs
    MaxFaults,        \* bound: failing file operations
    MaxKills,         \* bound: kills of the running program
    MaxOverlaps,      \* bound: saves of one thread that overlap the other's
    MaxCutShort,      \* bound: releases whose last self-check was cut short
    None              \* no record, no manifest, nothing in memory

(* exitOK, exitError, exitTooStale (also the status of a Go panic), and a  *)
(* death by signal.                                                        *)
Statuses == {"0", "1", "2", "signal"}

ASSUME InitialVersionAssumption == InitialVersion \in Versions
ASSUME ManifestsAssumption == Manifests \subseteq Manifest
ASSUME ReleasesAssumption ==
    /\ Unrunnable \subseteq Versions
    /\ Broken \subseteq Versions
    /\ InitialVersion \notin Unrunnable \cup Broken
ASSUME StatusesAssumption ==
    /\ BrokenStatuses \subseteq Statuses
    /\ RestartStatuses \subseteq Statuses
ASSUME BudgetsAssumption ==
    /\ MaxCrashes \in Nat
    /\ MaxFaults \in Nat
    /\ MaxKills \in Nat
    /\ MaxOverlaps \in Nat
    /\ MaxCutShort \in Nat
ASSUME NoneAssumption == None \notin State \cup Manifest \cup [version : Versions, from : Versions]

VARIABLES
    \* files
    program,          \* the installed binary, or NoVersion
    backup,           \* its predecessor, kept during a trial, or NoVersion
    staged,           \* the downloaded candidate, Partial, or NoVersion
    record,           \* the staging record, or None
    stateFile,        \* the state record on disk
    \* the process
    step,             \* where the shim or the program's main thread is
    mem,              \* its copy of the state record
    health,           \* where the health timer's thread is
    offer,            \* the manifest the poll is working on, or None
    pollSnap,         \* the bytes the poll is about to save, or None
    healthSnap,       \* the bytes the health thread is about to save
    \* the environment's spent budgets, and history
    spent,
    healthy,          \* versions that ran long enough to report healthy
    cutShort,         \* versions whose last self-check here was cut short
    launches          \* starts of each version since it was last installed

disk    == <<program, backup, staged, record, stateFile>>
threads == <<mem, health, offer, pollSnap, healthSnap>>
history == <<healthy, cutShort, launches>>
vars    == <<program, backup, staged, record, stateFile, step, mem, health,
             offer, pollSnap, healthSnap, spent, healthy, cutShort, launches>>

Partial == -1

Record == [version : Versions, from : Versions]

ShimSteps ==
    {"load", "read", "discardRecord", "discardStaged", "verify", "dropBackup",
     "moveAside", "place", "undo", "clearStaged", "clearRecord", "trial",
     "removeFailed", "putBack", "save", "handOver"}

ProgramSteps ==
    {"poll", "note", "decide", "download", "preflight", "stage", "persist",
     "leave", "stop"}

Running == step \in ProgramSteps

-----------------------------------------------------------------------------
(* The environment.                                                        *)

Spend(what) == spent' = [spent EXCEPT ![what] = @ + 1]

Budgets == [crashes : 0 .. MaxCrashes, faults : 0 .. MaxFaults,
            kills : 0 .. MaxKills, overlaps : 0 .. MaxOverlaps]

(* A file operation that returns an error.  It usually has had no effect,  *)
(* but a rename is also reported as failed when only the flush of the      *)
(* directory entry after it failed.                                        *)
Fault == spent.faults < MaxFaults /\ Spend("faults")

(* A process that ended: its memory is gone, and the supervisor starts the *)
(* shim again unless the exit status is one it leaves alone.               *)
Exit(status) ==
    /\ step' = IF status \in RestartStatuses THEN "down" ELSE "stopped"
    /\ mem' = None
    /\ health' = "off"
    /\ offer' = None
    /\ pollSnap' = None
    /\ healthSnap' = None

SupervisorStarts ==
    /\ step = "down"
    /\ step' = "load"
    /\ UNCHANGED <<disk, threads, spent, history>>

(* An operator, or a reboot of the machine, starts a stopped service.      *)
OperatorStarts ==
    /\ step = "stopped"
    /\ step' = "load"
    /\ UNCHANGED <<disk, threads, spent, history>>

(* Power is cut between two of the shim's file operations; the machine     *)
(* boots again.                                                            *)
ShimCrashes ==
    /\ step \in ShimSteps
    /\ spent.crashes < MaxCrashes
    /\ Spend("crashes")
    /\ step' = "down"
    /\ mem' = None
    /\ UNCHANGED <<disk, health, offer, pollSnap, healthSnap, history>>

(* A running program of any quality may be killed, between any two steps.  *)
ProgramKilled ==
    /\ Running
    /\ spent.kills < MaxKills
    /\ Spend("kills")
    /\ Exit("signal")
    /\ UNCHANGED <<disk, history>>

(* A broken release dies by itself before it would have reported healthy.  *)
ProgramDies ==
    /\ Running
    /\ program \in Broken
    /\ \E status \in BrokenStatuses : Exit(status)
    /\ UNCHANGED <<disk, spent, history>>

-----------------------------------------------------------------------------
(* The shim: load the state, install what is staged, resolve the trial,    *)
(* save, hand over.                                                        *)

ShimLoad ==
    /\ step = "load"
    /\ \/ /\ mem' = stateFile
          /\ step' = "read"
          /\ UNCHANGED <<health, offer, pollSnap, healthSnap, spent>>
       \/ Fault /\ Exit("1")
    /\ UNCHANGED <<disk, history>>

(* staging.Read.  A record that cannot be read is discarded with whatever  *)
(* it described.                                                           *)
ShimRead ==
    /\ step = "read"
    /\ \/ /\ step' = IF record = None THEN "trial" ELSE "verify"
          /\ UNCHANGED spent
       \/ record # None /\ Fault /\ step' = "discardRecord"
    /\ UNCHANGED <<disk, threads, history>>

DiscardRecord ==
    /\ step = "discardRecord"
    /\ \/ record' = None /\ UNCHANGED spent
       \/ Fault /\ UNCHANGED record
    /\ step' = "discardStaged"
    /\ UNCHANGED <<program, backup, staged, stateFile, threads, history>>

DiscardStaged ==
    /\ step = "discardStaged"
    /\ \/ staged' = NoVersion /\ UNCHANGED spent
       \/ Fault /\ UNCHANGED staged
    /\ step' = "trial"
    /\ UNCHANGED <<program, backup, record, stateFile, threads, history>>

(* What installStagedProgram does when Apply returns an error.             *)
ApplyFailed ==
    /\ mem' = Poison(mem, record.version)
    /\ step' = "clearStaged"

(* Faulty: whatever lies at the staged path is installed.                  *)
DigestUnchecked == staged # NoVersion

(* Record.Verify: the staged file is there and has the recorded digest.    *)
Verified == staged = record.version

(* Apply starts with Verify and a chmod.                                   *)
ApplyVerify ==
    /\ step = "verify"
    /\ \/ Verified /\ step' = "dropBackup" /\ UNCHANGED <<mem, spent>>
       \/ ~Verified /\ ApplyFailed /\ UNCHANGED spent
       \/ Fault /\ ApplyFailed
    /\ UNCHANGED <<disk, health, offer, pollSnap, healthSnap, history>>

ApplyDropBackup ==
    /\ step = "dropBackup"
    /\ \/ /\ backup' = NoVersion
          /\ step' = "moveAside"
          /\ UNCHANGED <<mem, spent>>
       \/ backup # NoVersion /\ Fault /\ ApplyFailed /\ UNCHANGED backup
    /\ UNCHANGED <<program, staged, record, stateFile, health, offer, pollSnap,
                   healthSnap, history>>

(* Faulty: the outgoing binary is deleted instead of kept.                 *)
DeleteOutgoing ==
    /\ program # NoVersion
    /\ program' = NoVersion
    /\ UNCHANGED backup

MoveAside ==
    /\ program # NoVersion
    /\ backup' = program
    /\ program' = NoVersion

(* The outgoing binary becomes the backup; there may be none.              *)
ApplyMoveAside ==
    /\ step = "moveAside"
    /\ \/ MoveAside /\ step' = "place" /\ UNCHANGED <<mem, spent>>
       \/ /\ program = NoVersion
          /\ step' = "place"
          /\ UNCHANGED <<program, backup, mem, spent>>
       \/ /\ program # NoVersion
          /\ Fault
          /\ ApplyFailed
          /\ MoveAside \/ UNCHANGED <<program, backup>>
    /\ UNCHANGED <<staged, record, stateFile, health, offer, pollSnap,
                   healthSnap, history>>

PlaceStaged ==
    /\ program' = staged
    /\ staged' = NoVersion
    /\ launches' = [launches EXCEPT ![staged] = 0]

(* The second rename, then the trial begins in memory.                     *)
ApplyPlace ==
    /\ step = "place"
    /\ \/ /\ PlaceStaged
          /\ mem' = BeginTrial(mem, record.version, record.from)
          /\ step' = "clearStaged"
          /\ UNCHANGED spent
       \/ /\ Fault
          /\ PlaceStaged \/ UNCHANGED <<program, staged, launches>>
          /\ step' = "undo"
          /\ UNCHANGED mem
    /\ UNCHANGED <<backup, record, stateFile, health, offer, pollSnap,
                   healthSnap, healthy, cutShort>>

PutBack == program' = backup /\ backup' = NoVersion

(* Put the original back; without a backup this rename fails as well.      *)
ApplyUndo ==
    /\ step = "undo"
    /\ \/ backup # NoVersion /\ PutBack /\ UNCHANGED spent
       \/ backup = NoVersion /\ UNCHANGED <<program, backup, spent>>
       \/ backup # NoVersion /\ Fault /\ UNCHANGED <<program, backup>>
    /\ ApplyFailed
    /\ UNCHANGED <<staged, record, stateFile, health, offer, pollSnap,
                   healthSnap, history>>

(* Faulty: the record is left behind.                                      *)
ClearStagedOnly ==
    /\ step = "clearStaged"
    /\ staged' = NoVersion
    /\ step' = "trial"
    /\ UNCHANGED <<program, backup, record, stateFile, threads, spent, history>>

(* staging.Clear: the staged file, then the record; the record stays when  *)
(* the staged file cannot be removed.                                      *)
ClearStaged ==
    /\ step = "clearStaged"
    /\ \/ staged' = NoVersion /\ step' = "clearRecord" /\ UNCHANGED spent
       \/ staged # NoVersion /\ Fault /\ step' = "trial" /\ UNCHANGED staged
    /\ UNCHANGED <<program, backup, record, stateFile, threads, history>>

ClearRecord ==
    /\ step = "clearRecord"
    /\ \/ record' = None /\ UNCHANGED spent
       \/ Fault /\ UNCHANGED record
    /\ step' = "trial"
    /\ UNCHANGED <<program, backup, staged, stateFile, threads, history>>

(* Faulty: one chance too many.                                            *)
OneBootTooMany(s) == s.boots > MaxBootAttempts + 1

(* Faulty: one chance too few.                                             *)
OneBootTooFew(s) == s.boots >= MaxBootAttempts

TooManyBoots(s) == s.boots > MaxBootAttempts

(* Faulty: Restore does not look for the backup first.                     *)
AssumeBackup == TRUE

BackupExists == backup # NoVersion

(* resolveTrial: count this boot, and roll back after too many.  Without a *)
(* backup the failing version is launched anyway, still on trial.          *)
ResolveTrial ==
    /\ step = "trial"
    /\ \/ ~OnTrial(mem) /\ step' = "save" /\ UNCHANGED mem
       \/ /\ OnTrial(mem)
          /\ mem' = RecordBoot(mem)
          /\ step' = IF TooManyBoots(mem') /\ BackupExists
                     THEN "removeFailed" ELSE "save"
    /\ UNCHANGED <<disk, health, offer, pollSnap, healthSnap, spent, history>>

RestoreRemove ==
    /\ step = "removeFailed"
    /\ \/ program' = NoVersion /\ step' = "putBack" /\ UNCHANGED spent
       \/ program # NoVersion /\ Fault /\ step' = "save" /\ UNCHANGED program
    /\ UNCHANGED <<backup, staged, record, stateFile, threads, history>>

RestorePutBack ==
    /\ step = "putBack"
    /\ \/ PutBack /\ mem' = Abandon(mem) /\ UNCHANGED spent
       \/ Fault /\ (PutBack \/ UNCHANGED <<program, backup>>) /\ UNCHANGED mem
    /\ step' = "save"
    /\ UNCHANGED <<staged, record, stateFile, health, offer, pollSnap,
                   healthSnap, history>>

(* A save that fails is only worth a warning.                              *)
ShimSave ==
    /\ step = "save"
    /\ \/ stateFile' = mem /\ UNCHANGED spent
       \/ Fault /\ UNCHANGED stateFile
    /\ step' = "handOver"
    /\ UNCHANGED <<program, backup, staged, record, threads, history>>

(* handOver: the shim becomes the program, which loads the state itself    *)
(* and starts its health timer.  The exit status is 1 when there is no     *)
(* program, when it cannot be executed, or cannot load the state.          *)
HandOver ==
    /\ step = "handOver"
    /\ \/ /\ program # NoVersion
          /\ launches' = [launches EXCEPT ![program] =
                             IF @ > MaxBootAttempts THEN @ ELSE @ + 1]
          /\ mem' = stateFile
          /\ health' = "waiting"
          /\ step' = "poll"
          /\ UNCHANGED <<offer, pollSnap, healthSnap, spent>>
       \/ program = NoVersion /\ Exit("1") /\ UNCHANGED <<launches, spent>>
       \/ Fault /\ Exit("1") /\ UNCHANGED launches
    /\ UNCHANGED <<disk, healthy, cutShort>>

-----------------------------------------------------------------------------
(* The program: the poll loop.                                             *)

(* A save marshals the record, then writes it.  When the other thread is   *)
(* between the two, one of the saves may carry what the other changed.     *)
Overlapping(otherSaves) ==
    IF otherSaves
    THEN spent.overlaps < MaxOverlaps /\ Spend("overlaps")
    ELSE UNCHANGED spent

PollMarshals(s) ==
    /\ pollSnap' = s
    /\ Overlapping(health = "saving")

(* The record has no lock: a commit while the poll marshals may leave any  *)
(* mix of the trial's fields in the bytes.                                 *)
Torn(old, new) ==
    {[old EXCEPT !.pending = p, !.previous = q, !.boots = b] :
        p \in {old.pending, new.pending},
        q \in {old.previous, new.previous},
        b \in {old.boots, new.boots}}

PollWrites ==
    /\ \/ stateFile' \in Torn(pollSnap, mem) /\ UNCHANGED spent
       \/ Fault /\ UNCHANGED stateFile
    /\ pollSnap' = None

(* CheckNow.  An unreachable channel leaves everything as it was; a        *)
(* manifest, or the news that it has not changed, notes the check.         *)
Poll ==
    /\ step = "poll"
    /\ offer' \in Manifests \cup {None}
    /\ PollMarshals(mem)
    /\ step' = "note"
    /\ UNCHANGED <<disk, mem, health, healthSnap, history>>

NoteCheck ==
    /\ step = "note"
    /\ PollWrites
    /\ step' = IF offer = None THEN "poll" ELSE "decide"
    /\ UNCHANGED <<program, backup, staged, record, mem, health, offer,
                   healthSnap, history>>

BackToPoll == step' = "poll" /\ offer' = None

(* The decision on the manifest.  CanUpdate and the directory's            *)
(* permissions may defer an update, once ClearReinstall has been called.   *)
Decide ==
    /\ step = "decide"
    /\ LET decision == Evaluate(offer, program, mem)
           known    == ~FirstNeedsReinstall(mem, offer.version)
       IN  \/ /\ decision = "stop"
              /\ step' = "stop"
              /\ UNCHANGED <<staged, mem, offer, pollSnap, spent>>
           \/ /\ decision = "nothing" \/ (decision = "reinstall" /\ known)
              /\ BackToPoll
              /\ UNCHANGED <<staged, mem, pollSnap, spent>>
           \/ /\ decision = "reinstall" /\ ~known
              /\ mem' = RequireReinstall(mem, offer.version)
              /\ PollMarshals(mem')
              /\ step' = "persist"
              /\ UNCHANGED <<staged, offer>>
           \/ /\ decision = "apply"
              /\ mem' = ClearReinstall(mem)
              /\ \/ BackToPoll /\ UNCHANGED staged
                 \/ staged' = Partial /\ step' = "download" /\ UNCHANGED offer
              /\ UNCHANGED <<pollSnap, spent>>
    /\ UNCHANGED <<program, backup, record, stateFile, health, healthSnap,
                   history>>

(* Download either verifies against the manifest or removes the file.      *)
Download ==
    /\ step = "download"
    /\ \/ staged' = offer.version /\ step' = "preflight" /\ UNCHANGED offer
       \/ staged' = NoVersion /\ BackToPoll
    /\ UNCHANGED <<program, backup, record, stateFile, mem, health, pollSnap,
                   healthSnap, spent, history>>

(* preflight runs the candidate.  SIGTERM cancels the context of that run, *)
(* and a slow machine needs more than its 30 seconds: an error as well.    *)
(* The exit that follows a SIGTERM leaves what ProgramKilled leaves.       *)
CutShort ==
    /\ Cardinality(cutShort \cup {offer.version}) <= MaxCutShort
    /\ cutShort' = cutShort \cup {offer.version}

(* On any error the candidate is removed and poisoned.                     *)
Preflight ==
    /\ step = "preflight"
    /\ \/ /\ staged \notin Unrunnable
          /\ cutShort' = cutShort \ {offer.version}
          /\ step' = "stage"
          /\ UNCHANGED <<staged, mem, pollSnap, spent>>
       \/ /\ \/ staged \in Unrunnable /\ UNCHANGED cutShort
             \/ CutShort
          /\ staged' = NoVersion
          /\ mem' = Poison(mem, offer.version)
          /\ PollMarshals(mem')
          /\ step' = "persist"
    /\ UNCHANGED <<program, backup, record, stateFile, health, offer,
                   healthSnap, healthy, launches>>

(* The save after a rejected candidate or a new reinstall requirement.     *)
Persist ==
    /\ step = "persist"
    /\ PollWrites
    /\ BackToPoll
    /\ UNCHANGED <<program, backup, staged, record, mem, health, healthSnap,
                   history>>

(* staging.Write, after which Run returns ErrUpdateStaged.                 *)
Stage ==
    /\ step = "stage"
    /\ \/ /\ record' = [version |-> offer.version, from |-> program]
          /\ step' = "leave"
          /\ UNCHANGED <<staged, offer, spent>>
       \/ /\ Fault
          /\ record' \in {record, [version |-> offer.version, from |-> program]}
          /\ staged' = NoVersion
          /\ BackToPoll
    /\ UNCHANGED <<program, backup, stateFile, mem, health, pollSnap,
                   healthSnap, history>>

(* run waits for a health thread that is already in MarkHealthy, and       *)
(* returns the exit code of the poll loop's outcome.                       *)
Leave ==
    /\ step \in {"leave", "stop"}
    /\ health \in {"waiting", "done"}
    /\ Exit(IF step = "leave" THEN "0" ELSE "2")
    /\ UNCHANGED <<disk, spent, history>>

-----------------------------------------------------------------------------
(* The program: the health timer's thread, MarkHealthy.                    *)

(* Faulty: the commit stays in memory and the backup goes.                 *)
MarkHealthyUnsaved ==
    /\ Running
    /\ health = "waiting"
    /\ program \notin Broken
    /\ healthy' = healthy \cup {program}
    /\ IF mem.pending = program
       THEN mem' = Commit(mem) /\ health' = "removing"
       ELSE health' = "done" /\ UNCHANGED mem
    /\ UNCHANGED <<disk, step, offer, pollSnap, healthSnap, spent, cutShort,
                   launches>>

(* Only the version on trial commits; for any other the call does nothing. *)
MarkHealthy ==
    /\ Running
    /\ health = "waiting"
    /\ program \notin Broken
    /\ healthy' = healthy \cup {program}
    /\ \/ /\ mem.pending = program
          /\ mem' = Commit(mem)
          /\ healthSnap' = mem'
          /\ Overlapping(pollSnap # None)
          /\ health' = "saving"
       \/ /\ mem.pending # program
          /\ health' = "done"
          /\ UNCHANGED <<mem, healthSnap, spent>>
    /\ UNCHANGED <<disk, step, offer, pollSnap, cutShort, launches>>

HealthSave ==
    /\ health = "saving"
    /\ \/ stateFile' = healthSnap /\ UNCHANGED spent
       \/ Fault /\ UNCHANGED stateFile
    /\ healthSnap' = None
    /\ health' = "removing"
    /\ UNCHANGED <<program, backup, staged, record, step, mem, offer, pollSnap,
                   history>>

HealthRemovesBackup ==
    /\ health = "removing"
    /\ \/ backup' = NoVersion /\ UNCHANGED spent
       \/ backup # NoVersion /\ Fault /\ UNCHANGED backup
    /\ health' = "done"
    /\ UNCHANGED <<program, staged, record, stateFile, step, mem, offer,
                   pollSnap, healthSnap, history>>

-----------------------------------------------------------------------------
Init ==
    /\ program = InitialVersion
    /\ backup = NoVersion
    /\ staged = NoVersion
    /\ record = None
    /\ stateFile = FreshState
    /\ step = "down"
    /\ mem = None
    /\ health = "off"
    /\ offer = None
    /\ pollSnap = None
    /\ healthSnap = None
    /\ spent = [crashes |-> 0, faults |-> 0, kills |-> 0, overlaps |-> 0]
    /\ healthy = {InitialVersion}
    /\ cutShort = {}
    /\ launches = [v \in Versions |-> 0]

ShimStep ==
    \/ ShimLoad \/ ShimRead \/ DiscardRecord \/ DiscardStaged
    \/ ApplyVerify \/ ApplyDropBackup \/ ApplyMoveAside \/ ApplyPlace
    \/ ApplyUndo \/ ClearStaged \/ ClearRecord
    \/ ResolveTrial \/ RestoreRemove \/ RestorePutBack
    \/ ShimSave \/ HandOver

PollStep ==
    \/ Poll \/ NoteCheck \/ Decide \/ Download \/ Preflight \/ Persist \/ Stage
    \/ Leave

HealthStep == MarkHealthy \/ HealthSave \/ HealthRemovesBackup

Next ==
    \/ SupervisorStarts \/ OperatorStarts
    \/ ShimCrashes \/ ProgramKilled \/ ProgramDies
    \/ ShimStep
    \/ PollStep
    \/ HealthStep

Spec == Init /\ [][Next]_vars

(* The supervisor restarts, the shim runs to its end, a broken release     *)
(* dies, an exiting program exits, a save ends and the health timer fires: *)
(* all happen by themselves.  The timer needs strong fairness only because *)
(* the bound MaxOverlaps holds it back while the poll saves.  Nothing is   *)
(* assumed of the channel, of the operator or of the next poll.            *)
Fairness ==
    /\ WF_vars(SupervisorStarts)
    /\ WF_vars(ShimStep)
    /\ WF_vars(ProgramDies)
    /\ WF_vars(NoteCheck \/ Persist)
    /\ WF_vars(Leave)
    /\ SF_vars(MarkHealthy)
    /\ WF_vars(HealthSave \/ HealthRemovesBackup)

FairSpec == Spec /\ Fairness

-----------------------------------------------------------------------------
(* Properties.                                                             *)

(* Every file and every field holds a value of its kind; in particular     *)
(* what ends up at the program's or the backup's path is a whole binary,   *)
(* never the Partial file of an interrupted download.                      *)
TypeOK ==
    /\ program \in VersionOrNone
    /\ backup \in VersionOrNone
    /\ staged \in VersionOrNone \cup {Partial}
    /\ record \in Record \cup {None}
    /\ stateFile \in State
    /\ step \in ShimSteps \cup ProgramSteps \cup {"down", "stopped"}
    /\ mem \in State \cup {None}
    /\ health \in {"off", "waiting", "saving", "removing", "done"}
    /\ offer \in Manifests \cup {None}
    /\ pollSnap \in State \cup {None}
    /\ healthSnap \in State \cup {None}
    /\ spent \in Budgets
    /\ healthy \subseteq Versions
    /\ cutShort \subseteq Versions
    /\ launches \in [Versions -> BootCount]

(* Whatever power cuts interrupted before, the shim has a program to hand  *)
(* over to, as long as no file operation has failed (Apply, Restore).      *)
HandOverFindsProgram ==
    step = "handOver" /\ spent.faults = 0 => program # NoVersion

(* No single power cut and no single failing file operation leaves the     *)
(* machine without any copy it could run: installed, backed up, or staged  *)
(* with its record (the order of the renames in Apply and Restore).        *)
ACopySurvives ==
    spent.crashes + spent.faults <= 1 =>
        \/ program # NoVersion
        \/ backup # NoVersion
        \/ record # None /\ staged = record.version

(* While a trial is on disk, outside the shim's own run, the installed     *)
(* binary is the one on trial and the backup is what it replaced.          *)
PreviousIsTheBackup ==
    ~(step \in ShimSteps) /\ OnTrial(stateFile) =>
        /\ stateFile.pending = program
        /\ stateFile.previous = backup

(* That holds as long as power was not cut and no file operation failed,   *)
(* but for one case: a version whose commit an overlapping save has undone *)
(* on disk is on trial again after MarkHealthy has removed the backup.  It *)
(* has proven itself; a version that has not is never without the way      *)
(* back, whatever saves overlap.                                           *)
BackupBacksTrial ==
    spent.crashes + spent.faults = 0 =>
        \/ PreviousIsTheBackup
        \/ /\ spent.overlaps > 0
           /\ stateFile.pending = program
           /\ program \in healthy

(* No start of a version on trial escapes the counter on disk, even when   *)
(* power is cut anywhere (resolveTrial counts and run saves before         *)
(* handOver).                                                              *)
LaunchesAreCounted ==
    Running /\ stateFile.pending = program /\ spent.faults + spent.overlaps = 0 =>
        launches[program] <= stateFile.boots

(* While power is not cut, no file operation fails and no saves overlap, a *)
(* version on trial is never started more than MaxBootAttempts times.      *)
ThreeChances ==
    Running /\ stateFile.pending = program =>
        launches[program] <= MaxBootAttempts

(* With the backup still there, that holds even when power is cut anywhere *)
(* (resolveTrial; without a backup it launches the failing version anyway, *)
(* still on trial).                                                        *)
ThreeChancesWithBackup ==
    /\ Running /\ stateFile.pending = program /\ backup # NoVersion
    /\ spent.faults + spent.overlaps = 0
    => launches[program] <= MaxBootAttempts

(* In the same runs a version is remembered as failed only if it cannot    *)
(* run here, or used up all its starts, or if its last self-check was cut  *)
(* short.  That last cause says nothing about the release: updater.go      *)
(* takes it for one that "cannot run here", and the version is then among  *)
(* those "that failed on this machine" (state.go) although it did not.     *)
PoisonIsEarned ==
    \A v \in PoisonedSet(stateFile) :
        v \in Unrunnable \cup cutShort \/ launches[v] >= MaxBootAttempts

(* In the same runs the version that runs is not remembered as failed,     *)
(* neither through a new download, nor through the restored backup, with   *)
(* one exception: a recall to the version that the trial replaced, whose   *)
(* self-check is cut short, marks the backup, and the rollback of the      *)
(* trial restores it all the same.                                         *)
RunningNotPoisoned ==
    Running /\ IsPoisoned(stateFile, program) => program \in cutShort

(* The shim's second rename places what the record describes, and nothing  *)
(* else that may lie at the staged path.                                   *)
PlacesWhatWasRecorded ==
    [][step = "place" /\ program' # program => program' = record.version]_vars

(* A trial disappears from the state file for one of three reasons: the    *)
(* version reported healthy, it used up its starts and the version it      *)
(* replaced is back, or a later release is on trial in its stead.          *)
TrialEndsOnEvidence ==
    [][OnTrial(stateFile) /\ stateFile'.pending # stateFile.pending =>
         LET v == stateFile.pending IN
         \/ v \in healthy
         \/ /\ launches[v] >= MaxBootAttempts
            /\ IsPoisoned(stateFile', v)
            /\ program = stateFile.previous
         \/ /\ OnTrial(stateFile')
            /\ stateFile'.previous = v]_vars

(* What the machine runs at its next start as far as the state file knows: *)
(* the trial on disk, else what the shim is about to move aside or has.    *)
Installed ==
    IF OnTrial(stateFile)
    THEN stateFile.pending
    ELSE IF step \in ShimSteps /\ (program = NoVersion \/ (mem # None /\ OnTrial(mem)))
         THEN backup
         ELSE program

Contract == INSTANCE TrialContract WITH
    installed <- Installed,
    onTrial   <- OnTrial(stateFile),
    replaced  <- stateFile.previous,
    starts    <- stateFile.boots,
    rejected  <- PoisonedSet(stateFile)

(* Shim, updater and files together implement the contract of a trial.     *)
ImplementsContract == Contract!Spec

(* Every trial ends, unless the supervisor has stopped starting the agent. *)
TrialEnds ==
    \A v \in Versions :
        stateFile.pending = v ~> (stateFile.pending # v \/ step = "stopped")

(* A staged update is installed or discarded, unless the supervisor has    *)
(* stopped starting the agent.                                             *)
StagedIsConsumed == record # None ~> (record = None \/ step = "stopped")

(* Once the shim runs, and whatever power cuts interrupt it, the program   *)
(* comes back; only a failing file operation may prevent it.               *)
ProgramComesBack ==
    step \in ShimSteps ~> (Running \/ step = "stopped" \/ spent.faults > 0)

-----------------------------------------------------------------------------
(* What the repository's documents and comments say and the code does not  *)
(* keep.  Each has a run that shows how.                                   *)

(* cmd/shim/main.go: "The new binary is installed but unproven.  From here *)
(* the program must reach MarkHealthy or resolveTrial will put the old one *)
(* back."  A version that never reported healthy runs only on trial.       *)
UnprovenIsOnTrial ==
    Running /\ program \notin healthy => stateFile.pending = program

(* README.md: "New version keeps dying | Old version restored after three  *)
(* tries".                                                                 *)
BrokenIsReplaced ==
    \A v \in Broken : program = v ~> program # v

(* cmd/shim/main.go: "A build that panics during initialisation [...] the  *)
(* shim runs regardless, so the count still advances and the rollback      *)
(* still happens."                                                         *)
BrokenTrialEnds ==
    \A v \in Broken : stateFile.pending = v ~> stateFile.pending # v

(* internal/service/service_darwin.go: "the program exits 0 after staging  *)
(* an update, and launchd must bring it back so the shim can install it."  *)
StagedIsInstalled == record # None ~> record = None

=============================================================================
