------------------------------ MODULE Install --------------------------------
(***************************************************************************)
(* The installer over the life of a machine (cmd/installer/main.go,        *)
(* internal/service, CopyFile of internal/fsutil): first installs, repairs *)
(* over a running agent in any state, uninstalls with and without -purge,  *)
(* each of which may end halfway.  The agent in between is module Agent's. *)
(*                                                                         *)
(* The tool's place in its code is tool.  It stops the agent first; the    *)
(* service may stay registered when the service manager refuses more, an   *)
(* error that the installer drops.  A copied file is truncated first and   *)
(* whole only when the copy has ended.                                     *)
(*                                                                         *)
(* Simplifications.  The service manager stops the agent whenever it is    *)
(* told to, and nothing starts it while a tool is at work (a reboot ends   *)
(* the tool).  A tool that gives up on an error and one that dies are the  *)
(* same.  Enrollment is module Fleet's subject: here it may only make the  *)
(* installer give up.  Every tool run uses the same directories.           *)
(***************************************************************************)
EXTENDS Agent

CONSTANTS
    Packages,         \* the versions an installer may carry
    AbsentIsError,    \* whether deregistering an absent service fails (schtasks)
    MaxRuns,          \* bound: runs of the installer and the uninstaller
    MaxStops,         \* bound: runs that end halfway
    MaxRefusals       \* bound: (de)registrations the service manager refuses

ASSUME PackagesAssumption == Packages \subseteq Versions
ASSUME AbsentIsErrorAssumption == AbsentIsError \in BOOLEAN
ASSUME ToolBudgetsAssumption ==
    MaxRuns \in Nat /\ MaxStops \in Nat /\ MaxRefusals \in Nat

VARIABLES
    shimFile,         \* the installed shim: "absent", "torn" or "whole"
    registered,       \* whether the service manager starts the shim
    tool,             \* where the running tool is, or "idle"
    package,          \* the version the installer carries
    toolSpent,        \* the spent budgets of the tools
    since,            \* history: versions placed or staged since the last install
    clean             \* history: whether that install found nothing left over

toolVars == <<shimFile, registered, tool, package, toolSpent, since, clean>>
allVars  == <<vars, toolVars>>

InstallSteps ==
    {"openShim", "copyShim", "openProgram", "copyProgram", "identity", "register"}

RemovalSteps == {"shim", "program", "backup", "staged", "record", "purge"}

SpendTool(what) ==
    toolSpent' = [b \in DOMAIN toolSpent |-> toolSpent[b] + IF b \in what THEN 1 ELSE 0]

(* The service manager refuses to deregister a service.                    *)
Refused(what) ==
    registered /\ toolSpent.refusals < MaxRefusals /\ SpendTool(what)

-----------------------------------------------------------------------------
(* The service manager and the agent.                                      *)

(* disable --now, bootout, /End: whatever runs is gone.                    *)
AgentStopped ==
    /\ step' = "stopped"
    /\ mem' = None
    /\ health' = "off"
    /\ offer' = None
    /\ pollSnap' = None
    /\ healthSnap' = None

Starts ==
    /\ registered /\ tool = "idle"
    /\ shimFile = "whole"
    /\ SupervisorStarts \/ OperatorStarts
    /\ UNCHANGED toolVars

(* A torn program cannot be executed.                                      *)
HandOverFails ==
    /\ step = "handOver"
    /\ program = Partial
    /\ Exit("1")
    /\ UNCHANGED <<disk, spent, history, toolVars>>

AgentSteps ==
    /\ ~(step = "handOver" /\ program = Partial)
    /\ \/ ShimCrashes \/ ProgramKilled \/ ProgramDies
       \/ ShimStep \/ PollStep \/ HealthStep
    /\ since' = IF record' \in {record, None} THEN since ELSE since \cup {record'.version}
    /\ UNCHANGED <<shimFile, registered, tool, package, toolSpent, clean>>

-----------------------------------------------------------------------------
(* install.                                                                *)

At(here, next) == tool = here /\ tool' = next

(* Faulty: the binaries are replaced under the running agent.              *)
BeginInstallRunning ==
    /\ At("idle", "openShim")
    /\ toolSpent.runs < MaxRuns
    /\ package' \in Packages
    /\ registered' = FALSE /\ SpendTool({"runs"})
    /\ clean' = FALSE
    /\ UNCHANGED <<vars, shimFile, since>>

(* Faulty: the agent is stopped and stays registered.                      *)
BeginInstallRegistered ==
    /\ At("idle", "openShim")
    /\ toolSpent.runs < MaxRuns
    /\ package' \in Packages
    /\ AgentStopped
    /\ SpendTool({"runs"})
    /\ clean' = FALSE
    /\ UNCHANGED <<disk, spent, history, shimFile, registered, since>>

(* service.Uninstall comes first; that it failed is ignored.               *)
BeginInstall ==
    /\ At("idle", "openShim")
    /\ toolSpent.runs < MaxRuns
    /\ package' \in Packages
    /\ AgentStopped
    /\ \/ registered' = FALSE /\ SpendTool({"runs"})
       \/ Refused({"runs", "refusals"}) /\ UNCHANGED registered
    /\ clean' = FALSE
    /\ UNCHANGED <<disk, spent, history, shimFile, since>>

(* CopyFile opens the destination with O_TRUNC.                            *)
OpenShim ==
    /\ At("openShim", "copyShim")
    /\ shimFile' = "torn"
    /\ UNCHANGED <<vars, registered, package, toolSpent, since, clean>>

CopyShim ==
    /\ At("copyShim", "openProgram")
    /\ shimFile' = "whole"
    /\ UNCHANGED <<vars, registered, package, toolSpent, since, clean>>

(* Faulty: a program that is there is kept.                                *)
OpenMissingProgram ==
    /\ tool = "openProgram"
    /\ IF program = NoVersion
       THEN tool' = "copyProgram" /\ program' = Partial
       ELSE tool' = "identity" /\ UNCHANGED program
    /\ UNCHANGED <<backup, staged, record, stateFile, step, threads, spent, history,
                   shimFile, registered, package, toolSpent, since, clean>>

OpenProgram ==
    /\ At("openProgram", "copyProgram")
    /\ program' = Partial
    /\ UNCHANGED <<backup, staged, record, stateFile, step, threads, spent, history,
                   shimFile, registered, package, toolSpent, since, clean>>

CopyProgram ==
    /\ At("copyProgram", "identity")
    /\ program' = package
    /\ UNCHANGED <<backup, staged, record, stateFile, step, threads, spent, history,
                   shimFile, registered, package, toolSpent, since, clean>>

(* ensureIdentity: with an identity, the service is registered next, unless*)
(* -no-autostart says not to.                                              *)
EnsureIdentity ==
    /\ tool = "identity"
    /\ tool' \in {"register", "idle"}
    /\ UNCHANGED <<vars, shimFile, registered, package, toolSpent, since, clean>>

(* What an installer does not look at: an update staged before, a trial    *)
(* that has not ended.                                                     *)
NothingLeftOver == record = None /\ ~OnTrial(stateFile)

(* service.Install registers and starts.  When a later command of it fails *)
(* the registration may stand or not.                                      *)
Register ==
    /\ At("register", "idle")
    /\ \/ /\ registered' = TRUE
          /\ step' = IF step = "stopped" THEN "down" ELSE step
          /\ UNCHANGED toolSpent
       \/ /\ toolSpent.refusals < MaxRefusals
          /\ SpendTool({"refusals"})
          /\ registered' \in BOOLEAN
          /\ UNCHANGED step
    /\ since' = {package}
    /\ clean' = NothingLeftOver
    /\ UNCHANGED <<disk, threads, spent, history, shimFile, package>>

-----------------------------------------------------------------------------
(* uninstall.                                                              *)

(* schtasks /Delete: that there is no task is an error on Windows.         *)
NothingToDelete == ~registered /\ AbsentIsError

(* Here a failure to deregister ends the tool.                             *)
BeginUninstall ==
    /\ tool = "idle"
    /\ toolSpent.runs < MaxRuns
    /\ AgentStopped
    /\ \/ /\ ~NothingToDelete
          /\ registered' = FALSE
          /\ tool' = "shim"
          /\ SpendTool({"runs"})
       \/ /\ NothingToDelete
          /\ SpendTool({"runs"})
          /\ UNCHANGED <<tool, registered>>
       \/ /\ Refused({"runs", "refusals"})
          /\ UNCHANGED <<tool, registered>>
    /\ clean' = FALSE
    /\ UNCHANGED <<disk, spent, history, shimFile, package, since>>

RemoveShim ==
    /\ At("shim", "program")
    /\ shimFile' = "absent"
    /\ UNCHANGED <<vars, registered, package, toolSpent, since, clean>>

RemoveProgram ==
    /\ At("program", "backup")
    /\ program' = NoVersion
    /\ UNCHANGED <<backup, staged, record, stateFile>>

RemoveBackup ==
    /\ At("backup", "staged")
    /\ backup' = NoVersion
    /\ UNCHANGED <<program, staged, record, stateFile>>

RemoveStaged ==
    /\ At("staged", "record")
    /\ staged' = NoVersion
    /\ UNCHANGED <<program, backup, record, stateFile>>

(* Faulty: the staging record is not on the list.                          *)
KeepRecord ==
    /\ tool = "record"
    /\ tool' \in {"purge", "idle"}
    /\ UNCHANGED <<program, backup, staged, record, stateFile>>

(* Then the data directory, when -purge is given.                          *)
RemoveRecord ==
    /\ tool = "record"
    /\ tool' \in {"purge", "idle"}
    /\ record' = None
    /\ UNCHANGED <<program, backup, staged, stateFile>>

(* The next state.Load finds no file.                                      *)
Purge ==
    /\ At("purge", "idle")
    /\ stateFile' = FreshState
    /\ UNCHANGED <<program, backup, staged, record>>

RemoveFile ==
    /\ \/ RemoveProgram \/ RemoveBackup \/ RemoveStaged \/ RemoveRecord \/ Purge
    /\ UNCHANGED <<step, threads, spent, history,
                   shimFile, registered, package, toolSpent, since, clean>>

(* A tool dies or gives up.  A copy that failed removes what it wrote; one *)
(* that died leaves it.                                                    *)
ToolStops ==
    /\ tool # "idle"
    /\ toolSpent.stops < MaxStops
    /\ SpendTool({"stops"})
    /\ tool' = "idle"
    /\ shimFile' \in IF tool = "copyShim" THEN {"torn", "absent"} ELSE {shimFile}
    /\ program' \in IF tool = "copyProgram" THEN {Partial, NoVersion} ELSE {program}
    /\ UNCHANGED <<backup, staged, record, stateFile, step, threads, spent, history,
                   registered, package, since, clean>>

-----------------------------------------------------------------------------
InstallInit ==
    /\ program = NoVersion
    /\ backup = NoVersion
    /\ staged = NoVersion
    /\ record = None
    /\ stateFile = FreshState
    /\ step = "stopped"
    /\ mem = None
    /\ health = "off"
    /\ offer = None
    /\ pollSnap = None
    /\ healthSnap = None
    /\ spent = [crashes |-> 0, faults |-> 0, kills |-> 0, overlaps |-> 0]
    /\ healthy = {}
    /\ cutShort = {}
    /\ launches = [v \in Versions |-> 0]
    /\ shimFile = "absent"
    /\ registered = FALSE
    /\ tool = "idle"
    /\ package \in Packages
    /\ toolSpent = [runs |-> 0, stops |-> 0, refusals |-> 0]
    /\ since = {}
    /\ clean = FALSE

Installing ==
    \/ OpenShim \/ CopyShim \/ OpenProgram \/ CopyProgram
    \/ EnsureIdentity \/ Register

Uninstalling == RemoveShim \/ RemoveFile

InstallNext ==
    \/ Starts \/ HandOverFails \/ AgentSteps
    \/ BeginInstall \/ Installing
    \/ BeginUninstall \/ Uninstalling
    \/ ToolStops

(* A tool that was started works on, and the agent as in module Agent.     *)
InstallFairness ==
    /\ WF_allVars(Installing \/ Uninstalling)
    /\ WF_allVars(SupervisorStarts /\ Starts)
    /\ WF_allVars((ShimStep /\ AgentSteps) \/ HandOverFails)

InstallSpec == InstallInit /\ [][InstallNext]_allVars /\ InstallFairness

-----------------------------------------------------------------------------
(* Properties.                                                             *)

(* Every file and every field holds a value of its kind, and the agent is  *)
(* at work only where it is registered and no tool is.                     *)
InstallTypeOK ==
    /\ program \in VersionOrNone \cup {Partial}
    /\ backup \in VersionOrNone \cup {Partial}
    /\ staged \in VersionOrNone \cup {Partial}
    /\ record \in Record \cup {None}
    /\ stateFile \in State
    /\ step \in ShimSteps \cup ProgramSteps \cup {"down", "stopped"}
    /\ shimFile \in {"absent", "torn", "whole"}
    /\ registered \in BOOLEAN
    /\ tool \in {"idle"} \cup InstallSteps \cup RemovalSteps
    /\ package \in Packages
    /\ since \subseteq Versions
    /\ step # "stopped" => registered /\ tool = "idle"

(* A binary that a copy left torn is never started and never kept as a     *)
(* backup, wherever an installer died, if the service manager deregistered *)
(* the agent when it was told to (install: stop first, register last).     *)
TornIsNeverUsed ==
    toolSpent.refusals = 0 =>
        /\ backup # Partial
        /\ step # "stopped" => program # Partial /\ shimFile = "whole"

(* docs/OPERATIONS.md: "the same command is a first install or a repair".  *)
(* What runs after an install is the package, or what was staged since,    *)
(* provided that the install met neither a staged update nor a trial: it   *)
(* looks at neither, and both outlive it.                                  *)
RepairHolds == clean /\ Running => program \in since

(* docs/OPERATIONS.md: "and starts it back up".  The agent that an install *)
(* registers comes up, whatever state, backup and staged update of its     *)
(* predecessor it meets, unless a tool stops it or a deregistration had    *)
(* been refused before.                                                    *)
InstallComesUp ==
    registered /\ step = "down" ~>
        Running \/ step = "stopped" \/ toolSpent.refusals > 0

(* An uninstall that runs to its end leaves no trace that a later install  *)
(* could meet: with -purge everything is as before the first, without it   *)
(* only what the state record remembers.                                   *)
UninstallLeavesNothing ==
    [][toolSpent' = toolSpent /\ tool \in {"record", "purge"} /\ tool' = "idle" =>
         /\ shimFile' = "absent" /\ program' = NoVersion /\ backup' = NoVersion
         /\ staged' = NoVersion /\ record' = None
         /\ tool = "purge" => stateFile' = FreshState]_allVars

=============================================================================
