# Verification of selfupdate-agent in TLA+

This directory models the self-updating agent of this repository: the shim, the
program it supervises, the files they hand each other, the installer that puts
them on a machine, the release channel they poll, and the fleet API they report
to. TLC checks the models on small instances; TLAPS proves the central results
for every value of the constants. Every definition is a translation of source
code; `PROJECT.json` maps each to its lines.

    tlc -workers 2 -config AgentTrials.cfg MCAgent     # one run
    tlapm AgentRollbackProofs.tla                      # the proofs of one module

## 1. The system

| Component | State | Operations | Interacts through |
|---|---|---|---|
| shim (`cmd/shim`) | its copy of the state record | `run`: load, `installStagedProgram`, `resolveTrial`, save, `deliver`, `handOver` | files in the install and data directories; becomes the program |
| staging (`internal/staging`) | staged file, staging record, backup | `Write`, `Read`, `Clear`, `Verify`, `Apply`, `Restore` | written by the updater, consumed by the shim |
| state record (`internal/state`) | one JSON file | `BeginTrial`, `RecordBoot`, `Commit`, `Abandon`, `Poison`, `NeedsReinstall`, `ClearReinstall` | shim and program in turn; in the program two threads, no lock |
| policy (`internal/updater/policy.go`) | none | `Evaluate`, `InRollout` | called by the updater |
| versions (`internal/version`) | none | `Parse`, `Compare`, `Newer`, `Older` | called by the policy |
| updater (`internal/updater`) | cadence, failures, ETag, state record | `Run`, `CheckNow`, `stage`, `preflight`, `MarkHealthy`, `Manifest`, `Download` | HTTP to the channel; files to the shim; events |
| program main (`cmd/app`) | two goroutines | poll loop, health timer, exit status | exit status to the supervisor |
| supervisor (`internal/service`) | unit, job or task | register, deregister, restart by exit status | starts the shim |
| installer (`cmd/installer`) | none of its own | `install`, `uninstall`, `placeBinaries`, `ensureIdentity` | overwrites or removes every file of the agent; the service manager |
| event log and reporter (`internal/events`) | one JSON Lines file | `Append`, `trimIfOversized`, `Read`, `Deliver`, `Report` | all threads append; the poll loop drains over HTTP |
| identity (`internal/identity`) | identity file | `Create`, `Enroll`, `Save`, `SignRequest` | HTTP to the server; file to the reporter |
| fleet server (`cmd/updateserver/fleet.go`) | key table, nonce table, in memory | `handleEnroll`, `handleEvents`, `authenticate`, `expireNoncesLocked` | HTTP; concurrent handlers, one lock |
| release channel (`cmd/updateserver/channel.go`, `cmd/releasectl sign`) | the manifest file | `manifestHandler`; `sign` truncates and rewrites the file | HTTP; file |
| manifest, fsutil, launch, layout | none | verification, atomic writes, copies, exec, paths | helpers of the above |
| server `main`, demo and crash build | none of their own | flags, routes, a release that dies on purpose | not modelled |

What is hard here: a power cut may fall between any two file operations of an
update or a rollback; a file operation may fail, or be reported as failed after
it happened; whether anything runs at all depends on exit statuses and a
supervisor's policy; the health timer shares the state record and the event log
with the poll loop, without a lock; the channel answers 304 to whoever holds the
current validator and may be read while it is written; reports and replies get
lost, repeated and delayed past the server's window; an installer meets whatever
the last update left, and may itself end halfway. The hazards are listed line by
line in `PROJECT.json`.

What makes each part correct:

- *shim, staging, state*: there is a program to run after every crash; only the
  verified candidate is installed; a version that does not prove itself has a
  bounded number of starts, is then replaced by its predecessor and remembered;
  no version's trial ends without evidence; a trial ends.
- *updater*: it neither spins nor sleeps for good; every published release whose
  key the build trusts is seen; a required reinstall is reported once.
- *versions*: `Compare` is an order, so that "newer" cannot go in a circle.
- *installer*: what it copied only in part is never used; what it installed
  comes up and stays; an uninstall leaves nothing for a later install to meet.
- *events*: a recorded event reaches the server or is accounted for; the log
  does not grow without bound.
- *enrollment, server*: the service reports under an identity the server knows;
  a report is counted once, or as seldom as clocks and held-up handlers allow;
  an honest, drifting clock is tolerated; the nonce table does not grow with the
  life of the server.

## 2. The modules

- **AgentState**: `state.go`. The record and its operators. The list of failed
  versions is a sequence bounded by `MaxPoisoned` (32 in Go), the count of
  boots is capped one above `MaxBootAttempts`, since nothing looks further.
- **Policy**: `policy.go`. `Evaluate`, in the code's order of checks, over
  manifests reduced to the fields it reads. The FNV bucket of an install is the
  constant `Bucket`, one per version.
- **Agent**: one machine. Shim and program never overlap, so there is one
  process: `step` is its place in the code, `mem` its copy of the state record.
  `program`, `backup`, `staged`, `record` and `stateFile` are the files. Each
  file operation is an action; changes of memory only are joined to the file
  operation next to them. The shim's path is `ShimLoad`, `ShimRead`,
  `ApplyVerify`, `ApplyDropBackup`, `ApplyMoveAside`, `ApplyPlace`,
  `ClearStaged`, `ClearRecord`, `ResolveTrial`, `RestoreRemove`,
  `RestorePutBack`, `ShimSave`, `HandOver`, with `ApplyUndo`, `DiscardRecord`
  and `DiscardStaged` on its error paths. The program's main thread is `Poll`,
  `NoteCheck`, `Decide`, `Download`, `Preflight`, `Persist`, `Stage`, `Leave`;
  the health timer's thread is `MarkHealthy`, `HealthSave`,
  `HealthRemovesBackup`. A save marshals the record (`pollSnap`, `healthSnap`)
  and then writes it, so the two threads' saves may overlap; what the poll loop
  marshals during a commit is a mix of the trial's fields (`Torn`), because the
  record has no lock. The environment cuts the power (`ShimCrashes`), kills the
  program, makes file operations fail (`Fault`), lets broken releases die
  (`ProgramDies`) and restarts by exit status. It may also cut a candidate's
  self-check short (`CutShort`, in `Preflight`): a SIGTERM cancels its context,
  and a slow machine exceeds its 30 seconds; the code takes either for a release
  that cannot run here. `cutShort` remembers the versions whose last self-check
  ended so; like `healthy` and `launches` it is history that no action reads.
- **TrialContract**: the abstract promise. A version, whether it is on trial,
  what it replaced, its starts, the rejected versions; install, start, commit,
  roll back, reject. `Agent` implements it (`ImplementsContract`) with the
  mapping `Installed`, which hides that the binaries are swapped before the
  state file says so.
- **Install** extends `Agent` with the installer and the uninstaller. `tool` is
  the place in their code; `shimFile` and `registered` are what only they
  change. `BeginInstall` stops and deregisters the agent and ignores a refusal;
  `OpenShim`, `CopyShim`, `OpenProgram` and `CopyProgram` are `CopyFile`, which
  truncates the destination first, so that a tool that ends in between
  (`ToolStops`) leaves a torn binary; `EnsureIdentity` and `Register` end it.
  `BeginUninstall`, `RemoveShim` and `RemoveFile` take the files away one by
  one. Between the tools the agent updates itself with `Agent`'s own actions.
- **Updater**: the poll loop against the channel: conditional requests and the
  validator, `NextCheck` with the wrap-around of a `Duration`, backoff and
  jitter, the reinstall requirement, deferrals, failing downloads, the
  self-check interrupted by a shutdown, a build that stops as unsupported and
  the operator who starts it again. The channel's file is absent, half written
  (`Torn`, between `SignBegins` and `SignEnds`) or a release, signed with one of
  `Keys`; each build trusts its own `TrustedKeys`, so that keys can rotate.
  Files are abstracted to "a version is staged", which the next start brings up
  or remembers as failed.
- **Version**: the order of `version.go` over what `Parse` finds in a string,
  with the order that its comments describe as a reference. That order is not
  semantic versioning's: tags are compared as bytes, so `rc.10` is before
  `rc.9`.
- **Fleet**: the installer's enrollment, the event log with two threads at work
  on it, delivery with lost requests and replies, and the server's keys.
- **Requests**: `authenticate`. The clocks of the server and of drifting
  machines, whole-second timestamps, requests that the network repeats, delays
  and loses, concurrent handlers that check the timestamp before they take the
  lock (`Arrive`, then `Turned` or `Admit`), the nonce table and its expiry, and
  a restart that forgets both tables.
- **MCAgent**, **MCUpdater**, **MCInstall**, **MCRequests**: constants of the
  TLC instances. `Fleet` needs none of its own. `MCUpdater` also compares
  `Version`'s `Compare` with its reference and with the cases of
  `version_test.go`, as assumptions that TLC evaluates.
- **AgentStateProofs**, **AgentProofs**, **AgentRollbackProofs** (each extends
  the one before), **InstallProofs** (extends `AgentProofs`), **UpdaterProofs**,
  **RequestsProofs**, **FleetProofs**, **VersionProofs**: the theorems.

`Agent` and `Updater` both extend `Policy`, which extends `AgentState`. They
model the same `CheckNow` from two sides. In `Agent` any manifest, or none, may
answer any poll; that covers every ETag and cadence behaviour of `Updater`, so
the safety results of `Agent` do not depend on them. `Fleet` and `Requests` do
the same with the server: in `Fleet` a report is acknowledged or refused, in
`Requests` it has no content.

Definitions whose comment starts with *Faulty* are not part of any
specification. Each is a plausible bug in the definition after it, and
`PROJECT.json` names the property that notices it.

## 3. The runs

### Passing

| Run | Question | Bounds |
|---|---|---|
| `agent_trials` | Does a trial end, on evidence, within its starts, as `TrialContract` promises, and what is remembered as failed? | 4 releases: installed, good, broken, unrunnable; a recall (downgrade), a floor, an installer-only release; trials of 2 starts; list of failures of length 2; 2 kills; self-checks of 1 release cut short; no power cut, failing operation or overlap |
| `agent_failures` | Does the machine keep a program, and a trial its backup, through power cuts, failing operations and overlapping saves? | 3 releases, one broken; 2 power cuts, 1 failing operation, 1 kill, 1 overlapping save |
| `installs` | Do installer and uninstaller leave a machine that works, whatever state they meet it in? | 3 runs of either tool, 1 of which ends halfway, 1 refusal of the service manager, 1 kill; 3 releases, one broken; trials of 1 start |
| `updater_polls` | Is the loop's sleep bounded, its validator honest, every release seen, every reinstall told once? | 5 manifests, one that does not verify, two keys; 3 publications, 2 kills, 1 failing save |
| `fleet_reports` | Is a recorded event delivered or accounted for, under a known identity? | 4 events, a log of 2, 2 runs of the installer, and one each of: installer death, kill, failing operation, torn line, overlap |
| `requests_counted` | How often can a report be counted, and is it refused only for cause? | 2 installs (symmetric), clocks 2 behind, right, or 2 ahead; 2 requests of 3 copies; a window of 2, a second of 2, 5 ticks; one each of: held-up handler, damaged copy, restart |

`agent_trials`:
`ThreeChances`, `PoisonIsEarned`, `RunningNotPoisoned`, `TrialEndsOnEvidence`
(why a trial may leave the state file), `ImplementsContract` (refinement),
`TrialEnds`, `StagedIsConsumed` (liveness). The bounds make every interesting
case happen. Two kills are enough to take a good release's trial, of two starts,
to its rollback. A list of two holds the version whose self-check was cut short
next to the one that a rollback adds, and is short enough, with three releases
that can be remembered, for a failure to be forgotten. Releases 2 and 3 chain
two trials. `PoisonIsEarned` admits an interrupted self-check as a cause and
`RunningNotPoisoned` its consequence, since that is what the code does, against
its documents (see below); without either exception TLC finds a behaviour that
violates it. The three invariants hold without power cuts, failing operations
and overlaps, which the configuration excludes (`MaxCrashes`, `MaxFaults`,
`MaxOverlaps` are 0) and the theorems name.

`agent_failures`:
`TypeOK`, `HandOverFindsProgram`, `ACopySurvives`, `BackupBacksTrial`,
`LaunchesAreCounted`, `ThreeChancesWithBackup`, `PlacesWhatWasRecorded`,
`ProgramComesBack`. Two cuts allow one in the install and one in the recovery
from it, or in the rollback. One failing operation is combined with all of that.
`ACopySurvives` speaks of a single cut or failure because two are too many for
the code: after a cut between Apply's renames the backup is the only proven
copy, the next start's Apply removes it first, and if the second rename then
fails the candidate is discarded as well. `BackupBacksTrial` is here and not in
`agent_trials` because overlapping saves bear on it: one overlap, with no cut
and no failure, puts a trial back on disk whose backup `MarkHealthy` has
removed. The property makes that one exception, for a version that has proved
itself; `PreviousIsTheBackup` alone is violated.

`installs`:
`InstallTypeOK`, `TornIsNeverUsed`, `RepairHolds`, `InstallComesUp`,
`UninstallLeavesNothing`. Three tools are an install, a tool that ends halfway
or an uninstall, and the repair after it, with the agent's own updates, trials
and rollbacks in between; a trial of one start reaches its rollback at once.
`AbsentIsError` is the behaviour of `schtasks`, the stricter of the two: with it
an uninstall that ended halfway cannot be repeated. `TornIsNeverUsed` excuses a
service manager that refused to deregister the agent (the installer ignores the
error, and the agent may then start while its binaries are being copied).
`RepairHolds` excuses an install that met a staged update or a trial; see below.

`updater_polls`:
`TypeOK`, `SleepIsBounded`, `ValidatorIsAdopted`, `ReportedOnce`,
`ReleasesAreSeen`. The word has 14 bits and a second is 10 units, so that 900 s
wrap to a negative `Duration` and 1700 s to a short positive one; the fallback
interval is shorter than `MinInterval`, as in the demo, since the code does not
clamp it. The new key arrives with build 2 and the old one goes with build 3,
so that builds meet releases that only others can verify. Three publications
are needed to go on to another release and back. `ReportedOnce` excuses failing
saves, after which the code does repeat itself.

`fleet_reports`:
`TypeOK`, `NothingVanishes`, `LogIsBounded`, `InstalledIsEnrolled`,
`EventsArrive`. Three events overflow the log and the fourth makes it trim. A
torn line may take the next event with it, which `NothingVanishes` counts
exactly.

`requests_counted`:
`TypeOK`, `RepeatsAreBounded`, `TableSpansOneWindow`, `AcceptedApart`,
`DriftIsTolerated`. Five ticks are two windows and one, so that a nonce expires
while a copy of its request is on its way; a clock 2 ahead makes its timestamps
outlive their nonces, one 2 behind comes near the other end of the window. Two
requests are enough for one to expire the other's nonce. The code counts a
request twice in this run, both of a clock that is ahead with no handler held
up, and of one that is not ahead behind a handler that is (see below).
`RepeatsAreBounded` has no exception for either. It says how often a request may
be counted: each further time takes one more window, and the timestamp leaves
room for that only as far as the sender's clock is ahead, by one window at most,
and as handlers are held up. With neither, that is once.

Deadlock is checked except in the runs of `Fleet`, `Requests` and `Install`: an
installer that failed for the last time, a service with nothing to record, a
server after the last request and a machine after the last uninstall really
stop.

### Where the code does not do what its documents say

Each of these runs checks one sentence and TLC finds a behaviour of the code
that violates it. The quotations and lines are in `PROJECT.json`, "findings".

| Run | The sentence | What happens |
|---|---|---|
| `crash_in_swap` | an installed, unproven version is on trial | a power cut after `Apply` and `Clear`, before the save, leaves it running with no trial |
| `staged_on_trial` | a version that keeps dying is replaced after three tries | a version on trial stages the next one; when that is rolled back, the unproven one is back for good |
| `panic_status` | a build that panics is rolled back | a panic exits 2, which the systemd unit does not restart |
| `launchd_exit` | launchd brings the program back after exit 0 | `SuccessfulExit=false` restarts only unsuccessful exits |
| `put_off` | deferring defers to the next poll; failures are retried | the validator is already cached, so the next poll is a 304 |
| `overlap_loses` | the log is truncated only of what was acknowledged | an event appended during the request is removed unsent |

Observed while modelling, without a run of their own:

- When `Apply`'s first rename happens but is reported as failed (the flush of
  the directory failed), nothing is put back (`apply.go:38`), unlike after the
  second rename. The shim then discards the candidate and its record, and the
  only copy left is the backup (`ACopySurvives`), which nothing puts back: "a
  failed update must leave a working install" (`apply.go:44`) does not hold.
- `ClearReinstall` is in memory only when the process exits to install the
  release that supersedes the requirement, so `--status` still demands the
  installer, against `docs/PROTOCOL.md:114-115`.
- `docs/OPERATIONS.md:21-23` calls the install command a repair. The installer
  looks neither at a staged update, which is then installed over the repair, nor
  at a pending trial, which counts the repaired program's starts and may roll it
  back to the old backup. `RepairHolds` is violated without either conjunct of
  `NothingLeftOver`.
- A self-check that a SIGTERM interrupts, or that needs more than 30 seconds,
  counts as a release that fails (`updater.go:284-290`, `330-342`): the shutdown
  poisons a good release for good. The comment there says "it cannot run here",
  `state.go:45-47` calls the list "versions that failed on this machine", and
  `docs/OPERATIONS.md:218` says "It was refused or it crash-looped". It may even
  be the release that the machine falls back to: 3 is on trial over 2, a signed
  recall to 2 arrives and its self-check is interrupted, so 2 is remembered as
  failed; 3 uses up its starts, and `Restore` brings back 2. `PoisonIsEarned` and
  `RunningNotPoisoned` are violated without `cutShort`.
- Two other paths remember a version that has not failed: `Apply` fails for a
  reason of the machine (`cmd/shim/main.go:169-176`), or an uninstall that ended between
  the staged file and its record lets the next install's first start find a
  record without a file. No property covers them; `PoisonIsEarned` is checked
  where no operation fails and without the tools.
- When the installer dies between `Create` and the save of the assigned ID, or
  that save fails, the next run reuses an identity the server has never heard
  of, and every report is refused. `docs/PROTOCOL.md:151-153` and
  `cmd/installer/main.go:202-206` want such an install to fail in front of an
  administrator. `InstalledIsEnrolled` excludes both.
- A commit can be undone on disk. The poll loop and the health timer save the
  same record without a lock, and if the poll's older bytes are renamed into
  place last, after `MarkHealthy` has removed the backup (`updater.go:140-147`),
  the state file tells of a trial without one. `state.go:41-42` says
  "PreviousVersion is what BackupPath contains, retained until the pending
  version commits". The next start resumes the trial, with no version to go back to.
  `BackupBacksTrial` is violated without its exception.
- A request can be counted twice. A nonce is dropped one window after it was
  recorded, while the timestamp of a clock that is ahead is accepted for up to
  two; and a handler held up between its check of the timestamp and the lock
  finds the nonce gone. `fleet.go:209-211` says "Beyond it the timestamp check
  already rejects the request", `fleet.go:153-156` "the nonce stops replay
  inside that window", and `docs/PROTOCOL.md:122` and `176` say the same of the
  protocol. `RepeatsAreBounded` says how far it goes.
- `version.go:4` calls its order "a small subset of semver". Tags are compared
  as bytes (`version.go:105`), so `rc.10` comes before `rc.9`; for such tags the
  subset is another order.
- `service_windows.go:55-65` says that the environment is on the task's command
  line; `quotedCommand` has only the program and its arguments.
- `fleet.go:172-173` says that a drifting clock corrects itself once the client
  sees the server's time; no client reads it. `DriftIsTolerated` holds without.

## 4. Fairness

`Agent`: the supervisor restarts, the shim runs to its end, a broken release
dies, a process that is leaving exits, and a save that has begun ends; all are
weakly fair, as nothing but the process itself has to move. The health timer is
strongly fair because the bound on overlapping saves holds it back while the
poll saves; the timer of the code fires at a fixed time. Nothing is assumed of
the channel, of the next poll or of the operator, who may leave a stopped
service stopped. Kills are bounded, so a process eventually lives long enough.

`Install`: a tool that was started works on until it ends or is ended, the
supervisor starts what is registered, and the shim runs to its end (all weak).
Nobody has to start a tool.

`Updater`: the loop goes on and the process is restarted (weak fairness); a
channel that is asked again and again answers in the end (strong fairness of
`Fetch`), without which no release need ever be seen. Nobody has to finish
writing a half-written manifest, and no operator has to restart a build that
stopped as unsupported.

`Fleet`: the service is kept up, an append that has begun ends, the poll loop
comes back to deliver (strongly fair: the other thread's overlap bound may
disable it), and a server that is asked again and again acknowledges in the end
if it knows the signer. Nobody has to run the installer again and no event has
to occur.

`Requests` has only safety properties and no fairness.

## 5. What is proved

Every theorem holds for every value of the module's constants: any set of
versions and manifests, any restart policy, `MaxBootAttempts`, `MaxPoisoned`,
window, resolution and drift, and any budget of crashes, kills, faults and
repetitions, the budgets being TLC's bounds and no part of the argument. The
assumptions are the named `ASSUME`s, which type the constants and say that the
installed version itself runs; TLC evaluates them in every run.

### Agent, with everything that may go wrong (`AgentProofs`)

- `TypeCorrect`: `TypeOK` alone is not inductive: a step reads a record, an
  offer, or a staged file that an earlier step has read or verified. `TypeInv`
  adds those facts. The important one is `StagedVerified`: between `Verify` and
  the second rename nothing changes the staged file, so a partial download never
  reaches the program's path. `OnlyTheRecordedIsPlaced` follows from it.
- `AlwaysAProgram`: `Spec => []HandOverFindsProgram`. `RecoveryInv` says that
  without a program the machine is either within an install whose record and
  verified candidate are still there (`MidApply`), or within a rollback whose
  trial is spent *on disk* and whose backup is there (`MidRestore`). The second
  is the subtle one. The boot that begins a rollback is not saved first, so if
  power is cut in it, the next start has to reach the same decision from the old
  count. It does, because that count is already `MaxBootAttempts` (`TrialSpent`,
  `RestoreJustified`), so counting once more exceeds it again.
- `EveryStartIsCounted`: `LaunchesAreCounted`, power cuts included. `CountInv`
  relates the starts that happened to the counter on disk, in memory and in each
  thread's hands, while no file operation failed and no saves overlapped.
- `NoFourthChanceOverABackup`: `ThreeChancesWithBackup`, power cuts included. A
  count that includes every start limits the starts only if the shim never hands
  over to a trial that has used them up. It does when there is no backup to go
  back to, and `ChancesInv` says that it does then alone: a trial that is about
  to be saved, handed over to or running, over a backup, has starts left.
- `LastCopyIsSafe`: `ACopySurvives`. `CopyInv` follows the outgoing binary
  through its renames as long as there was at most one mishap (`AtMostOneFault`).

### Agent, when releases go wrong (`AgentRollbackProofs`)

With any power cut the trial properties are false (`crash_in_swap`). These
theorems have the hypothesis `Favourable`: no failing operation, no overlapping
saves (`Calm`), and power cuts only where they find nothing half done
(`HarmlessCuts`). Kills of the program and deaths remain, at any time and in any
number. A cut within the shim is harmless while the state file is read, while a
staged update is verified, before Apply's or Restore's first change, up to the
save that counts one more start of the same trial, between that save and the
hand-over, and throughout a start without update. Excluded is the time between
the first change of Apply or Restore and the save of the state, where the files
tell of an install or a rollback and the state does not. Apply's first change is
to drop the old backup when that is a trial's.

`RollbackInv` says, for each place in the code, whose trial is on disk and in
memory, that the backup is what it replaced, that neither has failed before, and
that there are starts left. From it: `TheBackupIsThere`, which needs
neither exception of `BackupBacksTrial`, `NoFourthChance` (with
`EveryStartIsCounted`) and `NoFailedVersionRuns`. "Failed" (`Failures`) leaves
out the versions whose last self-check was cut short: such a recall may mark the
very backup of the trial as failed, which `Restore` does not ask about, and the
rollback then runs it. The invariant says that this is the only way.

`FailureIsEarned` and `TrialsEndOnEvidence` need one hypothesis more,
`StartsFollow`: no power cut comes between the save that counts a trial's start
and that start. After such a cut a start is counted that never happened, and a
version fails with fewer than `MaxBootAttempts` real ones, which
`PoisonIsEarned` and `TrialEndsOnEvidence` deny. `EvidenceInv` states what the
hypothesis buys: the starts on record are exactly those that happened, one more
being due between `resolveTrial` and `handOver` (`ExactInv`), a rollback is
under way only for a version that had its starts (`UsedUp`), and whatever is
remembered as failed, on disk or in memory, cannot run, had its starts, or had
its last self-check cut short (`EarnedInv`).

Both hypotheses are as weak as the properties allow: with any one of the
excluded steps admitted, TLC finds one of them violated. Four of the five
properties are those of `agent_trials`, which has no cuts at all, and the fifth,
`BackupBacksTrial`, that of `agent_failures`; the theorems allow the harmless
cuts besides.

`TheContractIsKept`: `Spec /\ Favourable => ImplementsContract`, the refinement.
Initial states map to initial states, and every step is one of the contract's or
a stutter. Only the four saves can be steps of the contract
(`OthersStutter`); for them `ContractInv` says what may differ between the
record that is about to be saved and the one on disk: one start more
(`DueContinues`), another trial's first start (`DueBegins`), a rollback with the
failed version remembered (`DueEnds`), or a candidate rejected. Its other half
says that records are as `state.go` leaves them (`Orderly`: no version is
remembered twice, no more than `MaxPoisoned` are), which is what relates the
list of the code to the contract's set.

### Installer and agent together (`InstallProofs`)

`Install` runs every step of `Agent` next to those of the two tools, so its
invariant starts from the agent's: `AgentInv` is the part of `AgentProofs`'
invariants that the tools respect, `ToolsOK` the tools' own types, and the three
others are one for each promise.

- `ToolsAndAgentExclude`: `InstallTypeOK`. That the agent is only at work where
  it is registered and no tool is holds although tools die at any step, because
  each deregisters before it touches a file and only the last step of an install
  registers again. A tool never runs while the shim holds the record or the
  state in its hands (`ProcessOK`, `MemoryCleared`), which is why changing both
  under it is safe.
- `TornStaysAside`: `TornIsNeverUsed`, with `ToolInv` and `TornInv`. A torn
  program exists only while it is unregistered, and every path to a registration
  goes through a copy that succeeded.
- `RepairsHold`: `RepairHolds`, with `RepairInv`. After an install that met
  neither a staged update nor a trial, whatever is on the machine and may ever
  be started (program, backup while a trial is on, staged, recorded) is the
  package or was staged since (`OnlyRecent`, `TrialKnown`). The backup of the
  predecessor may still lie there; it is only dangerous with a trial.
- `UninstallIsComplete`: `UninstallLeavesNothing`, from the order of removal.

### The other modules

- `UpdaterProofs`: `TypeCorrect`; `ValidatorIsVerified`; `NothingIsReportedTwice`
  with `Remembered`, which ties the version told to both copies of the record;
  `TheLoopKeepsItsPace`, that is `SleepIsBounded`, from `CadenceIsBounded` and
  `ShiftedIsPositive`: a shift of one by any count is positive.
- `RequestsProofs`: `TypeCorrect`; `TableIsBounded` with `SpanInv`;
  `AcceptancesAreApart` with `ApartInv` (an acceptance is forgotten by its key,
  or still in the table, or older than the window); `RepeatsNeedWindows`, that is
  `RepeatsAreBounded`, with `RoomInv` (a timestamp is no later than the signer's
  clock, a request under way is in the window but for the time its handler is
  held up, and what was counted used up the windows between); its corollary
  `NothingCountsTwice` for a clock that is not ahead and handlers that are not
  held up; `DriftNeedsAWindow`, that is
  `DriftIsTolerated`, with `StampInv`, which bounds what cutting a timestamp to
  seconds may add to a request's age.
- `FleetProofs`: `TypeCorrect` and `EnrollmentIsNeverHalf` (that is
  `InstalledIsEnrolled`) with `FleetInv`; `LogStaysBounded` with `BoundInv`,
  which charges every operation under way to the overlap that let it begin;
  `LossIsBounded`, that is `NothingVanishes`, with `AloneInv` (without overlaps
  one operation is under way at most, and what it read is still in the log) and
  `LossInv`, which counts the events on torn lines.
- `VersionProofs`: `OlderSortsBefore` (`Compare` is the order that
  `version.go`'s comments describe, tags by bytes),
  `CompareIsAntisymmetric`, `CompareIsAWeakOrder`, `CorruptIsOldest` and
  `EqualIsOneRelease`, for all strings. They are why the other modules may
  number releases.

Two definitions are recursive functions: `Shifted` (the shift of `nextDelay`)
and `Lines` (the scan of the log). The library's induction theorems cannot be
used, and need not be. A function that is defined for all numbers up to a bound
exists, or else there is a least number it does not exist for (`LeastNumber`,
from the well-foundedness of `<` on the naturals); its predecessor's function,
extended by one value, contradicts that (`ShiftExists`, `ScanExists`). What such
a function returns is proved in the same way, by looking at the least number
for which it returns something else (`ShiftedIsPositive`, `LinesScan`).

### What TLC alone checks

Liveness and `ENABLED` are out of the prover's reach: `TrialEnds`,
`StagedIsConsumed`, `ProgramComesBack`, `ReleasesAreSeen`, `EventsArrive`,
`InstallComesUp`. Every safety property that a run checks is a theorem, and
what `MCUpdater` assumes of `Compare` for some strings, agreement with the
reference, `OlderSortsBefore` proves for all.

## 6. Not modelled, and why

- Signatures, key IDs, JSON and digests: data, replaced by "verifies or not"
  and equality of content. The conditions of `Manifest.Validate` are one flag.
- The text of unit, job and task, beyond what they restart. On Windows the shim
  waits for the program and the scheduled task restarts nothing; the restart
  policy is a constant, and no run instantiates that one.
- The length of log lines: a line above 1 MiB makes `Read` fail for good.
- The install ID in the state record, and so the rollout bucket: it is the
  constant `Bucket`. A state file that is lost draws another.
- An identity file that cannot be parsed.
- `layout`, the server's `main`, the demo, `releasectl keygen` and `verify` and
  its scan of artifacts: paths, flags and I/O with no state that outlives a
  call.

## 7. Plan

1. *Done*: the modules, runs and theorems above.
2. *Model next*: a line of the log that is too long, and what it does to
   `Append` and `Deliver`; the Windows policy; the install ID as part of the
   state, with `InRollout` monotone in the percentage; what the stale trial that
   a power cut within a rollback leaves behind does to the next update.
3. *Prove next*: what a cut within the swap leaves of the contract. Little:
   the state then tells of another trial than the files do, and a rollback may
   bring back the version that it remembers as failed. What survives every cut
   is proved (`AlwaysAProgram`, `EveryStartIsCounted`,
   `NoFourthChanceOverABackup`, `OnlyTheRecordedIsPlaced`).
