------------------------------ MODULE Updater -------------------------------
(***************************************************************************)
(* The poll loop of the program (internal/updater/updater.go and source.go)*)
(* and the release channel it polls (cmd/updateserver/channel.go): the     *)
(* conditional request and its ETag, the poll interval and its backoff,    *)
(* the reasons to put an update off, and the reinstall requirement.        *)
(*                                                                         *)
(* Module Agent models what happens to the files; here a staged update is  *)
(* a version, and the shim either brings it up or remembers it as failed.  *)
(* The channel's file is written by releasectl (cmd/releasectl), which     *)
(* truncates it first; each build verifies against the keys compiled into  *)
(* it.  A manifest's ETag is derived from its content.  Times are          *)
(* integers; WordHalf is 2^63 and Second 10^9 in Go.  Only the first       *)
(* MaxShift failures in a row make a difference.                           *)
(***************************************************************************)
EXTENDS Policy, FiniteSets

CONSTANTS
    InitialVersion,   \* the version that polls first
    Releases,         \* what the channel may serve; see ReleasesAssumption
    Unrunnable,       \* releases that fail the pre-flight self-check
    Keys,             \* the keys releases are signed with
    TrustedKeys,      \* the keys compiled into each build
    Second,           \* time.Second
    MinInterval,      \* MinInterval
    MaxInterval,      \* MaxInterval
    Interval,         \* Config.Interval, the fallback cadence; not clamped
    MaxShift,         \* the cap on the backoff's exponent
    WordHalf,         \* a Duration is in -WordHalf .. WordHalf - 1
    MaxPublishes,     \* bound: how often the channel changes
    MaxKills,         \* bound: how often the process is told to end, or killed
    MaxFaults,        \* bound: failing saves
    None,             \* no manifest, no ETag
    Torn              \* a manifest file that is being written

(* 1 << n: the factor of a backoff after n failures.                       *)
Shifted(n) ==
    LET bit[i \in 0 .. n] == IF i = 0 THEN 1 ELSE 2 * bit[i - 1]
    IN  bit[n]

ASSUME InitialVersionAssumption == InitialVersion \in Versions
ASSUME ReleasesAssumption ==
    \A r \in Releases : /\ r.manifest \in Manifest
                        /\ r.nextCheck \in Int
                        /\ r.key \in Keys
                        /\ r.valid \in BOOLEAN
ASSUME TrustedKeysAssumption == TrustedKeys \in [Versions -> SUBSET Keys]
ASSUME IntervalsAssumption ==
    /\ Second \in Nat \ {0}
    /\ MinInterval \in Nat /\ MaxInterval \in Nat /\ Interval \in Nat \ {0}
    /\ MinInterval <= MaxInterval
    /\ MaxShift \in Nat
    /\ WordHalf \in Nat \ {0}
    /\ MaxInterval * Shifted(MaxShift) < WordHalf
    /\ Interval * Shifted(MaxShift) < WordHalf
ASSUME BudgetsAssumption ==
    MaxPublishes \in Nat /\ MaxKills \in Nat /\ MaxFaults \in Nat
ASSUME NoneAssumption == None \notin Releases /\ Torn \notin Releases /\ None # Torn

VARIABLES
    served,           \* what the channel serves, or None
    running,          \* the version of this process
    step,             \* where the poll loop is
    etag,             \* the cached validator, or None
    offer,            \* the release being worked on, or None
    interval,         \* the current cadence
    failures,         \* failed checks in a row
    delay,            \* the sleep before the next check
    mem,              \* the state record in memory
    stateFile,        \* the state record on disk
    staged,           \* the version waiting for the shim, or NoVersion
    spent,            \* the environment's spent budgets
    putOff,           \* history: a release offered, wanted and put off
    told              \* history: the version reported as needing an installer,
                      \* until another release supersedes the requirement

loop    == <<etag, offer, interval, failures, delay>>
history == <<putOff, told>>
vars    == <<served, running, step, etag, offer, interval, failures, delay, mem,
             stateFile, staged, spent, putOff, told>>

Steps == {"poll", "decide", "report", "download", "preflight", "stage", "wait"}

Spend(what) == spent' = [spent EXCEPT ![what] = @ + 1]

-----------------------------------------------------------------------------
(* Intervals.                                                              *)

(* What a product is in a Duration's word.                                 *)
Wrap(x) == ((x + WordHalf) % (2 * WordHalf)) - WordHalf

(* Faulty: the server's wish is granted.                                   *)
NextCheckUnclamped(seconds) ==
    IF seconds <= 0 THEN Interval ELSE Wrap(seconds * Second)

(* Manifest.NextCheck.                                                     *)
NextCheck(seconds) ==
    LET d == Wrap(seconds * Second)
    IN  CASE seconds <= 0                      -> Interval
          [] seconds > 0 /\ d < MinInterval    -> MinInterval
          [] seconds > 0 /\ d > MaxInterval    -> MaxInterval
          [] OTHER                             -> d

(* The interval, doubled per failure, capped.                              *)
Backoff(d, n) ==
    LET doubled == d * Shifted(n)
    IN  IF doubled > MaxInterval THEN MaxInterval ELSE doubled

(* nextDelay: a jitter of a quarter either way; three of its outcomes.     *)
Delays(d, n) == {(Backoff(d, n) * 3) \div 4, Backoff(d, n), (Backoff(d, n) * 5) \div 4}

(* Run goes to sleep after a check; n is the new number of failures.       *)
Sleep(n) ==
    /\ failures' = n
    /\ delay' \in Delays(interval, n)
    /\ offer' = None
    /\ step' = "wait"

Succeeded == Sleep(0)

Failed == Sleep(IF failures < MaxShift THEN failures + 1 ELSE failures)

(* Updater.save: an error is only logged.                                  *)
Save(s) ==
    \/ stateFile' = s /\ UNCHANGED spent
    \/ spent.faults < MaxFaults /\ Spend("faults") /\ UNCHANGED stateFile

-----------------------------------------------------------------------------
(* The channel.                                                            *)

(* releasectl sign truncates the served file ...                           *)
SignBegins ==
    /\ spent.publishes < MaxPublishes
    /\ Spend("publishes")
    /\ served' = Torn
    /\ UNCHANGED <<running, step, loop, mem, stateFile, staged, history>>

(* ... and writes the envelope.                                            *)
SignEnds ==
    /\ served = Torn
    /\ served' \in Releases
    /\ UNCHANGED <<running, step, loop, mem, stateFile, staged, spent, history>>

(* The file is taken away.                                                 *)
Withdraw ==
    /\ served \in Releases
    /\ served' = None
    /\ UNCHANGED <<running, step, loop, mem, stateFile, staged, spent, history>>

Publish == SignBegins \/ SignEnds \/ Withdraw

(* manifest.Verify by build v: a key it trusts has signed, and the content *)
(* can be acted on.                                                        *)
Verifies(r, v) == r \in Releases /\ r.key \in TrustedKeys[v] /\ r.valid

(* Faulty: any validator at all is answered with 304.                      *)
AnyValidator == served # None /\ etag # None

(* manifestHandler answers 304 when the validator is the content's.        *)
NotModified == served # None /\ etag = served

-----------------------------------------------------------------------------
(* The poll loop.                                                          *)

(* Faulty: the validator is cached before the body is verified.            *)
FetchFailsCaching ==
    /\ step = "poll"
    /\ served \in Releases
    /\ Failed
    /\ etag' = served
    /\ UNCHANGED <<served, running, interval, mem, stateFile, staged, spent,
                   history>>

(* Unreachable, no manifest, or one that does not verify: the cached       *)
(* validator stays.                                                        *)
FetchFails ==
    /\ step = "poll"
    /\ Failed
    /\ UNCHANGED <<served, running, etag, interval, mem, stateFile, staged,
                   spent, history>>

FetchUnchanged ==
    /\ step = "poll"
    /\ NotModified
    /\ Save(mem)
    /\ Succeeded
    /\ UNCHANGED <<served, running, etag, interval, mem, staged, history>>

(* A verified manifest: its ETag is cached, its cadence adopted, the check *)
(* noted.                                                                  *)
FetchManifest ==
    /\ step = "poll"
    /\ ~NotModified /\ Verifies(served, running)
    /\ etag' = served
    /\ offer' = served
    /\ interval' = NextCheck(served.nextCheck)
    /\ Save(mem)
    /\ step' = "decide"
    /\ putOff' = None
    /\ UNCHANGED <<served, running, failures, delay, mem, staged, told>>

Decision == Evaluate(offer.manifest, running, mem)

(* exitTooStale.                                                           *)
DecideStop ==
    /\ step = "decide" /\ Decision = "stop"
    /\ step' = "stopped"
    /\ UNCHANGED <<served, running, loop, mem, stateFile, staged, spent, history>>

DecideNothing ==
    /\ step = "decide"
    /\ \/ Decision = "nothing"
       \/ /\ Decision = "reinstall"
          /\ ~FirstNeedsReinstall(mem, offer.manifest.version)
    /\ Succeeded
    /\ UNCHANGED <<served, running, etag, interval, mem, stateFile, staged,
                   spent, history>>

(* History: a requirement of another version replaces the one reported.    *)
Supersedes(v) == told' = IF told = v THEN told ELSE NoVersion

(* Faulty: the requirement is reported without being saved first.          *)
ReinstallUnsaved ==
    /\ step = "decide" /\ Decision = "reinstall"
    /\ FirstNeedsReinstall(mem, offer.manifest.version)
    /\ mem' = RequireReinstall(mem, offer.manifest.version)
    /\ Supersedes(offer.manifest.version)
    /\ step' = "report"
    /\ UNCHANGED <<served, running, loop, stateFile, staged, spent, putOff>>

(* reportReinstallRequired: remembered on disk, then reported.             *)
DecideReinstall ==
    /\ step = "decide" /\ Decision = "reinstall"
    /\ FirstNeedsReinstall(mem, offer.manifest.version)
    /\ mem' = RequireReinstall(mem, offer.manifest.version)
    /\ Save(mem')
    /\ Supersedes(offer.manifest.version)
    /\ step' = "report"
    /\ UNCHANGED <<served, running, loop, staged, putOff>>

Report ==
    /\ step = "report"
    /\ told' = offer.manifest.version
    /\ Succeeded
    /\ UNCHANGED <<served, running, etag, interval, mem, stateFile, staged,
                   spent, putOff>>

(* The application defers (no error), or the directory is not writable.    *)
PutOff == putOff' = offer

DecideApply ==
    /\ step = "decide" /\ Decision = "apply"
    /\ mem' = ClearReinstall(mem)
    /\ told' = NoVersion
    /\ \/ (Succeeded \/ Failed) /\ PutOff
       \/ /\ step' = "download"
          /\ UNCHANGED <<offer, failures, delay, putOff>>
    /\ UNCHANGED <<served, running, etag, interval, stateFile, staged, spent>>

Download ==
    /\ step = "download"
    /\ \/ /\ step' = "preflight"
          /\ UNCHANGED <<offer, failures, delay, putOff>>
       \/ Failed /\ PutOff
    /\ UNCHANGED <<served, running, etag, interval, mem, stateFile, staged,
                   spent, told>>

(* A candidate that cannot identify itself is poisoned.                    *)
Preflight ==
    /\ step = "preflight"
    /\ \/ /\ offer.manifest.version \notin Unrunnable
          /\ step' = "stage"
          /\ UNCHANGED <<offer, failures, delay, mem, stateFile, spent>>
       \/ /\ offer.manifest.version \in Unrunnable
          /\ mem' = Poison(mem, offer.manifest.version)
          /\ Save(mem')
          /\ Failed
    /\ UNCHANGED <<served, running, etag, interval, staged, history>>

(* Faulty: the loop goes on polling with an update staged.                 *)
StageGoesOn ==
    /\ step = "stage"
    /\ staged' = offer.manifest.version
    /\ Succeeded
    /\ UNCHANGED <<served, running, etag, interval, mem, stateFile, spent, history>>

(* The process ends once the record is written.                            *)
Stage ==
    /\ step = "stage"
    /\ \/ /\ staged' = offer.manifest.version
          /\ step' = "down"
          /\ UNCHANGED <<offer, failures, delay, putOff>>
       \/ Failed /\ PutOff /\ UNCHANGED staged
    /\ UNCHANGED <<served, running, etag, interval, mem, stateFile, spent, told>>

Wake ==
    /\ step = "wait"
    /\ step' = "poll"
    /\ UNCHANGED <<served, running, loop, mem, stateFile, staged, spent, history>>

-----------------------------------------------------------------------------
(* The process.                                                            *)

(* Killed anywhere.                                                        *)
Killed ==
    /\ step \in Steps
    /\ spent.kills < MaxKills
    /\ Spend("kills")
    /\ step' = "down"
    /\ UNCHANGED <<served, running, loop, mem, stateFile, staged, history>>

(* Told to end.  The cancelled context also ends a self-check under way,   *)
(* or the self-check takes longer than it may: preflight cannot tell       *)
(* either from a candidate that does not run.                              *)
SelfCheckInterrupted ==
    /\ step = "preflight"
    /\ spent.kills < MaxKills
    /\ mem' = Poison(mem, offer.manifest.version)
    /\ stateFile' = mem'
    /\ Spend("kills")
    /\ \/ step' = "down" /\ UNCHANGED <<offer, failures, delay>>
       \/ Failed
    /\ UNCHANGED <<served, running, etag, interval, staged, history>>

(* The shim has brought up what was staged, or restored what ran before    *)
(* and remembers; then New loads the state.                                *)
Launch ==
    /\ \/ /\ running' = IF staged = NoVersion THEN running ELSE staged
          /\ UNCHANGED stateFile
       \/ /\ staged # NoVersion
          /\ stateFile' = Poison(stateFile, staged)
          /\ UNCHANGED running
    /\ staged' = NoVersion
    /\ mem' = stateFile'
    /\ etag' = None
    /\ offer' = None
    /\ interval' = Interval
    /\ failures' = 0
    /\ delay' = 0
    /\ step' = "poll"
    /\ putOff' = None
    /\ UNCHANGED <<served, spent, told>>

Start == step = "down" /\ Launch

(* A build that stopped as unsupported runs again only when an operator    *)
(* starts it.                                                              *)
OperatorStarts == step = "stopped" /\ Launch

-----------------------------------------------------------------------------
Init ==
    /\ served = None
    /\ running = InitialVersion
    /\ step = "poll"
    /\ etag = None
    /\ offer = None
    /\ interval = Interval
    /\ failures = 0
    /\ delay = 0
    /\ mem = FreshState
    /\ stateFile = FreshState
    /\ staged = NoVersion
    /\ spent = [publishes |-> 0, kills |-> 0, faults |-> 0]
    /\ putOff = None
    /\ told = NoVersion

Fetch == FetchUnchanged \/ FetchManifest

Work ==
    \/ DecideStop \/ DecideNothing \/ DecideReinstall \/ Report \/ DecideApply
    \/ Download \/ Preflight \/ Stage
    \/ Wake

Next ==
    \/ Publish
    \/ FetchFails \/ Fetch
    \/ Work
    \/ Killed \/ SelfCheckInterrupted \/ Start \/ OperatorStarts

Spec == Init /\ [][Next]_vars

(* The loop and the supervisor go on by themselves, and a channel that is  *)
(* asked again and again answers in the end.                               *)
Fairness == WF_vars(Work) /\ WF_vars(Start) /\ SF_vars(Fetch)

FairSpec == Spec /\ Fairness

-----------------------------------------------------------------------------
(* Properties.                                                             *)

Working == step \in {"decide", "report", "download", "preflight", "stage"}

Budgets == [publishes : 0 .. MaxPublishes, kills : 0 .. MaxKills,
            faults : 0 .. MaxFaults]

(* Every variable holds a value of its kind; in particular the loop works  *)
(* on a release exactly where the code dereferences one, and has ended     *)
(* once an update is staged.                                               *)
TypeOK ==
    /\ served \in Releases \cup {None, Torn}
    /\ running \in Versions
    /\ step \in Steps \cup {"down", "stopped"}
    /\ etag \in Releases \cup {None}
    /\ offer \in Releases \cup {None}
    /\ Working => offer # None
    /\ interval \in Int
    /\ failures \in 0 .. MaxShift
    /\ delay \in Int
    /\ mem \in State
    /\ stateFile \in State
    /\ staged \in VersionOrNone
    /\ staged # NoVersion => step = "down"
    /\ spent \in Budgets
    /\ putOff \in Releases \cup {None}
    /\ told \in VersionOrNone

(* Whatever number a manifest asks for and however often a check fails,    *)
(* the loop neither spins nor falls asleep for good (NextCheck, nextDelay).*)
SleepIsBounded ==
    LET shortest == IF Interval < MinInterval THEN Interval ELSE MinInterval
    IN  step = "wait" => delay \in (shortest * 3) \div 4 .. (MaxInterval * 5) \div 4

(* The validator the loop sends is that of a release it has verified and   *)
(* was decided on with the cadence it asks for: a 304 never confirms       *)
(* anything else (Source.Manifest, Updater.CheckNow).                      *)
ValidatorIsAdopted ==
    etag # None => Verifies(etag, running) /\ interval = NextCheck(etag.nextCheck)

(* A release that stays published reaches every process that goes on       *)
(* polling and trusts its key, through failures, restarts, earlier         *)
(* manifests and files half written.                                       *)
ReleasesAreSeen ==
    \A r \in Releases :
        Verifies(r, running) /\ served = r ~>
            (served # r \/ etag = r \/ step = "stopped" \/ ~Verifies(r, running))

(* A version that needs an installer is reported once, restarts included,  *)
(* until a release supersedes it (reportReinstallRequired: "once per       *)
(* version rather than on every poll").                                    *)
ReportedOnce ==
    [][step = "report" /\ step' = "wait" /\ spent.faults = 0
           => told # offer.manifest.version]_vars

-----------------------------------------------------------------------------
(* What comments and documents say and the code does not keep.             *)

(* internal/updater/updater.go: "Returning false defers to the next poll". *)
(* A release put off, or whose download failed, is looked at again.        *)
PutOffIsRetried == putOff # None ~> putOff = None

=============================================================================
