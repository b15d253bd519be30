------------------------------- MODULE Fleet --------------------------------
(***************************************************************************)
(* One install and the fleet API: the installer that enrolls the machine   *)
(* (cmd/installer/main.go, internal/identity), the event log on disk and   *)
(* its delivery (internal/events), and the server that accepts reports of  *)
(* installs it knows (cmd/updateserver/fleet.go).                          *)
(*                                                                         *)
(* The service is one process at a time (shim, then program) with two      *)
(* threads that record events: the poll loop, which also delivers, and the *)
(* health timer.  An event is a number, in the order of recording; an      *)
(* unreadable line of the log is Garbage.  A key pair and an install ID    *)
(* are numbers, never issued twice.  The server keeps what it received as  *)
(* a set: an event delivered twice is recognised by its ID.  The signature *)
(* check is the comparison of the key the server holds for the install ID; *)
(* clocks, nonces and a restart of the server are module Requests'.        *)
(***************************************************************************)
EXTENDS Integers, Sequences, SequencesExt, FiniteSetsExt

CONSTANTS
    Enrolling,        \* whether -enroll is given
    MaxLog,           \* maxLogBytes, in events
    MaxEvents,        \* bound: recorded events
    MaxRuns,          \* bound: runs of the installer
    MaxAborts,        \* bound: deaths of the installer
    MaxKills,         \* bound: deaths of the service
    MaxFaults,        \* bound: failing file operations
    MaxTorn,          \* bound: appends torn by a power cut or a full disk
    MaxOverlaps,      \* bound: operations on the log that overlap another's
    None              \* no identity, no signer

ASSUME EnrollingAssumption == Enrolling \in BOOLEAN
ASSUME MaxLogAssumption == MaxLog \in Nat \ {0}
ASSUME BudgetsAssumption ==
    /\ MaxEvents \in Nat /\ MaxRuns \in Nat
    /\ MaxAborts \in Nat /\ MaxKills \in Nat
    /\ MaxFaults \in Nat /\ MaxTorn \in Nat /\ MaxOverlaps \in Nat

Threads == {"poll", "health"}

Ids == 1 .. 2 * MaxRuns

Events == 1 .. MaxEvents

Identity == [id : Ids, key : Ids]

ASSUME NoneAssumption == None \notin [id : Nat, key : Nat]

VARIABLES
    \* the installer, the identity file and the server's keys
    installer,        \* where ensureIdentity is
    identity,         \* the identity file, or None
    assigned,         \* the install ID of the server's reply, or 0
    issued,           \* how many IDs and keys have been generated
    keys,             \* the identities the server knows
    \* the service
    up,               \* whether the process runs
    signer,           \* the identity it loaded when it started, or None
    op,               \* what each thread is doing to the log
    event,            \* the event each thread is recording
    snap,             \* what each thread has read from the log
    late,             \* a report the client gave up on that may yet arrive
    \* the log and the server
    log,              \* the lines of the file
    torn,             \* the last line has no end
    received,         \* the events the server has accepted
    recorded,         \* how many events were ever to be recorded
    dropped,          \* those that could not be appended
    trimmed,          \* those dropped because the log was too long
    spent             \* the environment's spent budgets

setup   == <<installer, identity, assigned, issued, keys>>
process == <<up, signer>>
work    == <<op, event, snap>>
ledger  == <<received, recorded, dropped, trimmed>>
vars    == <<installer, identity, assigned, issued, keys, up, signer, op, event,
             snap, late, log, torn, received, recorded, dropped, trimmed, spent>>

Garbage == 0

Spend(what) == spent' = [spent EXCEPT ![what] = @ + 1]

Fault == spent.faults < MaxFaults /\ Spend("faults")

Budgets == [runs : 0 .. MaxRuns, aborts : 0 .. MaxAborts, kills : 0 .. MaxKills,
            faults : 0 .. MaxFaults, torn : 0 .. MaxTorn,
            overlaps : 0 .. MaxOverlaps]

-----------------------------------------------------------------------------
(* The installer: ensureIdentity.                                          *)

(* An identity that can be read is reused; else one is created, with a     *)
(* local ID until the server has assigned one; it may not be writable.     *)
RunInstaller ==
    /\ installer \in {"absent", "failed"}
    /\ spent.runs < MaxRuns
    /\ Spend("runs")
    /\ \/ identity # None /\ installer' = "installed" /\ UNCHANGED <<identity, issued>>
       \/ /\ identity = None
          /\ issued' = issued + 1
          /\ \/ /\ identity' = [id |-> issued', key |-> issued']
                /\ installer' = IF Enrolling THEN "enroll" ELSE "installed"
             \/ installer' = "failed" /\ UNCHANGED identity
    /\ UNCHANGED <<assigned, keys, process, work, late, log, torn, ledger>>

(* handleEnroll: a new ID for the key; the reply may be lost.              *)
ServerEnrolls ==
    /\ installer = "enroll"
    /\ issued' = issued + 1
    /\ keys' = keys \cup {[id |-> issued', key |-> identity.key]}
    /\ \/ installer' = "assign" /\ assigned' = issued'
       \/ installer' = "giveUp" /\ UNCHANGED assigned
    /\ UNCHANGED <<identity, process, work, late, log, torn, ledger, spent>>

EnrollFails ==
    /\ installer = "enroll"
    /\ installer' = "giveUp"
    /\ UNCHANGED <<identity, assigned, issued, keys, process, work, late, log,
                   torn, ledger, spent>>

(* Faulty: the identity of a failed enrollment stays.                      *)
GiveUpKeepsIdentity ==
    /\ installer = "giveUp"
    /\ installer' = "failed"
    /\ UNCHANGED <<identity, assigned, issued, keys, process, work, late, log,
                   torn, ledger, spent>>

(* The identity is removed and the install aborted; an error is ignored.   *)
GiveUp ==
    /\ installer = "giveUp"
    /\ \/ identity' = None /\ UNCHANGED spent
       \/ Fault /\ UNCHANGED identity
    /\ installer' = "failed"
    /\ UNCHANGED <<assigned, issued, keys, process, work, late, log, torn, ledger>>

SaveIdentity ==
    /\ installer = "assign"
    /\ \/ /\ identity' = [identity EXCEPT !.id = assigned]
          /\ installer' = "installed"
          /\ UNCHANGED spent
       \/ Fault /\ installer' = "failed" /\ UNCHANGED identity
    /\ assigned' = 0
    /\ UNCHANGED <<issued, keys, process, work, late, log, torn, ledger>>

InstallerDies ==
    /\ installer \in {"enroll", "assign", "giveUp"}
    /\ spent.aborts < MaxAborts
    /\ Spend("aborts")
    /\ installer' = "failed"
    /\ assigned' = 0
    /\ UNCHANGED <<identity, issued, keys, process, work, late, log, torn, ledger>>

-----------------------------------------------------------------------------
(* The service.                                                            *)

(* newReporter: the identity is loaded once.                               *)
ServiceStarts ==
    /\ installer = "installed"
    /\ ~up
    /\ up' = TRUE
    /\ signer' = identity
    /\ UNCHANGED <<setup, work, late, log, torn, ledger, spent>>

Idle == [t \in Threads |-> "idle"]

(* What a thread was recording has not reached the log.                    *)
ServiceDies ==
    /\ up
    /\ spent.kills < MaxKills
    /\ Spend("kills")
    /\ up' = FALSE
    /\ signer' = None
    /\ op' = Idle
    /\ event' = [t \in Threads |-> 0]
    /\ snap' = [t \in Threads |-> << >>]
    /\ dropped' = dropped \cup ({event[t] : t \in Threads} \ {0})
    /\ UNCHANGED <<setup, late, log, torn, received, recorded, trimmed>>

(* A thread that starts while the other is at work is an overlap.          *)
Overlapping(t) ==
    IF \E u \in Threads \ {t} : op[u] # "idle"
    THEN spent.overlaps < MaxOverlaps /\ Spend("overlaps")
    ELSE UNCHANGED spent

Finish(t) ==
    /\ op' = [op EXCEPT ![t] = "idle"]
    /\ snap' = [snap EXCEPT ![t] = << >>]

(* Log.Append gave up: the error is discarded, and so is the event.        *)
Drop(t) ==
    /\ dropped' = dropped \cup {event[t]}
    /\ event' = [event EXCEPT ![t] = 0]
    /\ Finish(t)

IsEvent(line) == line # Garbage

(* Faulty: one unreadable line fails the whole batch.                      *)
LinesOrNothing(l) == IF Garbage \in Range(l) THEN << >> ELSE l

(* Faulty: nothing is skipped.                                             *)
AllLines(l) == l

(* Log.Read scans the lines in their order and skips what it cannot parse. *)
Lines(l) ==
    LET read[n \in 0 .. Len(l)] ==
            IF n = 0 THEN << >>
            ELSE IF IsEvent(l[n]) THEN Append(read[n - 1], l[n])
            ELSE read[n - 1]
    IN  read[Len(l)]

(* Log.Append, first half: an oversized log is read to be trimmed.         *)
BeginAppend(t) ==
    /\ up
    /\ op[t] = "idle"
    /\ recorded < MaxEvents
    /\ recorded' = recorded + 1
    /\ event' = [event EXCEPT ![t] = recorded']
    /\ IF Len(log) > MaxLog
       THEN /\ op' = [op EXCEPT ![t] = "trim"]
            /\ snap' = [snap EXCEPT ![t] = Lines(log)]
       ELSE /\ op' = [op EXCEPT ![t] = "append"]
            /\ UNCHANGED snap
    /\ Overlapping(t)
    /\ UNCHANGED <<setup, process, late, log, torn, received, dropped, trimmed>>

(* Faulty: an oversized log is rewritten as it is.                         *)
EverythingOf(lines) == lines

NewestHalf(lines) == SubSeq(lines, Len(lines) \div 2 + 1, Len(lines))

(* trimIfOversized writes the newest half back, in one rename.             *)
Trim(t) ==
    /\ op[t] = "trim"
    /\ \/ /\ log' = NewestHalf(snap[t])
          /\ torn' = FALSE
          /\ trimmed' = trimmed \cup (Range(snap[t]) \ Range(log'))
          /\ op' = [op EXCEPT ![t] = "append"]
          /\ snap' = [snap EXCEPT ![t] = << >>]
          /\ UNCHANGED <<event, dropped, spent>>
       \/ /\ Fault
          /\ Drop(t)
          /\ UNCHANGED <<log, torn, trimmed>>
    /\ UNCHANGED <<setup, process, late, received, recorded>>

(* A line appended to a torn one is part of it.                            *)
Appended(line) == IF torn THEN log ELSE Append(log, line)

(* Log.Append, second half: one write.  A short write leaves a line        *)
(* without its end, and neither it nor the next one is readable.           *)
WriteLine(t) ==
    /\ op[t] = "append"
    /\ \/ /\ log' = Appended(event[t])
          /\ torn' = FALSE
          /\ event' = [event EXCEPT ![t] = 0]
          /\ Finish(t)
          /\ UNCHANGED <<dropped, spent>>
       \/ /\ spent.torn < MaxTorn
          /\ Spend("torn")
          /\ log' = Appended(Garbage)
          /\ torn' = TRUE
          /\ Drop(t)
       \/ /\ Fault
          /\ Drop(t)
          /\ UNCHANGED <<log, torn>>
    /\ UNCHANGED <<setup, process, late, received, recorded, trimmed>>

(* Log.Deliver reads everything; nothing to send is no request at all.     *)
BeginDeliver ==
    /\ up
    /\ op["poll"] = "idle"
    /\ signer # None
    /\ Lines(log) # << >>
    /\ op' = [op EXCEPT !["poll"] = "send"]
    /\ snap' = [snap EXCEPT !["poll"] = Lines(log)]
    /\ Overlapping("poll")
    /\ UNCHANGED <<setup, process, event, late, log, torn, ledger>>

(* handleEvents, authenticate: only a report signed with the key known for *)
(* its install ID counts.                                                  *)
Known == signer \in keys

Accept(batch) == received' = received \cup Range(batch)

(* Faulty: the log is cleared whatever the server answered.                *)
RefusedClears ==
    /\ op["poll"] = "send"
    /\ ~Known
    /\ op' = [op EXCEPT !["poll"] = "remove"]
    /\ UNCHANGED <<setup, process, event, snap, late, log, torn, ledger, spent>>

Acknowledged ==
    /\ op["poll"] = "send"
    /\ Known
    /\ Accept(snap["poll"])
    /\ op' = [op EXCEPT !["poll"] = "remove"]
    /\ UNCHANGED <<setup, process, event, snap, late, log, torn, recorded,
                   dropped, trimmed, spent>>

(* 401: the log is left intact.                                            *)
Refused ==
    /\ op["poll"] = "send"
    /\ ~Known
    /\ Finish("poll")
    /\ UNCHANGED <<setup, process, event, late, log, torn, ledger, spent>>

(* Unreachable, or no answer in time: the report may still arrive.         *)
Unanswered ==
    /\ op["poll"] = "send"
    /\ late' \in {late, IF Known THEN snap["poll"] ELSE << >>}
    /\ Finish("poll")
    /\ UNCHANGED <<setup, process, event, log, torn, ledger, spent>>

LateReport ==
    /\ late # << >>
    /\ Accept(late)
    /\ late' = << >>
    /\ UNCHANGED <<setup, process, work, log, torn, recorded, dropped, trimmed, spent>>

RemoveLog ==
    /\ op["poll"] = "remove"
    /\ \/ log' = << >> /\ torn' = FALSE /\ UNCHANGED spent
       \/ Fault /\ UNCHANGED <<log, torn>>
    /\ Finish("poll")
    /\ UNCHANGED <<setup, process, event, late, ledger>>

-----------------------------------------------------------------------------
Init ==
    /\ installer = "absent"
    /\ identity = None
    /\ assigned = 0
    /\ issued = 0
    /\ keys = {}
    /\ up = FALSE
    /\ signer = None
    /\ op = Idle
    /\ event = [t \in Threads |-> 0]
    /\ snap = [t \in Threads |-> << >>]
    /\ late = << >>
    /\ log = << >>
    /\ torn = FALSE
    /\ received = {}
    /\ recorded = 0
    /\ dropped = {}
    /\ trimmed = {}
    /\ spent = [runs |-> 0, aborts |-> 0, kills |-> 0, faults |-> 0, torn |-> 0,
                overlaps |-> 0]

InstallerStep == ServerEnrolls \/ EnrollFails \/ GiveUp \/ SaveIdentity

LogStep(t) == Trim(t) \/ WriteLine(t)

DeliverStep == Refused \/ Unanswered \/ RemoveLog

Next ==
    \/ RunInstaller \/ InstallerStep \/ InstallerDies
    \/ ServiceStarts \/ ServiceDies
    \/ \E t \in Threads : BeginAppend(t) \/ LogStep(t)
    \/ BeginDeliver \/ Acknowledged \/ DeliverStep
    \/ LateReport

Spec == Init /\ [][Next]_vars

(* The supervisor keeps the service up, what a thread has begun it ends,   *)
(* the poll loop delivers after every check, and a server asked again and  *)
(* again answers in the end.  Nobody has to run the installer again, and   *)
(* no event has to happen.                                                 *)
Fairness ==
    /\ WF_vars(ServiceStarts)
    /\ \A t \in Threads : WF_vars(LogStep(t))
    /\ SF_vars(BeginDeliver)
    /\ WF_vars(Acknowledged \/ DeliverStep)
    /\ SF_vars(Acknowledged)

FairSpec == Spec /\ Fairness

-----------------------------------------------------------------------------
(* Properties.                                                             *)

(* Every file, field and thread holds a value of its kind; in particular   *)
(* no unreadable line is ever part of a report.                            *)
TypeOK ==
    /\ installer \in {"absent", "enroll", "assign", "giveUp", "installed", "failed"}
    /\ identity \in Identity \cup {None}
    /\ assigned \in Ids \cup {0}
    /\ issued \in 0 .. 2 * MaxRuns
    /\ keys \subseteq Identity
    /\ up \in BOOLEAN
    /\ signer \in Identity \cup {None}
    /\ op \in [Threads -> {"idle", "trim", "append", "send", "remove"}]
    /\ event \in [Threads -> Events \cup {0}]
    /\ snap \in [Threads -> Seq(Events)]
    /\ late \in Seq(Events)
    /\ log \in Seq(Events \cup {Garbage})
    /\ torn \in BOOLEAN
    /\ received \subseteq Events
    /\ recorded \in Events \cup {0}
    /\ dropped \subseteq Events
    /\ trimmed \subseteq Events
    /\ spent \in Budgets

(* Where a recorded event may be.                                          *)
Accounted ==
    received \cup Range(log) \cup dropped \cup trimmed
        \cup {event[t] : t \in Threads}

Vanished == (1 .. recorded) \ Accounted

(* A recorded event is in the log until the server has it, through lost    *)
(* replies, kills and trimming; a torn line takes at most the next one     *)
(* with it.  Only operations that overlap may lose more.                   *)
NothingVanishes == spent.overlaps = 0 => Cardinality(Vanished) <= spent.torn

(* A crash loop or an unreachable server does not fill the disk            *)
(* (maxLogBytes), not even while both threads record.                      *)
LogIsBounded == Len(log) <= MaxLog + 1 + spent.overlaps

(* The service only runs with an identity the server knows, however often  *)
(* enrollment failed before, as long as the installer was not killed and   *)
(* no write failed ("Enrollment failure is fatal by design").              *)
InstalledIsEnrolled ==
    Enrolling /\ installer = "installed" /\ spent.aborts + spent.faults = 0
        => identity \in keys

(* What an enrolled install has logged leaves the log in the end: it is    *)
(* delivered, or trimmed to make room.                                     *)
EventsArrive ==
    \A e \in Events :
        e \in Range(log) /\ identity \in keys ~> e \notin Range(log)

-----------------------------------------------------------------------------
(* What comments and documents say and the code does not keep.             *)

(* internal/events/log.go: "Delivery reads the whole file, sends it, and   *)
(* truncates only after the server acknowledges."  No event is lost by     *)
(* recording and delivering alone.                                         *)
NothingIsLost == Vanished = {}

=============================================================================
