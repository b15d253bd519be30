------------------------------ MODULE Requests -------------------------------
(***************************************************************************)
(* What makes the fleet server count a signed report                       *)
(* (cmd/updateserver/fleet.go, internal/identity/identity.go): the keys of *)
(* enrolled installs, the timestamp held against the server's clock, and   *)
(* the table of nonces, on a network that delays, loses and repeats        *)
(* requests.  Module Fleet has the client's side: what is in a report and  *)
(* what becomes of the log.                                                *)
(*                                                                         *)
(* A request is known by its nonce, a number.  The server's handlers run   *)
(* concurrently; each looks at the timestamp first and takes the lock      *)
(* later, so a request may be between the two while time passes.  Keys and *)
(* nonces are in memory only and a restart forgets both.  A damaged copy   *)
(* stands for whatever fails the signature check.                          *)
(***************************************************************************)
EXTENDS Integers

CONSTANTS
    Installs,         \* the machines that enroll
    MaxClockSkew,     \* identity.MaxClockSkew
    Second,           \* the resolution of a timestamp
    Drifts,           \* how far a machine's clock may be ahead of the server's
    MaxTime,          \* bound: the server's clock
    MaxRequests,      \* bound: requests ever signed
    MaxCopies,        \* bound: arrivals of one request
    MaxStalls,        \* bound: ticks while a request is between the two checks
    MaxDamaged,       \* bound: copies that fail the signature check
    MaxRestarts       \* bound: restarts of the server

ASSUME ClockAssumption ==
    /\ MaxClockSkew \in Nat
    /\ Second \in Nat \ {0}
    /\ MaxTime \in Nat
    /\ Drifts \subseteq Int
ASSUME BudgetsAssumption ==
    /\ MaxRequests \in Nat /\ MaxCopies \in Nat
    /\ MaxStalls \in Nat /\ MaxDamaged \in Nat /\ MaxRestarts \in Nat

Nonces == 1 .. MaxRequests

Never == -1

Moments == 0 .. MaxTime

VARIABLES
    now,              \* the server's clock
    ahead,            \* each machine's clock minus the server's
    enrolled,         \* the installs that hold an identity of this server
    keys,             \* the installs the server knows: fleet.keys
    seen,             \* when each nonce was recorded, or Never: fleet.nonces
    signed,           \* how many requests have been signed
    sender,           \* who signed each
    stamp,            \* its timestamp header
    signedAt,         \* history: the server's time when it was signed
    copies,           \* copies of it that may still arrive
    handling,         \* copies whose timestamp was accepted, before the lock
    accepted,         \* history: how often it was counted
    last,             \* history: when it was last counted
    spent             \* the environment's spent budgets

requests == <<signed, sender, stamp, signedAt>>
server   == <<keys, seen>>
counts   == <<accepted, last>>
vars     == <<now, ahead, enrolled, keys, seen, signed, sender, stamp, signedAt,
              copies, handling, accepted, last, spent>>

Spend(what) == spent' = [spent EXCEPT ![what] = @ + 1]

Budgets == [stalls : 0 .. MaxStalls, damaged : 0 .. MaxDamaged,
            restarts : 0 .. MaxRestarts]

-----------------------------------------------------------------------------
(* The installs.                                                           *)

(* handleEnroll: each enrollment is a new install ID with a key of its own.*)
Enroll(i) ==
    /\ i \notin enrolled
    /\ enrolled' = enrolled \cup {i}
    /\ keys' = keys \cup {i}
    /\ UNCHANGED <<now, ahead, seen, requests, copies, handling, counts, spent>>

(* A timestamp counts whole seconds.                                       *)
WholeSeconds(s, t) == s % Second = 0 /\ s <= t /\ t < s + Second

(* SignRequest: a fresh nonce, and the time by the machine's own clock.    *)
Sign(i) ==
    /\ i \in enrolled
    /\ signed < MaxRequests
    /\ signed' = signed + 1
    /\ sender' = [sender EXCEPT ![signed'] = i]
    /\ \E s \in now + ahead[i] - Second + 1 .. now + ahead[i] :
          WholeSeconds(s, now + ahead[i]) /\ stamp' = [stamp EXCEPT ![signed'] = s]
    /\ signedAt' = [signedAt EXCEPT ![signed'] = now]
    /\ copies' = [copies EXCEPT ![signed'] = MaxCopies]
    /\ UNCHANGED <<now, ahead, enrolled, server, handling, counts, spent>>

-----------------------------------------------------------------------------
(* The server: authenticate.                                               *)

(* Faulty: the window is open to the past only.                            *)
NotFromTheFuture(n) == now - stamp[n] \in 0 .. MaxClockSkew

InWindow(n) == now - stamp[n] \in -MaxClockSkew .. MaxClockSkew

Arrives(n) == copies[n] > 0 /\ copies' = [copies EXCEPT ![n] = @ - 1]

Arrive(n) ==
    /\ Arrives(n)
    /\ InWindow(n)
    /\ handling' = [handling EXCEPT ![n] = @ + 1]
    /\ UNCHANGED <<now, ahead, enrolled, server, requests, counts, spent>>

(* "timestamp outside the accepted window": 401.                           *)
OutsideWindow(n) ==
    /\ Arrives(n)
    /\ ~InWindow(n)
    /\ UNCHANGED <<now, ahead, enrolled, server, requests, handling, counts, spent>>

Handled(n) == handling[n] > 0 /\ handling' = [handling EXCEPT ![n] = @ - 1]

Known(n) == sender[n] \in keys

(* Faulty: nonces are kept for half the window only.                       *)
ExpireEarly(table) ==
    [n \in Nonces |-> IF 2 * (now - table[n]) > MaxClockSkew THEN Never ELSE table[n]]

(* Faulty: nothing is ever dropped.                                        *)
ExpireNothing(table) == table

(* expireNoncesLocked.                                                     *)
Expire(table) ==
    [n \in Nonces |-> IF table[n] < now - MaxClockSkew THEN Never ELSE table[n]]

(* Faulty: the nonce is recorded before the install is looked up.          *)
TurnedRecording(n) ==
    /\ Handled(n)
    /\ ~Known(n) \/ seen[n] # Never
    /\ seen' = [seen EXCEPT ![n] = now]
    /\ UNCHANGED <<now, ahead, enrolled, keys, requests, copies, counts, spent>>

(* Under the lock: 401 for an unknown install or a nonce in the table.     *)
Turned(n) ==
    /\ Handled(n)
    /\ ~Known(n) \/ seen[n] # Never
    /\ UNCHANGED <<now, ahead, enrolled, server, requests, copies, counts, spent>>

(* The nonce is recorded, old ones are dropped, and the signature decides  *)
(* outside the lock.                                                       *)
Admit(n) ==
    /\ Handled(n)
    /\ Known(n) /\ seen[n] = Never
    /\ seen' = Expire([seen EXCEPT ![n] = now])
    /\ \/ /\ accepted' = [accepted EXCEPT ![n] = @ + 1]
          /\ last' = [last EXCEPT ![n] = now]
          /\ UNCHANGED spent
       \/ /\ spent.damaged < MaxDamaged
          /\ Spend("damaged")
          /\ UNCHANGED counts
    /\ UNCHANGED <<now, ahead, enrolled, keys, requests, copies>>

-----------------------------------------------------------------------------
(* Time, and the server's process.                                         *)

Busy == \E n \in Nonces : handling[n] > 0

Tick ==
    /\ now < MaxTime
    /\ now' = now + 1
    /\ IF Busy
       THEN spent.stalls < MaxStalls /\ Spend("stalls")
       ELSE UNCHANGED spent
    /\ UNCHANGED <<ahead, enrolled, server, requests, copies, handling, counts>>

(* Faulty: the keys survive a restart, the nonces do not.                  *)
RestartKeepsKeys ==
    /\ spent.restarts < MaxRestarts
    /\ Spend("restarts")
    /\ seen' = [n \in Nonces |-> Never]
    /\ handling' = [n \in Nonces |-> 0]
    /\ UNCHANGED <<now, ahead, enrolled, keys, requests, copies, counts>>

(* newFleet: both tables start empty, and no install enrolls again.        *)
Restart ==
    /\ spent.restarts < MaxRestarts
    /\ Spend("restarts")
    /\ keys' = {}
    /\ seen' = [n \in Nonces |-> Never]
    /\ handling' = [n \in Nonces |-> 0]
    /\ UNCHANGED <<now, ahead, enrolled, requests, copies, counts>>

-----------------------------------------------------------------------------
Init ==
    /\ now = 0
    /\ ahead \in [Installs -> Drifts]
    /\ enrolled = {}
    /\ keys = {}
    /\ seen = [n \in Nonces |-> Never]
    /\ signed = 0
    /\ sender \in {[n \in Nonces |-> i] : i \in Installs}
    /\ stamp = [n \in Nonces |-> 0]
    /\ signedAt = [n \in Nonces |-> 0]
    /\ copies = [n \in Nonces |-> 0]
    /\ handling = [n \in Nonces |-> 0]
    /\ accepted = [n \in Nonces |-> 0]
    /\ last = [n \in Nonces |-> 0]
    /\ spent = [stalls |-> 0, damaged |-> 0, restarts |-> 0]

Next ==
    \/ \E i \in Installs : Enroll(i) \/ Sign(i)
    \/ \E n \in Nonces : Arrive(n) \/ OutsideWindow(n) \/ Turned(n) \/ Admit(n)
    \/ Tick \/ Restart

Spec == Init /\ [][Next]_vars

-----------------------------------------------------------------------------
(* Properties.                                                             *)

(* Every table and clock holds a value of its kind; in particular nobody   *)
(* the server does not know has a place in the table of nonces.            *)
TypeOK ==
    /\ now \in Moments
    /\ ahead \in [Installs -> Drifts]
    /\ enrolled \subseteq Installs
    /\ keys \subseteq enrolled
    /\ seen \in [Nonces -> Moments \cup {Never}]
    /\ \A n \in Nonces : seen[n] # Never => Known(n)
    /\ signed \in 0 .. MaxRequests
    /\ sender \in [Nonces -> Installs]
    /\ stamp \in [Nonces -> Int]
    /\ signedAt \in [Nonces -> Moments]
    /\ copies \in [Nonces -> 0 .. MaxCopies]
    /\ handling \in [Nonces -> Nat]
    /\ accepted \in [Nonces -> Nat]
    /\ last \in [Nonces -> Moments]
    /\ spent \in Budgets

(* How often a request is counted, whatever the clocks, the handlers, the  *)
(* network and the restarts do.  Each time after the first takes more than *)
(* a window, for so long is its nonce kept.  The timestamp leaves room for *)
(* that only as far as the sender's clock is ahead (by another window at   *)
(* most, or the request is too early) and handlers are held up between the *)
(* two checks.  With neither, a request is counted once; with either,      *)
(* fleet.go counts a repeat, although "the nonce stops replay inside that  *)
(* window".                                                                *)
RepeatsAreBounded ==
    \A n \in Nonces :
        LET taken == (accepted[n] - 1) * (MaxClockSkew + 1)
            room  == MaxClockSkew + spent.stalls
        IN  accepted[n] > 0 => /\ taken <= room + ahead[sender[n]]
                               /\ taken <= room + MaxClockSkew

(* Whatever the clocks and the handlers do, a second acceptance is further *)
(* from the first than the window is long.                                 *)
AcceptedApart ==
    [][\A n \in Nonces :
          accepted[n] > 0 /\ accepted'[n] > accepted[n]
              => now - last[n] > MaxClockSkew]_vars

(* The table does not grow with the life of the server: all it holds was   *)
(* recorded within one window (expireNoncesLocked).                        *)
TableSpansOneWindow ==
    \A m, n \in Nonces :
        seen[m] # Never /\ seen[n] # Never => seen[m] - seen[n] <= MaxClockSkew

(* By the sender's own clock.                                              *)
Age(n) == now - signedAt[n] - ahead[sender[n]]

(* A report is refused for its time only when the sender's drift and the   *)
(* delay together exceed the window, up to the second that the timestamp   *)
(* cuts off ("a client with a drifting RTC should report late telemetry,   *)
(* not be locked out").                                                    *)
DriftIsTolerated ==
    [][\A n \in Nonces :
          copies'[n] < copies[n] /\ handling' = handling
              => \/ Age(n) + Second > MaxClockSkew
                 \/ -Age(n) > MaxClockSkew]_vars

=============================================================================
