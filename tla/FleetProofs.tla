---------------------------- MODULE FleetProofs -----------------------------
(***************************************************************************)
(* Theorems about module Fleet, for every size of the log and every        *)
(* budget: the types, enrollment, the length of the log, and the loss of   *)
(* events.                                                                 *)
(***************************************************************************)
EXTENDS Fleet, WellFoundedInduction, FiniteSetTheorems, SequenceTheorems, TLAPS

-----------------------------------------------------------------------------
(* What Log.Read returns.  Its loop is a recursive function, and what is   *)
(* true of it is true of the shortest log that would refute it.            *)

(* A nonempty set of numbers has a least one.                              *)
LEMMA LeastNumber ==
    ASSUME NEW T, T \subseteq Nat, T # {}
    PROVE  \E n \in T : \A m \in T : n <= m
<1>1. PICK n \in T : \A m \in T : ~ (<<m, n>> \in OpToRel(<, Nat))
  BY NatLessThanWellFounded, WFMin
<1>2. \A m \in T : ~(m < n)
  BY <1>1 DEF OpToRel
<1>3. QED BY <1>2

(* One turn of the loop.                                                   *)
Scan(l, read, n) ==
    IF n = 0 THEN << >>
    ELSE IF IsEvent(l[n]) THEN Append(read[n - 1], l[n])
    ELSE read[n - 1]

(* The loop defines a function.                                            *)
LEMMA ScanExists ==
    ASSUME NEW l, Len(l) \in Nat
    PROVE  \E read : read = [n \in 0 .. Len(l) |-> Scan(l, read, n)]
<1> DEFINE Upto(k) == \E read : read = [n \in 0 .. k |-> Scan(l, read, n)]
           T == {k \in Nat : ~Upto(k)}
<1>1. SUFFICES T = {}
  BY DEF Scan
<1>2. SUFFICES ASSUME T # {} PROVE FALSE
  OBVIOUS
<1>3. PICK k \in T : \A m \in T : k <= m
  <2>1. T \subseteq Nat
    OBVIOUS
  <2> HIDE DEF T
  <2>2. QED BY <1>2, <2>1, LeastNumber
<1>4. CASE k = 0
  <2>1. [n \in 0 .. 0 |-> << >>] = [n \in 0 .. 0 |-> Scan(l, [m \in 0 .. 0 |-> << >>], n)]
    BY DEF Scan
  <2>2. QED BY <1>3, <1>4, <2>1
<1>5. CASE k # 0
  <2>1. PICK read : read = [n \in 0 .. k - 1 |-> Scan(l, read, n)]
    <3>1. k - 1 \in Nat /\ ~(k <= k - 1)
      BY <1>3, <1>5
    <3>2. Upto(k - 1)
      BY <1>3, <3>1
    <3>3. QED BY <3>2
  <2> DEFINE more == [n \in 0 .. k |-> IF n = k THEN Scan(l, read, k) ELSE read[n]]
  <2>2. ASSUME NEW n \in 0 .. k PROVE more[n] = Scan(l, more, n)
    <3>1. k \in Nat
      BY <1>3
    <3>2. n # 0 => more[n - 1] = read[n - 1]
      BY <3>1
    <3>3. Scan(l, more, n) = Scan(l, read, n)
      BY <3>2 DEF Scan
    <3>4. CASE n = k
      BY <3>3, <3>4
    <3>5. CASE n # k
      <4>1. n \in 0 .. k - 1
        BY <3>1, <3>5
      <4>2. read[n] = Scan(l, read, n)
        BY <2>1, <4>1
      <4>3. QED BY <3>3, <3>5, <4>2
    <3>6. QED BY <3>4, <3>5
  <2>3. more = [n \in 0 .. k |-> Scan(l, more, n)]
    BY <2>2
  <2>4. QED BY <1>3, <2>3
<1>6. QED BY <1>4, <1>5

(* Log.Read is its last turn.                                              *)
LEMMA LinesScan ==
    ASSUME NEW l, Len(l) \in Nat
    PROVE  \E read : /\ read = [n \in 0 .. Len(l) |-> Scan(l, read, n)]
                     /\ Lines(l) = read[Len(l)]
<1> DEFINE read == CHOOSE read : read = [n \in 0 .. Len(l) |-> Scan(l, read, n)]
<1>1. read = [n \in 0 .. Len(l) |-> Scan(l, read, n)]
  BY ScanExists
<1>2. Lines(l) = read[Len(l)]
  BY DEF Lines, Scan
<1>3. QED BY <1>1, <1>2

(* Appending adds the element, and nothing else.                           *)
LEMMA RangeOfAppend ==
    ASSUME NEW S, NEW s \in Seq(S), NEW e \in S
    PROVE  Range(Append(s, e)) = Range(s) \cup {e}
<1> DEFINE a == Append(s, e)
<1>1. /\ DOMAIN a = 1 .. Len(s) + 1 /\ DOMAIN s = 1 .. Len(s) /\ Len(s) \in Nat
      /\ \A i \in 1 .. Len(s) : a[i] = s[i]
      /\ a[Len(s) + 1] = e
  OBVIOUS
<1> HIDE DEF a
<1>2. Range(a) \subseteq Range(s) \cup {e}
  BY <1>1 DEF Range
<1>3. Range(s) \cup {e} \subseteq Range(a)
  BY <1>1 DEF Range
<1>4. QED BY <1>2, <1>3 DEF a

(* What Log.Read returns: readable lines only, all of them, and no more    *)
(* than there are lines.                                                   *)
LEMMA LinesAreReadable ==
    ASSUME NEW S, NEW l \in Seq(S)
    PROVE  /\ Lines(l) \in Seq(S \ {Garbage})
           /\ Range(Lines(l)) = Range(l) \ {Garbage}
           /\ Len(Lines(l)) <= Len(l)
<1>1. PICK read : /\ read = [n \in 0 .. Len(l) |-> Scan(l, read, n)]
                  /\ Lines(l) = read[Len(l)]
  BY LinesScan
<1> DEFINE Right(n) == /\ read[n] \in Seq(S \ {Garbage})
                       /\ Range(read[n]) = {l[m] : m \in 1 .. n} \ {Garbage}
                       /\ Len(read[n]) <= n
           T == {n \in 0 .. Len(l) : ~Right(n)}
<1>2. T = {}
  <2>1. SUFFICES ASSUME T # {} PROVE FALSE
    OBVIOUS
  <2>2. PICK n \in T : \A m \in T : n <= m
    <3>1. T \subseteq Nat
      OBVIOUS
    <3> HIDE DEF T
    <3>2. QED BY <2>1, <3>1, LeastNumber
  <2>3. n \in 0 .. Len(l) /\ read[n] = Scan(l, read, n) /\ ~Right(n)
    BY <1>1, <2>2
  <2>4. CASE n = 0
    <3>1. read[n] = << >>
      BY <2>3, <2>4 DEF Scan
    <3>2. Right(n)
      BY <2>4, <3>1 DEF Range
    <3>3. QED BY <2>3, <3>2
  <2>5. CASE n # 0
    <3>1. n \in 1 .. Len(l) /\ n - 1 \in 0 .. Len(l) /\ ~(n <= n - 1) /\ l[n] \in S
      BY <2>3, <2>5
    <3>2. Right(n - 1)
      BY <2>2, <3>1
    <3>3. {l[m] : m \in 1 .. n} = {l[m] : m \in 1 .. n - 1} \cup {l[n]}
      BY <3>1
    <3> HIDE DEF T
    <3>4. CASE l[n] = Garbage
      <4>1. read[n] = read[n - 1]
        BY <2>3, <2>5, <3>4 DEF Scan, IsEvent
      <4>2. QED BY <2>3, <3>1, <3>2, <3>3, <3>4, <4>1
    <3>5. CASE l[n] # Garbage
      <4>1. read[n] = Append(read[n - 1], l[n])
        BY <2>3, <2>5, <3>5 DEF Scan, IsEvent
      <4>2. read[n] \in Seq(S \ {Garbage}) /\ Len(read[n]) = Len(read[n - 1]) + 1
        BY <3>1, <3>2, <3>5, <4>1
      <4>3. Range(read[n]) = Range(read[n - 1]) \cup {l[n]}
        BY <3>2, <3>1, <3>5, <4>1, RangeOfAppend
      <4>4. QED BY <2>3, <3>1, <3>2, <3>3, <3>5, <4>2, <4>3
    <3>6. QED BY <3>4, <3>5
  <2>6. QED BY <2>4, <2>5
<1>3. Right(Len(l))
  <2>1. Len(l) \in 0 .. Len(l)
    OBVIOUS
  <2>2. QED BY <1>2, <2>1
<1>4. Range(l) = {l[m] : m \in 1 .. Len(l)}
  BY DEF Range
<1>5. QED BY <1>1, <1>3, <1>4

-----------------------------------------------------------------------------
(* The types, and what they rest on: every run of the installer issues at  *)
(* most two IDs, one that waits for the server has an identity, one that   *)
(* saves has been assigned an ID, and a thread holds an event as long as   *)
(* it records it.                                                          *)

SetupOK ==
    /\ installer \in {"absent", "enroll", "assign", "giveUp", "installed", "failed"}
    /\ identity \in Identity \cup {None}
    /\ assigned \in Ids \cup {0}
    /\ issued \in 0 .. 2 * MaxRuns
    /\ keys \subseteq Identity
    /\ issued + (IF installer = "enroll" THEN 1 ELSE 0) <= 2 * spent.runs
    /\ installer \in {"enroll", "assign"} => identity # None
    /\ installer = "assign" => assigned # 0

WorkOK ==
    /\ op \in [Threads -> {"idle", "trim", "append", "send", "remove"}]
    /\ event \in [Threads -> Events \cup {0}]
    /\ snap \in [Threads -> Seq(Events)]
    /\ \A t \in Threads : event[t] # 0 <=> op[t] \in {"trim", "append"}

LedgerOK ==
    /\ late \in Seq(Events)
    /\ log \in Seq(Events \cup {Garbage})
    /\ torn \in BOOLEAN
    /\ received \subseteq Events
    /\ recorded \in Events \cup {0}
    /\ dropped \subseteq Events
    /\ trimmed \subseteq Events

ServiceOK == up \in BOOLEAN /\ signer \in Identity \cup {None}

FleetInv == SetupOK /\ ServiceOK /\ WorkOK /\ LedgerOK /\ spent \in Budgets

LEMMA FleetInit == Init => FleetInv
<1> SUFFICES ASSUME Init PROVE FleetInv
  OBVIOUS
<1> USE BudgetsAssumption DEF Init
<1>1. spent \in Budgets
  BY DEF Budgets
<1>2. SetupOK
  BY DEF SetupOK
<1>3. WorkOK
  BY DEF WorkOK, Idle
<1>4. LedgerOK /\ ServiceOK
  <2>1. \A S : << >> \in Seq(S)
    OBVIOUS
  <2>2. QED BY <2>1 DEF LedgerOK, ServiceOK
<1>5. QED BY <1>1, <1>2, <1>3, <1>4 DEF FleetInv

(* A step that spends stays within its budget.                             *)
LEMMA WithinBudget ==
    ASSUME spent \in Budgets,
           \/ UNCHANGED spent
           \/ Spend("runs") /\ spent.runs < MaxRuns
           \/ Spend("aborts") /\ spent.aborts < MaxAborts
           \/ Spend("kills") /\ spent.kills < MaxKills
           \/ Spend("faults") /\ spent.faults < MaxFaults
           \/ Spend("torn") /\ spent.torn < MaxTorn
           \/ Spend("overlaps") /\ spent.overlaps < MaxOverlaps
    PROVE  /\ spent' \in Budgets
           /\ spent'.runs >= spent.runs
<1> USE BudgetsAssumption DEF Spend, Budgets
<1>1. CASE UNCHANGED spent
  BY <1>1
<1>2. CASE Spend("runs") /\ spent.runs < MaxRuns
  BY <1>2
<1>3. CASE Spend("aborts") /\ spent.aborts < MaxAborts
  BY <1>3
<1>4. CASE Spend("kills") /\ spent.kills < MaxKills
  BY <1>4
<1>5. CASE Spend("faults") /\ spent.faults < MaxFaults
  BY <1>5
<1>6. CASE Spend("torn") /\ spent.torn < MaxTorn
  BY <1>6
<1>7. CASE Spend("overlaps") /\ spent.overlaps < MaxOverlaps
  BY <1>7
<1>8. QED BY <1>1, <1>2, <1>3, <1>4, <1>5, <1>6, <1>7

(* The installer, and what it leaves alone.                                *)
LEMMA InstallerTypes ==
    ASSUME FleetInv, RunInstaller \/ InstallerStep \/ InstallerDies
    PROVE  /\ SetupOK' /\ spent' \in Budgets
           /\ UNCHANGED <<process, work, late, log, torn, ledger>>
<1> USE BudgetsAssumption
<1>1. CASE RunInstaller
  <2>1. /\ spent' \in Budgets /\ spent'.runs = spent.runs + 1
        /\ spent.runs \in 0 .. MaxRuns - 1
    BY <1>1, WithinBudget DEF RunInstaller, FleetInv, Spend, Budgets
  <2>2. CASE identity # None
    BY <1>1, <2>1, <2>2 DEF RunInstaller, FleetInv, SetupOK
  <2>3. CASE identity = None
    <3>1. issued' = issued + 1 /\ issued' \in Ids /\ issued' <= 2 * spent'.runs - 1
      BY <1>1, <2>1, <2>3 DEF RunInstaller, FleetInv, SetupOK, Ids
    <3>2. [id |-> issued', key |-> issued'] \in Identity
      BY <3>1 DEF Identity
    <3>3. [id |-> issued', key |-> issued'] # None
      BY <3>1, NoneAssumption DEF Ids
    <3>4. issued' \in 0 .. 2 * MaxRuns
      BY <3>1 DEF Ids
    <3>5. QED
      BY <1>1, <2>1, <2>3, <3>1, <3>2, <3>3, <3>4 DEF RunInstaller, FleetInv, SetupOK
  <2>4. UNCHANGED <<process, work, late, log, torn, ledger>>
    BY <1>1 DEF RunInstaller
  <2>5. QED BY <2>1, <2>2, <2>3, <2>4
<1>2. CASE ServerEnrolls
  <2>1. issued' \in Ids /\ issued' <= 2 * spent'.runs /\ issued' \in 0 .. 2 * MaxRuns
    BY <1>2 DEF ServerEnrolls, FleetInv, SetupOK, Ids, Budgets
  <2>2. [id |-> issued', key |-> identity.key] \in Identity
    BY <1>2, <2>1 DEF ServerEnrolls, FleetInv, SetupOK, Identity
  <2>3. issued' # 0
    BY <2>1 DEF Ids
  <2>4. QED BY <1>2, <2>1, <2>2, <2>3 DEF ServerEnrolls, FleetInv, SetupOK
<1>3. CASE EnrollFails
  BY <1>3 DEF EnrollFails, FleetInv, SetupOK, Budgets
<1>4. CASE GiveUp
  <2>1. spent' \in Budgets /\ spent'.runs = spent.runs
    BY <1>4, WithinBudget DEF GiveUp, Fault, FleetInv, Spend, Budgets
  <2>2. QED BY <1>4, <2>1 DEF GiveUp, FleetInv, SetupOK
<1>5. CASE SaveIdentity
  <2>1. spent' \in Budgets /\ spent'.runs = spent.runs
    BY <1>5, WithinBudget DEF SaveIdentity, Fault, FleetInv, Spend, Budgets
  <2>2. [identity EXCEPT !.id = assigned] \in Identity
    BY <1>5 DEF SaveIdentity, FleetInv, SetupOK, Identity
  <2>3. QED BY <1>5, <2>1, <2>2 DEF SaveIdentity, FleetInv, SetupOK
<1>6. CASE InstallerDies
  <2>1. spent' \in Budgets /\ spent'.runs = spent.runs
    BY <1>6, WithinBudget DEF InstallerDies, FleetInv, Spend, Budgets
  <2>2. SetupOK'
    BY <1>6, <2>1 DEF InstallerDies, FleetInv, SetupOK, Budgets
  <2>3. QED BY <1>6, <2>1, <2>2 DEF InstallerDies
<1>7. QED
  BY <1>1, <1>2, <1>3, <1>4, <1>5, <1>6 DEF InstallerStep

ServiceStep ==
    \/ ServiceStarts \/ ServiceDies
    \/ \E t \in Threads : BeginAppend(t) \/ LogStep(t)
    \/ BeginDeliver \/ Acknowledged \/ DeliverStep
    \/ LateReport

(* What the threads of the service do is no concern of the installer's.    *)
LEMMA ServiceKeepsSetup ==
    ASSUME ServiceStep
    PROVE  /\ UNCHANGED setup
           /\ \/ UNCHANGED spent
              \/ \E what \in {"kills", "faults", "torn", "overlaps"} : Spend(what)
<1>1. CASE ServiceStarts
  BY <1>1 DEF ServiceStarts
<1>2. CASE ServiceDies
  BY <1>2 DEF ServiceDies
<1>3. ASSUME NEW t \in Threads, BeginAppend(t)
      PROVE  UNCHANGED setup /\ (UNCHANGED spent \/ Spend("overlaps"))
  BY <1>3 DEF BeginAppend, Overlapping
<1>4. ASSUME NEW t \in Threads, Trim(t)
      PROVE  UNCHANGED setup /\ (UNCHANGED spent \/ Spend("faults"))
  BY <1>4 DEF Trim, Fault
<1>5. ASSUME NEW t \in Threads, WriteLine(t)
      PROVE  UNCHANGED setup /\ (UNCHANGED spent \/ Spend("faults") \/ Spend("torn"))
  BY <1>5 DEF WriteLine, Fault
<1>6. CASE BeginDeliver
  <2>1. UNCHANGED setup /\ Overlapping("poll")
    BY <1>6 DEF BeginDeliver
  <2>2. QED BY <2>1 DEF Overlapping
<1>7. CASE Acknowledged
  BY <1>7 DEF Acknowledged
<1>8. CASE DeliverStep
  BY <1>8 DEF DeliverStep, Refused, Unanswered, RemoveLog, Fault
<1>9. CASE LateReport
  BY <1>9 DEF LateReport
<1>10. QED
  BY <1>1, <1>2, <1>3, <1>4, <1>5, <1>6, <1>7, <1>8, <1>9 DEF ServiceStep, LogStep

(* What a thread reads: the events of the log.                             *)
LEMMA LogLines ==
    ASSUME LedgerOK
    PROVE  /\ Lines(log) \in Seq(Events)
           /\ Range(Lines(log)) = Range(log) \ {Garbage}
           /\ Len(Lines(log)) <= Len(log)
<1>1. (Events \cup {Garbage}) \ {Garbage} = Events
  BY DEF Events, Garbage
<1>2. log \in Seq(Events \cup {Garbage})
  BY DEF LedgerOK
<1>3. QED BY <1>1, <1>2, LinesAreReadable

(* A thread that is done.                                                  *)
LEMMA FinishTypes ==
    ASSUME WorkOK, NEW t \in Threads, Finish(t),
           \/ event' = [event EXCEPT ![t] = 0]
           \/ event' = event /\ op[t] \in {"send", "remove"}
    PROVE  WorkOK'
<1>1. << >> \in Seq(Events)
  OBVIOUS
<1>2. /\ op' \in [Threads -> {"idle", "trim", "append", "send", "remove"}]
      /\ snap' \in [Threads -> Seq(Events)]
      /\ event' \in [Threads -> Events \cup {0}]
  BY <1>1 DEF WorkOK, Finish
<1>3. \A u \in Threads : event'[u] # 0 <=> op'[u] \in {"trim", "append"}
  BY DEF WorkOK, Finish
<1>4. QED BY <1>2, <1>3 DEF WorkOK

(* What a thread reads from the log, appends, trims and drops is an event. *)
LEMMA BeginTypes ==
    ASSUME FleetInv, NEW t \in Threads, BeginAppend(t)
    PROVE  WorkOK' /\ LedgerOK' /\ spent' \in Budgets
<1>1. recorded' \in Events /\ recorded' # 0
  BY BudgetsAssumption DEF BeginAppend, FleetInv, LedgerOK, Events
<1>2. Lines(log) \in Seq(Events)
  BY LogLines DEF FleetInv
<1>3. spent' \in Budgets
  BY WithinBudget DEF BeginAppend, Overlapping, FleetInv
<1>4. WorkOK'
  BY <1>1, <1>2 DEF BeginAppend, FleetInv, WorkOK
<1>5. LedgerOK'
  BY <1>1 DEF BeginAppend, FleetInv, LedgerOK
<1>6. QED BY <1>3, <1>4, <1>5

(* The event of a thread that records is one.                              *)
LEMMA DropTypes ==
    ASSUME FleetInv, NEW t \in Threads, Drop(t), op[t] \in {"trim", "append"}
    PROVE  WorkOK' /\ dropped' \subseteq Events
<1>1. WorkOK'
  BY FinishTypes DEF Drop, FleetInv
<1>2. event[t] \in Events
  BY DEF FleetInv, WorkOK
<1>3. QED BY <1>1, <1>2 DEF Drop, FleetInv, LedgerOK

(* The end of a sequence, and its newest half.                             *)
LEMMA SuffixTypes ==
    ASSUME NEW S, NEW s \in Seq(S), NEW m \in 0 .. Len(s)
    PROVE  /\ SubSeq(s, m + 1, Len(s)) \in Seq(S)
           /\ Range(SubSeq(s, m + 1, Len(s))) \subseteq Range(s)
           /\ Len(SubSeq(s, m + 1, Len(s))) = Len(s) - m
<1>1. PICK N \in Nat : N = Len(s) /\ m \in Nat /\ m <= N /\ DOMAIN s = 1 .. N
  OBVIOUS
<1> DEFINE h == SubSeq(s, m + 1, N)
<1>2. /\ h \in Seq(S)
      /\ Len(h) = IF m + 1 <= N THEN N - (m + 1) + 1 ELSE 0
      /\ \A i \in 1 .. N - (m + 1) + 1 : h[i] = s[(m + 1) + i - 1]
  <2>1. m + 1 \in Int /\ N \in Int
    BY <1>1
  <2>2. \A i \in m + 1 .. N : s[i] \in S
    BY <1>1
  <2>3. QED BY <2>1, <2>2, SubSeqProperties
<1> HIDE DEF h
<1>3. Len(h) = N - m
  BY ONLY <1>1, <1>2, N \in Nat
<1>4. DOMAIN h = 1 .. N - m
  BY <1>2, <1>3
<1>5. \A i \in 1 .. N - m : h[i] = s[m + i] /\ m + i \in 1 .. N
  BY ONLY <1>1, <1>2, N \in Nat
<1>6. Range(h) \subseteq Range(s)
  BY <1>1, <1>4, <1>5 DEF Range
<1>7. QED BY <1>1, <1>2, <1>3, <1>6 DEF h

LEMMA HalfTypes ==
    ASSUME NEW S, NEW s \in Seq(S)
    PROVE  /\ NewestHalf(s) \in Seq(S)
           /\ Range(NewestHalf(s)) \subseteq Range(s)
           /\ Len(NewestHalf(s)) = Len(s) - Len(s) \div 2
<1>1. Len(s) \div 2 \in 0 .. Len(s)
  OBVIOUS
<1>2. QED BY <1>1, SuffixTypes DEF NewestHalf

LEMMA TrimTypes ==
    ASSUME FleetInv, NEW t \in Threads, Trim(t)
    PROVE  WorkOK' /\ LedgerOK' /\ spent' \in Budgets
<1>1. spent' \in Budgets
  BY WithinBudget DEF Trim, Fault, FleetInv
<1>2. CASE /\ log' = NewestHalf(snap[t]) /\ torn' = FALSE
           /\ trimmed' = trimmed \cup (Range(snap[t]) \ Range(log'))
           /\ op' = [op EXCEPT ![t] = "append"]
           /\ snap' = [snap EXCEPT ![t] = << >>]
           /\ UNCHANGED <<event, dropped>>
  <2>1. snap[t] \in Seq(Events) /\ << >> \in Seq(Events)
    BY DEF FleetInv, WorkOK
  <2>2. log' \in Seq(Events \cup {Garbage})
    <3>1. log' \in Seq(Events)
      BY <1>2, <2>1, HalfTypes
    <3>2. QED BY <3>1
  <2>3. Range(snap[t]) \subseteq Events
    BY <2>1 DEF Range
  <2>4. op[t] = "trim"
    BY DEF Trim
  <2>5. WorkOK'
    BY <1>2, <2>1, <2>4 DEF FleetInv, WorkOK
  <2>6. LedgerOK'
    BY <1>2, <2>2, <2>3 DEF Trim, FleetInv, LedgerOK
  <2>7. QED BY <1>1, <2>5, <2>6
<1>3. CASE Drop(t) /\ UNCHANGED <<log, torn, trimmed>>
  <2>1. WorkOK' /\ dropped' \subseteq Events
    BY <1>3, DropTypes DEF Trim
  <2>2. QED BY <1>1, <1>3, <2>1 DEF Trim, FleetInv, LedgerOK
<1>4. QED BY <1>2, <1>3 DEF Trim

LEMMA AppendedTypes ==
    ASSUME LedgerOK, NEW e \in Events \cup {Garbage}
    PROVE  /\ Appended(e) \in Seq(Events \cup {Garbage})
           /\ Len(Appended(e)) <= Len(log) + 1
           /\ Range(log) \subseteq Range(Appended(e))
           /\ Range(Appended(e)) \subseteq Range(log) \cup {e}
           /\ ~torn => e \in Range(Appended(e))
<1>1. log \in Seq(Events \cup {Garbage})
  BY DEF LedgerOK
<1>2. CASE torn
  BY <1>1, <1>2 DEF Appended
<1>3. CASE ~torn
  <2>1. /\ Append(log, e) \in Seq(Events \cup {Garbage})
        /\ Len(Append(log, e)) = Len(log) + 1 /\ Len(log) \in Nat
    BY <1>1
  <2>2. Range(Append(log, e)) = Range(log) \cup {e}
    BY <1>1, RangeOfAppend
  <2>3. QED BY <1>3, <2>1, <2>2 DEF Appended
<1>4. QED BY <1>2, <1>3

LEMMA WriteTypes ==
    ASSUME FleetInv, NEW t \in Threads, WriteLine(t)
    PROVE  WorkOK' /\ LedgerOK' /\ spent' \in Budgets
<1>1. spent' \in Budgets
  BY WithinBudget DEF WriteLine, Fault, FleetInv
<1>2. event[t] \in Events \cup {Garbage}
  BY DEF FleetInv, WorkOK, Garbage
<1>3. CASE log' = Appended(event[t]) /\ torn' = FALSE /\ UNCHANGED dropped /\ Finish(t)
           /\ event' = [event EXCEPT ![t] = 0]
  <2>1. WorkOK'
    BY <1>3, FinishTypes DEF FleetInv
  <2>2. log' \in Seq(Events \cup {Garbage})
    BY <1>2, <1>3, AppendedTypes DEF FleetInv
  <2>3. QED BY <1>1, <1>3, <2>1, <2>2 DEF WriteLine, FleetInv, LedgerOK
<1>4. CASE Drop(t) /\ \/ log' = Appended(Garbage) /\ torn' = TRUE
                      \/ UNCHANGED <<log, torn>>
  <2>1. WorkOK' /\ dropped' \subseteq Events
    BY <1>4, DropTypes DEF WriteLine
  <2>2. log' \in Seq(Events \cup {Garbage}) /\ torn' \in BOOLEAN
    <3>1. LedgerOK /\ Garbage \in Events \cup {Garbage}
      BY DEF FleetInv
    <3>2. QED BY <1>4, <3>1, AppendedTypes DEF LedgerOK
  <2>3. QED BY <1>1, <2>1, <2>2 DEF WriteLine, FleetInv, LedgerOK
<1>5. QED BY <1>3, <1>4 DEF WriteLine

LEMMA DeliverTypes ==
    ASSUME FleetInv, BeginDeliver \/ Acknowledged \/ DeliverStep \/ LateReport
    PROVE  WorkOK' /\ LedgerOK' /\ spent' \in Budgets
<1>1. << >> \in Seq(Events) /\ << >> \in Seq(Events \cup {Garbage})
  OBVIOUS
<1>2. "poll" \in Threads /\ snap["poll"] \in Seq(Events) /\ late \in Seq(Events)
  BY DEF Threads, FleetInv, WorkOK, LedgerOK
<1>3. Range(snap["poll"]) \subseteq Events /\ Range(late) \subseteq Events
  BY <1>2 DEF Range
<1>4. CASE BeginDeliver
  <2>1. spent' \in Budgets
    BY <1>4, WithinBudget DEF BeginDeliver, Overlapping, FleetInv
  <2>2. Lines(log) \in Seq(Events)
    BY LogLines DEF FleetInv
  <2>3. WorkOK'
    BY <1>2, <1>4, <2>2 DEF BeginDeliver, FleetInv, WorkOK
  <2>4. LedgerOK'
    BY <1>4 DEF BeginDeliver, FleetInv, LedgerOK, ledger
  <2>5. QED BY <2>1, <2>3, <2>4
<1>5. CASE Acknowledged
  <2>1. WorkOK'
    BY <1>2, <1>5 DEF Acknowledged, FleetInv, WorkOK
  <2>2. LedgerOK' /\ spent' \in Budgets
    BY <1>3, <1>5 DEF Acknowledged, Accept, FleetInv, LedgerOK
  <2>3. QED BY <2>1, <2>2
<1>6. CASE DeliverStep
  <2>1. Finish("poll") /\ event' = event /\ op["poll"] \in {"send", "remove"}
    BY <1>6 DEF DeliverStep, Refused, Unanswered, RemoveLog
  <2>2. WorkOK'
    BY <1>2, <2>1, FinishTypes DEF FleetInv
  <2>3. spent' \in Budgets
    BY <1>6, WithinBudget DEF DeliverStep, Refused, Unanswered, RemoveLog, Fault, FleetInv
  <2>4. LedgerOK'
    BY <1>1, <1>2, <1>6
       DEF DeliverStep, Refused, Unanswered, RemoveLog, FleetInv, LedgerOK, ledger
  <2>5. QED BY <2>2, <2>3, <2>4
<1>7. CASE LateReport
  <2>1. WorkOK'
    BY <1>7 DEF LateReport, work, FleetInv, WorkOK
  <2>2. LedgerOK' /\ spent' \in Budgets
    BY <1>1, <1>3, <1>7 DEF LateReport, Accept, FleetInv, LedgerOK
  <2>3. QED BY <2>1, <2>2
<1>8. QED BY <1>4, <1>5, <1>6, <1>7

LEMMA ProcessTypes ==
    ASSUME FleetInv, ServiceStarts \/ ServiceDies
    PROVE  ServiceOK' /\ WorkOK' /\ LedgerOK' /\ spent' \in Budgets
<1>1. CASE ServiceStarts
  BY <1>1 DEF ServiceStarts, setup, work, ledger, FleetInv, SetupOK, ServiceOK,
              WorkOK, LedgerOK
<1>2. CASE ServiceDies
  <2>1. spent' \in Budgets
    BY <1>2, WithinBudget DEF ServiceDies, FleetInv
  <2>2. << >> \in Seq(Events)
    OBVIOUS
  <2>3. ServiceOK' /\ WorkOK'
    BY <1>2, <2>2 DEF ServiceDies, Idle, ServiceOK, WorkOK
  <2>4. {event[t] : t \in Threads} \ {0} \subseteq Events
    BY DEF FleetInv, WorkOK
  <2>5. LedgerOK'
    BY <1>2, <2>4 DEF ServiceDies, FleetInv, LedgerOK
  <2>6. QED BY <2>1, <2>3, <2>5
<1>3. QED BY <1>1, <1>2

LEMMA FleetStep == FleetInv /\ [Next]_vars => FleetInv'
<1> SUFFICES ASSUME FleetInv, [Next]_vars PROVE FleetInv'
  OBVIOUS
<1>1. CASE RunInstaller \/ InstallerStep \/ InstallerDies
  <2>1. /\ SetupOK' /\ spent' \in Budgets
        /\ UNCHANGED <<process, work, late, log, torn, ledger>>
    BY <1>1, InstallerTypes
  <2>2. ServiceOK' /\ WorkOK' /\ LedgerOK'
    BY <2>1 DEF process, work, ledger, FleetInv, ServiceOK, WorkOK, LedgerOK
  <2>3. QED BY <2>1, <2>2 DEF FleetInv
<1>2. CASE ServiceStep
  <2>1. ServiceOK' /\ WorkOK' /\ LedgerOK' /\ spent' \in Budgets
    <3>1. CASE ServiceStarts \/ ServiceDies
      BY <3>1, ProcessTypes
    <3>2. ASSUME NEW t \in Threads, BeginAppend(t) \/ LogStep(t) PROVE <2>1!:
      <4>1. UNCHANGED process
        BY <3>2 DEF BeginAppend, LogStep, Trim, WriteLine
      <4>2. QED
        BY <3>2, <4>1, BeginTypes, TrimTypes, WriteTypes
           DEF LogStep, process, FleetInv, ServiceOK
    <3>3. CASE BeginDeliver \/ Acknowledged \/ DeliverStep \/ LateReport
      <4>1. UNCHANGED process
        BY <3>3 DEF BeginDeliver, Acknowledged, DeliverStep, Refused, Unanswered,
                    RemoveLog, LateReport
      <4>2. QED BY <3>3, <4>1, DeliverTypes DEF process, FleetInv, ServiceOK
    <3>4. QED BY <1>2, <3>1, <3>2, <3>3 DEF ServiceStep
  <2>2. SetupOK'
    <3>1. /\ UNCHANGED setup
          /\ \/ UNCHANGED spent
             \/ \E what \in {"kills", "faults", "torn", "overlaps"} : Spend(what)
      BY <1>2, ServiceKeepsSetup
    <3>2. spent'.runs = spent.runs
      BY <3>1 DEF Spend, FleetInv, Budgets
    <3>3. QED BY <3>1, <3>2 DEF setup, FleetInv, SetupOK
  <2>3. QED BY <2>1, <2>2 DEF FleetInv
<1>3. CASE UNCHANGED vars
  BY <1>3 DEF vars, FleetInv, SetupOK, ServiceOK, WorkOK, LedgerOK
<1>4. QED BY <1>1, <1>2, <1>3 DEF Next, ServiceStep

(* Every file, field and thread keeps its type, whatever the installer,    *)
(* the server and two threads do: no unreadable line is ever part of a     *)
(* report, and no number is issued twice or runs out (Log.Read, Append,    *)
(* trimIfOversized, ensureIdentity).                                       *)
THEOREM TypeCorrect == Spec => []TypeOK
<1>1. FleetInv => TypeOK
  BY DEF FleetInv, SetupOK, ServiceOK, WorkOK, LedgerOK, TypeOK
<1>2. QED BY <1>1, FleetInit, FleetStep, PTL DEF Spec

-----------------------------------------------------------------------------
(* Enrollment: an identity the server does not know is one the installer   *)
(* is still working on.                                                    *)

Untroubled == Enrolling /\ spent.aborts + spent.faults = 0

EnrolledInv ==
    /\ installer = "assign" => [id |-> assigned, key |-> identity.key] \in keys
    /\ Untroubled =>
          \/ identity = None /\ installer # "installed"
          \/ identity \in keys
          \/ installer \in {"enroll", "assign", "giveUp"}

LEMMA SpendingKeeps ==
    ASSUME FleetInv, NEW what, Spend(what),
           what \in {"runs", "aborts", "kills", "faults", "torn", "overlaps"}
    PROVE  /\ spent'.aborts \in Nat /\ spent'.faults \in Nat
           /\ spent'.aborts >= spent.aborts /\ spent'.faults >= spent.faults
           /\ what = "aborts" => spent'.aborts > 0
           /\ what = "faults" => spent'.faults > 0
BY DEF Spend, FleetInv, Budgets

LEMMA EnrollKeepsEnrolled ==
    ASSUME FleetInv, EnrolledInv, RunInstaller \/ InstallerStep \/ InstallerDies
    PROVE  EnrolledInv'
<1>1. CASE RunInstaller
  <2>1. spent'.aborts = spent.aborts /\ spent'.faults = spent.faults
    BY <1>1 DEF RunInstaller, Spend, FleetInv, Budgets
  <2>2. QED BY <1>1, <2>1 DEF RunInstaller, EnrolledInv, Untroubled
<1>2. CASE ServerEnrolls
  BY <1>2 DEF ServerEnrolls, EnrolledInv, Untroubled
<1>3. CASE EnrollFails
  BY <1>3 DEF EnrollFails, EnrolledInv, Untroubled
<1>4. CASE GiveUp
  <2>1. CASE identity' = None /\ UNCHANGED spent
    BY <1>4, <2>1 DEF GiveUp, EnrolledInv, Untroubled
  <2>2. CASE Fault /\ UNCHANGED identity
    <3>1. spent'.faults > 0 /\ spent'.aborts \in Nat /\ spent'.faults \in Nat
      BY <2>2, SpendingKeeps DEF Fault
    <3>2. QED BY <1>4, <3>1 DEF GiveUp, EnrolledInv, Untroubled
  <2>3. QED BY <1>4, <2>1, <2>2 DEF GiveUp
<1>5. CASE SaveIdentity
  <2>1. CASE identity' = [identity EXCEPT !.id = assigned] /\ UNCHANGED spent
             /\ installer' = "installed"
    <3>1. identity' = [id |-> assigned, key |-> identity.key]
      BY <1>5, <2>1 DEF SaveIdentity, FleetInv, SetupOK, Identity
    <3>2. identity' \in keys'
      BY <1>5, <3>1 DEF SaveIdentity, EnrolledInv
    <3>3. QED BY <2>1, <3>2 DEF EnrolledInv
  <2>2. CASE Fault /\ installer' = "failed" /\ UNCHANGED identity
    <3>1. spent'.faults > 0 /\ spent'.aborts \in Nat /\ spent'.faults \in Nat
      BY <2>2, SpendingKeeps DEF Fault
    <3>2. QED BY <2>2, <3>1 DEF EnrolledInv, Untroubled
  <2>3. QED BY <1>5, <2>1, <2>2 DEF SaveIdentity
<1>6. CASE InstallerDies
  <2>1. spent'.aborts > 0 /\ spent'.aborts \in Nat /\ spent'.faults \in Nat
    BY <1>6, SpendingKeeps DEF InstallerDies
  <2>2. QED BY <1>6, <2>1 DEF InstallerDies, EnrolledInv, Untroubled
<1>7. QED BY <1>1, <1>2, <1>3, <1>4, <1>5, <1>6 DEF InstallerStep

LEMMA EnrolledStep == FleetInv /\ EnrolledInv /\ [Next]_vars => EnrolledInv'
<1> SUFFICES ASSUME FleetInv, EnrolledInv, [Next]_vars PROVE EnrolledInv'
  OBVIOUS
<1>1. CASE RunInstaller \/ InstallerStep \/ InstallerDies
  BY <1>1, EnrollKeepsEnrolled
<1>2. CASE ServiceStep
  <2>1. UNCHANGED setup
    BY <1>2, ServiceKeepsSetup
  <2>2. /\ spent.aborts \in Nat /\ spent.faults \in Nat
        /\ spent'.aborts \in Nat /\ spent'.faults \in Nat
        /\ spent'.aborts >= spent.aborts /\ spent'.faults >= spent.faults
    <3>1. /\ \/ UNCHANGED spent
             \/ \E what \in {"kills", "faults", "torn", "overlaps"} : Spend(what)
      BY <1>2, ServiceKeepsSetup
    <3>2. QED BY <3>1, SpendingKeeps DEF FleetInv, Budgets
  <2>3. QED BY <2>1, <2>2 DEF setup, EnrolledInv, Untroubled
<1>3. CASE UNCHANGED vars
  BY <1>3 DEF vars, EnrolledInv, Untroubled
<1>4. QED BY <1>1, <1>2, <1>3 DEF Next, ServiceStep

(* A service that runs after an install with -enroll holds the identity    *)
(* the server gave it, however often the enrollment failed before, and     *)
(* whatever the service did meanwhile.                                     *)
THEOREM EnrollmentIsNeverHalf == Spec => []InstalledIsEnrolled
<1>1. Init => EnrolledInv
  BY DEF Init, EnrolledInv, Untroubled
<1>2. EnrolledInv => InstalledIsEnrolled
  BY DEF EnrolledInv, InstalledIsEnrolled, Untroubled
<1>3. QED
  BY <1>1, <1>2, FleetInit, FleetStep, EnrolledStep, PTL DEF Spec

-----------------------------------------------------------------------------
(* The length of the log.  A thread that records alone finds room or makes *)
(* it; a second one at work has spent an overlap, which is room for its    *)
(* line, also when the first one puts back what it read before.            *)

Busy(t) == op[t] # "idle"

(* Two threads at work have been an overlap; there is room for what is     *)
(* being written, and for what a trim puts back.                           *)
Room(t, u) ==
    LET room == MaxLog + 1 + spent.overlaps
    IN  /\ Busy(t) /\ Busy(u) => spent.overlaps > 0
        /\ Len(log) <= room
        /\ op[t] = "append" => Len(log) + 1 <= room
        /\ op[t] = "append" /\ op[u] = "append" => Len(log) + 2 <= room
        /\ op[t] = "trim" => Len(snap[t]) <= room
        /\ op[t] = "trim" /\ Busy(u) => Len(snap[t]) + 1 <= room

BoundInv == \A t, u \in Threads : t # u => Room(t, u)

LEMMA Overlaps ==
    ASSUME FleetInv, NEW t \in Threads, NEW u \in Threads, t # u, Overlapping(t)
    PROVE  /\ spent.overlaps \in Nat /\ spent'.overlaps \in Nat
           /\ spent'.overlaps = spent.overlaps + (IF Busy(u) THEN 1 ELSE 0)
BY DEF Overlapping, Busy, Spend, FleetInv, Budgets, Threads

(* Lengths and counters are numbers.                                       *)
LEMMA Lengths ==
    ASSUME FleetInv
    PROVE  /\ spent.overlaps \in Nat /\ MaxLog \in Nat /\ MaxLog >= 1
           /\ Len(log) \in Nat /\ \A t \in Threads : Len(snap[t]) \in Nat
<1>1. log \in Seq(Events \cup {Garbage}) /\ \A t \in Threads : snap[t] \in Seq(Events)
  BY DEF FleetInv, WorkOK, LedgerOK
<1>2. QED BY <1>1, MaxLogAssumption DEF FleetInv, Budgets

LEMMA BeginRoom ==
    ASSUME FleetInv, BoundInv, NEW t \in Threads, NEW u \in Threads, t # u,
           BeginAppend(t)
    PROVE  Room(t, u)' /\ Room(u, t)'
<1>1. /\ spent'.overlaps = spent.overlaps + (IF Busy(u) THEN 1 ELSE 0)
      /\ spent'.overlaps \in Nat
  BY Overlaps DEF BeginAppend
<1>2. Room(t, u) /\ Room(u, t)
  BY DEF BoundInv
<1>3. Len(Lines(log)) \in Nat /\ Len(Lines(log)) <= Len(log)
  BY LogLines DEF FleetInv
<1>4. /\ op[t] = "idle" /\ op'[u] = op[u] /\ snap'[u] = snap[u] /\ log' = log
      /\ \/ op'[t] = "trim" /\ snap'[t] = Lines(log)
         \/ op'[t] = "append" /\ Len(log) <= MaxLog
  BY Lengths DEF BeginAppend, FleetInv, WorkOK
<1>5. QED BY <1>1, <1>2, <1>3, <1>4, Lengths DEF Room, Busy

LEMMA TrimRoom ==
    ASSUME FleetInv, BoundInv, NEW t \in Threads, NEW u \in Threads, t # u, Trim(t)
    PROVE  Room(t, u)' /\ Room(u, t)'
<1>1. spent'.overlaps = spent.overlaps
  BY DEF Trim, Fault, Spend, FleetInv, Budgets
<1>2. Room(t, u) /\ Room(u, t)
  BY DEF BoundInv
<1>3. op[t] = "trim" /\ op'[u] = op[u] /\ snap'[u] = snap[u]
  BY DEF Trim, Drop, Finish, FleetInv, WorkOK
<1>4. CASE op'[t] = "append" /\ log' = NewestHalf(snap[t])
  <2>1. Len(log') = Len(snap[t]) - Len(snap[t]) \div 2
    BY <1>4, HalfTypes DEF FleetInv, WorkOK
  <2>2. \A n \in Nat : n - n \div 2 \in Nat /\ 2 * (n - n \div 2) <= n + 1
    OBVIOUS
  <2>3. Len(log') \in Nat /\ 2 * Len(log') <= Len(snap[t]) + 1
    BY <2>1, <2>2, Lengths
  <2>4. QED BY <1>1, <1>2, <1>3, <1>4, <2>3, Lengths DEF Room, Busy
<1>5. CASE op'[t] = "idle" /\ log' = log
  BY <1>1, <1>2, <1>3, <1>5, Lengths DEF Room, Busy
<1>6. QED BY <1>4, <1>5 DEF Trim, Drop, Finish, FleetInv, WorkOK

LEMMA WriteRoom ==
    ASSUME FleetInv, BoundInv, NEW t \in Threads, NEW u \in Threads, t # u, WriteLine(t)
    PROVE  Room(t, u)' /\ Room(u, t)'
<1>1. spent'.overlaps = spent.overlaps
  BY DEF WriteLine, Fault, Spend, FleetInv, Budgets
<1>2. Room(t, u) /\ Room(u, t)
  BY DEF BoundInv
<1>3. /\ op[t] = "append" /\ op'[t] = "idle"
      /\ op'[u] = op[u] /\ snap'[u] = snap[u]
  BY DEF WriteLine, Drop, Finish, FleetInv, WorkOK
<1>4. Len(log') \in Nat /\ Len(log') <= Len(log) + 1
  <2>1. LedgerOK /\ event[t] \in Events \cup {Garbage}
    BY DEF FleetInv, WorkOK, Garbage
  <2>2. log' = log \/ log' = Appended(event[t]) \/ log' = Appended(Garbage)
    BY DEF WriteLine
  <2>3. log' \in Seq(Events \cup {Garbage}) /\ (log' = log \/ Len(log') <= Len(log) + 1)
    BY <2>1, <2>2, AppendedTypes DEF LedgerOK
  <2>4. QED BY <2>3, Lengths
<1>5. QED BY <1>1, <1>2, <1>3, <1>4, Lengths DEF Room, Busy

LEMMA DeliverRoom ==
    ASSUME FleetInv, BoundInv, NEW t \in Threads, NEW u \in Threads, t # u, t = "poll",
           BeginDeliver \/ Acknowledged \/ DeliverStep
    PROVE  Room(t, u)' /\ Room(u, t)'
<1>1. Room(t, u) /\ Room(u, t)
  BY DEF BoundInv
<1>2. op'[u] = op[u] /\ snap'[u] = snap[u]
  BY DEF BeginDeliver, Acknowledged, DeliverStep, Refused, Unanswered, RemoveLog,
         Finish, FleetInv, WorkOK
<1>3. CASE BeginDeliver
  <2>1. /\ spent'.overlaps = spent.overlaps + (IF Busy(u) THEN 1 ELSE 0)
        /\ spent'.overlaps \in Nat
    BY <1>3, Overlaps DEF BeginDeliver
  <2>2. op[t] = "idle" /\ op'[t] = "send" /\ log' = log
    BY <1>3 DEF BeginDeliver, FleetInv, WorkOK
  <2>3. QED BY <1>1, <1>2, <2>1, <2>2, Lengths DEF Room, Busy
<1>4. CASE Acknowledged \/ DeliverStep
  <2>1. spent'.overlaps = spent.overlaps
    BY <1>4 DEF Acknowledged, DeliverStep, Refused, Unanswered, RemoveLog, Fault, Spend,
                FleetInv, Budgets
  <2>2. /\ op[t] \in {"send", "remove"} /\ op'[t] \in {"idle", "remove"}
        /\ log' = log \/ log' = << >>
    BY <1>4 DEF Acknowledged, DeliverStep, Refused, Unanswered, RemoveLog, Finish,
                FleetInv, WorkOK
  <2>3. Len(log') \in Nat /\ Len(log') <= Len(log)
    BY <2>2, Lengths
  <2>4. QED BY <1>1, <1>2, <2>1, <2>2, <2>3, Lengths DEF Room, Busy
<1>5. QED BY <1>3, <1>4

LEMMA BoundStep == FleetInv /\ BoundInv /\ [Next]_vars => BoundInv'
<1> SUFFICES ASSUME FleetInv, BoundInv, [Next]_vars,
                    NEW t \in Threads, NEW u \in Threads, t # u
             PROVE  Room(t, u)'
  BY DEF BoundInv
<1>1. Room(t, u) /\ Room(u, t)
  BY DEF BoundInv
<1>2. CASE \E a \in Threads : BeginAppend(a) \/ LogStep(a)
  <2>1. PICK a \in Threads : BeginAppend(a) \/ LogStep(a)
    BY <1>2
  <2>2. a = t \/ a = u
    BY DEF Threads
  <2>3. QED BY <2>1, <2>2, BeginRoom, TrimRoom, WriteRoom DEF LogStep
<1>3. CASE BeginDeliver \/ Acknowledged \/ DeliverStep
  <2>1. t = "poll" \/ u = "poll"
    BY DEF Threads
  <2>2. QED BY <1>3, <2>1, DeliverRoom
<1>4. CASE ServiceDies
  <2>1. /\ op' = Idle /\ log' = log
        /\ spent'.overlaps = spent.overlaps
    BY <1>4 DEF ServiceDies, Spend, FleetInv, Budgets
  <2>2. op'[t] = "idle" /\ op'[u] = "idle"
    BY <2>1 DEF Idle
  <2>3. Len(log) <= MaxLog + 1 + spent.overlaps
    BY <1>1, Lengths DEF Room
  <2>4. QED BY <2>1, <2>2, <2>3, Lengths DEF Room, Busy
<1>5. ASSUME UNCHANGED <<work, log>>, spent'.overlaps = spent.overlaps
      PROVE  Room(t, u)'
  BY <1>1, <1>5 DEF work, Room, Busy
<1>6. CASE RunInstaller \/ InstallerStep \/ InstallerDies
  <2>1. spent'.overlaps = spent.overlaps
    BY <1>6 DEF RunInstaller, InstallerStep, ServerEnrolls, EnrollFails, GiveUp,
                SaveIdentity, InstallerDies, Fault, Spend, FleetInv, Budgets
  <2>2. QED BY <1>5, <1>6, <2>1, InstallerTypes
<1>7. CASE ServiceStarts \/ LateReport \/ UNCHANGED vars
  BY <1>5, <1>7 DEF ServiceStarts, LateReport, vars, work
<1>8. QED
  BY <1>2, <1>3, <1>4, <1>6, <1>7 DEF Next

LEMMA RoomAtFirst == Init => BoundInv
<1> SUFFICES ASSUME Init PROVE BoundInv
  OBVIOUS
<1>1. \A t \in Threads : op[t] = "idle"
  BY DEF Init, Idle
<1>2. Len(log) = 0 /\ spent.overlaps = 0
  BY DEF Init
<1>3. QED BY <1>1, <1>2, MaxLogAssumption DEF BoundInv, Room, Busy

(* The log never holds more than the limit, the line being written and one *)
(* for every overlap, for every limit and through every failure of a write *)
(* (maxLogBytes, trimIfOversized).                                         *)
THEOREM LogStaysBounded == Spec => []LogIsBounded
<1>1. FleetInv /\ BoundInv => LogIsBounded
  <2> SUFFICES ASSUME FleetInv, BoundInv PROVE LogIsBounded
    OBVIOUS
  <2>1. Room("poll", "health")
    BY DEF BoundInv, Threads
  <2>2. QED BY <2>1, Lengths DEF Room, LogIsBounded
<1>2. QED BY <1>1, RoomAtFirst, FleetInit, FleetStep, BoundStep, PTL DEF Spec

-----------------------------------------------------------------------------
(* What becomes of an event, as long as no operations on the log have      *)
(* overlapped.                                                             *)

(* A thread that works alone knows the log.                                *)
KnowsLog(t) ==
    /\ op[t] \in {"trim", "send"} => Range(snap[t]) = Range(log) \ {Garbage}
    /\ op[t] = "remove" => Range(log) \ {Garbage} \subseteq received

AloneInv == spent.overlaps = 0 => \A t \in Threads : KnowsLog(t)

(* A log without an end of line will swallow one event.                    *)
LossInv ==
    spent.overlaps = 0 =>
        Cardinality(Vanished) + (IF torn THEN 1 ELSE 0) <= spent.torn

LEMMA OverlapsAdd ==
    ASSUME FleetInv, [Next]_vars
    PROVE  /\ spent.overlaps \in Nat /\ spent'.overlaps >= spent.overlaps
           /\ spent.torn \in Nat /\ spent'.torn >= spent.torn
           /\ spent'.torn \in Nat
<1>1. UNCHANGED spent \/ \E what \in DOMAIN spent : Spend(what)
  BY DEF FleetInv, Budgets, Next, vars, RunInstaller, InstallerStep, ServerEnrolls,
         EnrollFails, GiveUp, SaveIdentity, InstallerDies, ServiceStarts, ServiceDies,
         BeginAppend, LogStep, Trim, WriteLine, BeginDeliver, Acknowledged, DeliverStep,
         Refused, Unanswered, RemoveLog, LateReport, Fault, Overlapping
<1>2. QED BY <1>1 DEF Spend, FleetInv, Budgets

(* As long as nothing overlapped, the thread that acts is the only one.    *)
LEMMA OthersIdle ==
    ASSUME BoundInv, spent.overlaps = 0, NEW t \in Threads, NEW u \in Threads, t # u,
           Busy(t)
    PROVE  op[u] = "idle"
BY DEF BoundInv, Room, Busy

LEMMA AloneStep ==
    ASSUME FleetInv, BoundInv, AloneInv, [Next]_vars
    PROVE  AloneInv'
<1> SUFFICES ASSUME spent'.overlaps = 0, NEW t \in Threads
             PROVE  KnowsLog(t)'
  BY DEF AloneInv
<1>1. spent.overlaps = 0
  BY OverlapsAdd
<1>2. KnowsLog(t)
  BY <1>1 DEF AloneInv
<1>3. Range(Lines(log)) = Range(log) \ {Garbage}
  BY LogLines DEF FleetInv
<1>4. ASSUME op'[t] = op[t], snap'[t] = snap[t], log' = log, received \subseteq received'
      PROVE  KnowsLog(t)'
  BY <1>2, <1>4 DEF KnowsLog
<1>5. ASSUME op'[t] \in {"idle", "append"} PROVE KnowsLog(t)'
  BY <1>5 DEF KnowsLog
<1>6. ASSUME NEW a \in Threads, BeginAppend(a) PROVE KnowsLog(t)'
  <2>1. CASE a = t
    BY <1>3, <1>6, <2>1 DEF BeginAppend, FleetInv, WorkOK, KnowsLog
  <2>2. CASE a # t
    BY <1>4, <1>6, <2>2 DEF BeginAppend, FleetInv, WorkOK
  <2>3. QED BY <2>1, <2>2
<1>7. ASSUME NEW a \in Threads, LogStep(a) PROVE KnowsLog(t)'
  <2>1. CASE a = t
    BY <1>5, <1>7, <2>1 DEF LogStep, Trim, WriteLine, Drop, Finish, FleetInv, WorkOK
  <2>2. CASE a # t
    <3>1. op[t] = "idle"
      BY <1>1, <1>7, <2>2, OthersIdle DEF LogStep, Trim, WriteLine, Busy
    <3>2. op'[t] = "idle"
      BY <1>7, <2>2, <3>1 DEF LogStep, Trim, WriteLine, Drop, Finish, FleetInv, WorkOK
    <3>3. QED BY <1>5, <3>2
  <2>3. QED BY <2>1, <2>2
<1>8. CASE BeginDeliver
  BY <1>3, <1>4, <1>8 DEF BeginDeliver, FleetInv, WorkOK, ledger, KnowsLog
<1>9. CASE Acknowledged
  <2>1. CASE t = "poll"
    BY <1>2, <1>9, <2>1 DEF Acknowledged, Accept, KnowsLog, FleetInv, WorkOK
  <2>2. CASE t # "poll"
    BY <1>4, <1>9, <2>2 DEF Acknowledged, Accept, FleetInv, WorkOK
  <2>3. QED BY <2>1, <2>2
<1>10. CASE DeliverStep
  <2>1. CASE t = "poll"
    BY <1>5, <1>10, <2>1
       DEF DeliverStep, Refused, Unanswered, RemoveLog, Finish, FleetInv, WorkOK
  <2>2. CASE t # "poll"
    <3>1. op[t] = "idle"
      BY <1>1, <1>10, <2>2, OthersIdle
         DEF DeliverStep, Refused, Unanswered, RemoveLog, Busy, Threads
    <3>2. op'[t] = "idle"
      BY <1>10, <2>2, <3>1
         DEF DeliverStep, Refused, Unanswered, RemoveLog, Finish, FleetInv, WorkOK
    <3>3. QED BY <1>5, <3>2
  <2>3. QED BY <2>1, <2>2
<1>11. CASE ServiceDies
  BY <1>5, <1>11 DEF ServiceDies, Idle
<1>12. CASE ServiceStarts \/ LateReport \/ UNCHANGED vars
  BY <1>4, <1>12 DEF ServiceStarts, LateReport, Accept, vars, work, ledger
<1>13. CASE RunInstaller \/ InstallerStep \/ InstallerDies
  BY <1>4, <1>13, InstallerTypes DEF work, ledger
<1>14. QED
  BY <1>6, <1>7, <1>8, <1>9, <1>10, <1>11, <1>12, <1>13 DEF Next

-----------------------------------------------------------------------------
(* What leaves the log, or a thread, without having arrived.               *)

(* All but appending to a line without an end.                             *)
LEMMA NothingVanishesBut ==
    ASSUME FleetInv, BoundInv, AloneInv, spent.overlaps = 0, [Next]_vars,
           \A t \in Threads : ~WriteLine(t)
    PROVE  Vanished' \subseteq Vanished
<1> SUFFICES ASSUME NEW e \in 1 .. recorded', e \notin Accounted'
             PROVE  e \in 1 .. recorded /\ e \notin Accounted
  BY DEF Vanished
<1> USE DEF Accounted
<1>0. e # 0 /\ e # Garbage /\ recorded \in Nat
  BY DEF Garbage, FleetInv, LedgerOK, Events
<1>1. ASSUME recorded' = recorded, event' = event, log' = log,
             received \subseteq received', dropped \subseteq dropped',
             trimmed \subseteq trimmed'
      PROVE  e \in 1 .. recorded /\ e \notin Accounted
  BY <1>1
<1>2. ASSUME NEW t \in Threads, BeginAppend(t)
      PROVE  e \in 1 .. recorded /\ e \notin Accounted
  <2>1. /\ event[t] = 0 /\ event'[t] = recorded'
        /\ \A u \in Threads \ {t} : event'[u] = event[u]
        /\ recorded' = recorded + 1
        /\ UNCHANGED <<log, received, dropped, trimmed>>
    BY <1>2 DEF BeginAppend, FleetInv, WorkOK
  <2>2. e # recorded'
    BY <2>1
  <2>3. QED BY <1>0, <2>1, <2>2
<1>3. ASSUME NEW t \in Threads, Drop(t), recorded' = recorded, log' = log,
             received \subseteq received', trimmed \subseteq trimmed'
      PROVE  e \in 1 .. recorded /\ e \notin Accounted
  <2>1. \A u \in Threads \ {t} : event'[u] = event[u]
    BY <1>3 DEF Drop, FleetInv, WorkOK
  <2>2. dropped' = dropped \cup {event[t]}
    BY <1>3 DEF Drop
  <2>3. QED BY <1>3, <2>1, <2>2
<1>4. ASSUME NEW t \in Threads, Trim(t)
      PROVE  e \in 1 .. recorded /\ e \notin Accounted
  <2>1. Range(snap[t]) = Range(log) \ {Garbage}
    BY <1>4 DEF AloneInv, KnowsLog, Trim
  <2>2. CASE /\ trimmed' = trimmed \cup (Range(snap[t]) \ Range(log'))
             /\ UNCHANGED <<event, dropped>>
    BY <1>0, <1>4, <2>1, <2>2 DEF Trim
  <2>3. CASE Drop(t) /\ UNCHANGED <<log, torn, trimmed>>
    BY <1>3, <1>4, <2>3 DEF Trim
  <2>4. QED BY <1>4, <2>2, <2>3 DEF Trim
<1>5. CASE RemoveLog
  <2>1. Range(log) \ {Garbage} \subseteq received
    BY <1>5 DEF AloneInv, KnowsLog, RemoveLog, Threads
  <2>2. UNCHANGED event /\ UNCHANGED ledger
    BY <1>5 DEF RemoveLog
  <2>3. QED BY <1>0, <2>1, <2>2 DEF ledger
<1>6. CASE BeginDeliver \/ Acknowledged \/ Refused \/ Unanswered \/ LateReport
           \/ ServiceStarts \/ UNCHANGED vars
  BY <1>1, <1>6 DEF BeginDeliver, Acknowledged, Refused, Unanswered, LateReport,
                    ServiceStarts, vars, Accept, ledger, work
<1>7. CASE ServiceDies
  <2>1. /\ dropped' = dropped \cup ({event[t] : t \in Threads} \ {0})
        /\ UNCHANGED <<log, received, recorded, trimmed>>
    BY <1>7 DEF ServiceDies
  <2>2. QED BY <1>0, <2>1
<1>8. CASE RunInstaller \/ InstallerStep \/ InstallerDies
  BY <1>1, <1>8, InstallerTypes DEF work, ledger
<1>9. QED
  BY <1>2, <1>4, <1>5, <1>6, <1>7, <1>8 DEF Next, LogStep, DeliverStep

LEMMA WriteLoses ==
    ASSUME FleetInv, NEW t \in Threads, WriteLine(t)
    PROVE  \/ Vanished' \subseteq Vanished /\ (torn' => torn)
           \/ Vanished' \subseteq Vanished /\ spent'.torn = spent.torn + 1
           \/ Vanished' \subseteq Vanished \cup {event[t]} /\ torn /\ ~torn'
<1>0. /\ UNCHANGED <<received, recorded, trimmed>>
      /\ event[t] \in Events \cup {Garbage}
      /\ Garbage \notin 1 .. recorded
      /\ \A u \in Threads \ {t} : event'[u] = event[u]
  BY DEF WriteLine, Drop, FleetInv, WorkOK, Garbage
<1>1. CASE log' = Appended(event[t]) /\ torn' = FALSE /\ UNCHANGED dropped
  <2>1. Range(log) \subseteq Range(log') /\ (~torn => event[t] \in Range(log'))
    BY <1>0, <1>1, AppendedTypes DEF FleetInv
  <2>2. Vanished' \subseteq Vanished \cup (IF torn THEN {event[t]} ELSE {})
    BY <1>0, <1>1, <2>1 DEF Vanished, Accounted
  <2>3. QED BY <1>1, <2>2
<1>2. CASE Drop(t) /\ \/ log' = Appended(Garbage) /\ Spend("torn")
                      \/ UNCHANGED <<log, torn>>
  <2>1. Range(log) \subseteq Range(log')
    BY <1>2, AppendedTypes DEF FleetInv, LedgerOK
  <2>2. dropped' = dropped \cup {event[t]}
    BY <1>2 DEF Drop
  <2>3. Vanished' \subseteq Vanished
    BY <1>0, <2>1, <2>2 DEF Vanished, Accounted
  <2>4. UNCHANGED torn \/ spent'.torn = spent.torn + 1
    BY <1>2 DEF Spend, FleetInv, Budgets
  <2>5. QED BY <2>3, <2>4
<1>3. QED BY <1>1, <1>2 DEF WriteLine

LEMMA AtMostOneMore ==
    ASSUME NEW V, IsFiniteSet(V), NEW e, NEW W, W \subseteq V \cup {e}
    PROVE  /\ IsFiniteSet(W) /\ Cardinality(W) \in Nat /\ Cardinality(V) \in Nat
           /\ Cardinality(W) <= Cardinality(V) + 1
           /\ W \subseteq V => Cardinality(W) <= Cardinality(V)
<1>1. IsFiniteSet(V \cup {e}) /\ Cardinality(V) \in Nat
  BY FS_AddElement, FS_CardinalityType
<1>2. Cardinality(V \cup {e}) <= Cardinality(V) + 1
  BY <1>1, FS_AddElement
<1>3. IsFiniteSet(W) /\ Cardinality(W) <= Cardinality(V \cup {e}) /\ Cardinality(W) \in Nat
  BY <1>1, FS_Subset, FS_CardinalityType
<1>4. W \subseteq V => Cardinality(W) <= Cardinality(V)
  BY FS_Subset
<1>5. Cardinality(V \cup {e}) \in Nat
  BY <1>1, FS_CardinalityType
<1>6. QED BY <1>1, <1>2, <1>3, <1>4, <1>5

LEMMA LossStep ==
    ASSUME FleetInv, BoundInv, AloneInv, LossInv, [Next]_vars
    PROVE  LossInv'
<1> SUFFICES ASSUME spent'.overlaps = 0
             PROVE  Cardinality(Vanished') + (IF torn' THEN 1 ELSE 0) <= spent'.torn
  BY DEF LossInv
<1>1. /\ spent.overlaps = 0 /\ spent.torn \in Nat /\ spent'.torn \in Nat
      /\ spent'.torn >= spent.torn
  BY OverlapsAdd
<1>2. Cardinality(Vanished) + (IF torn THEN 1 ELSE 0) <= spent.torn
  BY <1>1 DEF LossInv
<1>3. IsFiniteSet(Vanished) /\ torn \in BOOLEAN
  <2>1. IsFiniteSet(1 .. recorded)
    BY FS_Interval DEF FleetInv, LedgerOK, Events
  <2>2. QED BY <2>1, FS_Subset DEF Vanished, FleetInv, LedgerOK
<1>4. \/ Vanished' \subseteq Vanished /\ (torn' => torn)
      \/ Vanished' \subseteq Vanished /\ spent'.torn = spent.torn + 1
      \/ \E e : Vanished' \subseteq Vanished \cup {e} /\ torn /\ ~torn'
  <2>1. CASE \E t \in Threads : WriteLine(t)
    BY <2>1, WriteLoses
  <2>2. CASE \A t \in Threads : ~WriteLine(t)
    <3>1. Vanished' \subseteq Vanished
      BY <1>1, <2>2, NothingVanishesBut
    <3>2. torn' => torn
      BY <2>2, InstallerTypes
         DEF Next, ServiceStarts, ServiceDies, BeginAppend, LogStep, Trim, BeginDeliver,
             Acknowledged, DeliverStep, Refused, Unanswered, RemoveLog, LateReport, vars
    <3>3. QED BY <3>1, <3>2
  <2>3. QED BY <2>1, <2>2
<1>5. torn' \in BOOLEAN
  BY FleetStep DEF FleetInv, LedgerOK
<1>6. CASE Vanished' \subseteq Vanished
  <2>1. Cardinality(Vanished') \in Nat /\ Cardinality(Vanished) \in Nat
        /\ Cardinality(Vanished') <= Cardinality(Vanished)
    BY <1>3, <1>6, AtMostOneMore
  <2>2. (torn' => torn) \/ spent'.torn = spent.torn + 1
    BY <1>4
  <2>3. QED BY <1>1, <1>2, <2>1, <2>2
<1>7. ASSUME NEW e, Vanished' \subseteq Vanished \cup {e}, torn, ~torn'
      PROVE  Cardinality(Vanished') + (IF torn' THEN 1 ELSE 0) <= spent'.torn
  <2>1. Cardinality(Vanished') \in Nat /\ Cardinality(Vanished) \in Nat
        /\ Cardinality(Vanished') <= Cardinality(Vanished) + 1
    BY <1>3, <1>7, AtMostOneMore
  <2>2. QED BY <1>1, <1>2, <1>7, <2>1
<1>8. QED BY <1>4, <1>6, <1>7

(* Of operations that do not overlap, only a torn line loses events: itself*)
(* and at most the one after it (Log.Append, trimIfOversized, Deliver).    *)
THEOREM LossIsBounded == Spec => []NothingVanishes
<1>1. Init => BoundInv /\ AloneInv /\ LossInv
  <2> SUFFICES ASSUME Init PROVE BoundInv /\ AloneInv /\ LossInv
    OBVIOUS
  <2>1. BoundInv
    BY RoomAtFirst
  <2>2. AloneInv
    BY DEF Init, Idle, AloneInv, KnowsLog
  <2>3. Vanished = {} /\ torn = FALSE /\ spent.torn = 0
    BY DEF Init, Vanished
  <2>4. QED BY <2>1, <2>2, <2>3, FS_EmptySet DEF LossInv
<1>2. FleetInv /\ LossInv => NothingVanishes
  <2> SUFFICES ASSUME FleetInv, LossInv, spent.overlaps = 0
               PROVE  Cardinality(Vanished) <= spent.torn
    BY DEF NothingVanishes
  <2>1. Cardinality(Vanished) + (IF torn THEN 1 ELSE 0) <= spent.torn
    BY DEF LossInv
  <2>2. Cardinality(Vanished) \in Nat /\ spent.torn \in Nat
    <3>1. IsFiniteSet(1 .. recorded)
      BY FS_Interval DEF FleetInv, LedgerOK, Events
    <3>2. IsFiniteSet(Vanished)
      BY <3>1, FS_Subset DEF Vanished
    <3>3. spent.torn \in Nat
      BY DEF FleetInv, Budgets
    <3>4. QED BY <3>2, <3>3, FS_CardinalityType
  <2>3. QED BY <2>1, <2>2
<1>3. QED
  BY <1>1, <1>2, FleetInit, FleetStep, BoundStep, AloneStep, LossStep, PTL DEF Spec

=============================================================================
