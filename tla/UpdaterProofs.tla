--------------------------- MODULE UpdaterProofs ----------------------------
(***************************************************************************)
(* Theorems about module Updater, for every set of releases, keys and      *)
(* builds, every interval and every budget.                                *)
(***************************************************************************)
EXTENDS Updater, AgentStateProofs, WellFoundedInduction

-----------------------------------------------------------------------------
(* The types of the operators the loop is made of.                         *)

LEMMA ReleaseFields ==
    ASSUME NEW r \in Releases
    PROVE  /\ r.manifest \in Manifest
           /\ r.manifest.version \in VersionOrNone
           /\ r.nextCheck \in Int
BY ReleasesAssumption DEF Manifest

(* The decisions that act on a version are about one that can be ordered.  *)
LEMMA DecisionNames ==
    ASSUME NEW m \in Manifest, NEW v, NEW s, Evaluate(m, v, s) \in {"reinstall", "apply"}
    PROVE  m.version \in Versions
<1>1. Eligible(m, v, s)
  BY DEF Evaluate
<1>2. QED BY <1>1 DEF Eligible, Manifest, VersionOrNone

(* A nonempty set of numbers has a least one.                              *)
LEMMA LeastNumber ==
    ASSUME NEW T, T \subseteq Nat, T # {}
    PROVE  \E n \in T : \A m \in T : n <= m
<1>1. PICK n \in T : \A m \in T : ~ (<<m, n>> \in OpToRel(<, Nat))
  BY NatLessThanWellFounded, WFMin
<1>2. \A m \in T : ~(m < n)
  BY <1>1 DEF OpToRel
<1>3. QED BY <1>2

(* One place of the shift, of which Shifted is the last.                   *)
Place(bit, i) == IF i = 0 THEN 1 ELSE 2 * bit[i - 1]

LEMMA ShiftExists ==
    ASSUME NEW n \in Nat
    PROVE  \E bit : bit = [i \in 0 .. n |-> Place(bit, i)]
<1> DEFINE Upto(k) == \E bit : bit = [i \in 0 .. k |-> Place(bit, i)]
           T == {k \in Nat : ~Upto(k)}
<1>1. SUFFICES T = {}
  OBVIOUS
<1>2. SUFFICES ASSUME T # {} PROVE FALSE
  OBVIOUS
<1>3. PICK k \in T : \A m \in T : k <= m
  <2>1. T \subseteq Nat
    OBVIOUS
  <2> HIDE DEF T
  <2>2. QED BY <1>2, <2>1, LeastNumber
<1>4. CASE k = 0
  <2>1. [i \in 0 .. 0 |-> 1] = [i \in 0 .. 0 |-> Place([m \in 0 .. 0 |-> 1], i)]
    BY DEF Place
  <2>2. QED BY <1>3, <1>4, <2>1
<1>5. CASE k # 0
  <2>1. PICK bit : bit = [i \in 0 .. k - 1 |-> Place(bit, i)]
    <3>1. k - 1 \in Nat /\ ~(k <= k - 1)
      BY <1>3, <1>5
    <3>2. Upto(k - 1)
      BY <1>3, <3>1
    <3>3. QED BY <3>2
  <2> DEFINE more == [i \in 0 .. k |-> IF i = k THEN Place(bit, k) ELSE bit[i]]
  <2>2. ASSUME NEW i \in 0 .. k PROVE more[i] = Place(more, i)
    <3>1. k \in Nat
      BY <1>3
    <3>2. i # 0 => more[i - 1] = bit[i - 1]
      BY <3>1
    <3>3. Place(more, i) = Place(bit, i)
      BY <3>2 DEF Place
    <3>4. CASE i = k
      BY <3>3, <3>4
    <3>5. CASE i # k
      <4>1. i \in 0 .. k - 1
        BY <3>1, <3>5
      <4>2. bit[i] = Place(bit, i)
        BY <2>1, <4>1
      <4>3. QED BY <3>3, <3>5, <4>2
    <3>6. QED BY <3>4, <3>5
  <2>3. more = [i \in 0 .. k |-> Place(more, i)]
    BY <2>2
  <2>4. QED BY <1>3, <2>3
<1>6. QED BY <1>4, <1>5

(* The factor of a backoff never shrinks the interval.                     *)
LEMMA ShiftedIsPositive ==
    ASSUME NEW n \in Nat
    PROVE  Shifted(n) \in Nat /\ Shifted(n) >= 1
<1> DEFINE bit == CHOOSE bit : bit = [i \in 0 .. n |-> Place(bit, i)]
<1>1. bit = [i \in 0 .. n |-> Place(bit, i)]
  BY ShiftExists
<1>2. Shifted(n) = bit[n]
  BY DEF Shifted, Place
<1> HIDE DEF bit
<1> DEFINE Positive(i) == bit[i] \in Nat /\ bit[i] >= 1
           T == {i \in 0 .. n : ~Positive(i)}
<1>3. T = {}
  <2>1. SUFFICES ASSUME T # {} PROVE FALSE
    OBVIOUS
  <2>2. PICK i \in T : \A m \in T : i <= m
    <3>1. T \subseteq Nat
      OBVIOUS
    <3> HIDE DEF T
    <3>2. QED BY <2>1, <3>1, LeastNumber
  <2>3. i \in 0 .. n /\ bit[i] = Place(bit, i) /\ ~Positive(i)
    BY <1>1, <2>2
  <2>4. i # 0
    BY <2>3 DEF Place
  <2>5. i - 1 \in 0 .. n /\ ~(i <= i - 1)
    BY <2>3, <2>4
  <2>6. Positive(i - 1)
    BY <2>2, <2>5
  <2>7. QED BY <2>3, <2>4, <2>6 DEF Place
<1>4. QED BY <1>2, <1>3

LEMMA BackoffType ==
    ASSUME NEW d \in Int, NEW n \in Nat
    PROVE  Backoff(d, n) \in Int /\ Backoff(d, n) <= MaxInterval
BY ShiftedIsPositive, IntervalsAssumption DEF Backoff

LEMMA NextCheckType ==
    ASSUME NEW seconds \in Int
    PROVE  /\ NextCheck(seconds) \in Int
           /\ NextCheck(seconds) = Interval \/ NextCheck(seconds) \in MinInterval .. MaxInterval
<1> DEFINE d == Wrap(seconds * Second)
<1> USE IntervalsAssumption
<1>1. d \in Int
  <2>1. seconds * Second \in Int
    OBVIOUS
  <2>2. ASSUME NEW x \in Int PROVE Wrap(x) \in Int
    BY DEF Wrap
  <2>3. QED BY <2>1, <2>2
<1> HIDE DEF d
<1>2. CASE seconds <= 0
  BY <1>2 DEF NextCheck
<1>3. CASE ~(seconds <= 0)
  BY <1>1, <1>3 DEF NextCheck, d
<1>4. QED BY <1>2, <1>3

LEMMA SleepType ==
    ASSUME interval \in Int, failures \in 0 .. MaxShift, Succeeded \/ Failed
    PROVE  /\ failures' \in 0 .. MaxShift
           /\ delay' \in Delays(interval, failures')
           /\ delay' \in Int
           /\ offer' = None
           /\ step' = "wait"
<1>1. PICK n \in 0 .. MaxShift : Sleep(n)
  BY IntervalsAssumption DEF Succeeded, Failed
<1>2. n \in Nat /\ Backoff(interval, n) \in Int
  BY <1>1, BackoffType, IntervalsAssumption
<1>3. delay' \in Int
  BY <1>1, <1>2 DEF Sleep, Delays
<1>4. QED BY <1>1, <1>3 DEF Sleep

LEMMA SaveType ==
    ASSUME NEW s \in State, stateFile \in State, spent \in Budgets, Save(s)
    PROVE  /\ stateFile' \in State /\ spent' \in Budgets
           /\ spent'.faults = 0 => spent.faults = 0 /\ stateFile' = s
           /\ spent'.faults \in Nat
<1> USE BudgetsAssumption DEF Budgets
<1>1. CASE stateFile' = s /\ UNCHANGED spent
  BY <1>1
<1>2. CASE spent.faults < MaxFaults /\ Spend("faults") /\ UNCHANGED stateFile
  BY <1>2 DEF Spend
<1>3. QED BY <1>1, <1>2 DEF Save

LEMMA KillType ==
    ASSUME spent \in Budgets, spent.kills < MaxKills, Spend("kills")
    PROVE  spent' \in Budgets /\ spent'.faults = spent.faults
BY BudgetsAssumption DEF Budgets, Spend

-----------------------------------------------------------------------------
(* Type correctness.                                                       *)

LEMMA InitType == Init => TypeOK
<1> SUFFICES ASSUME Init PROVE TypeOK
  OBVIOUS
<1>1. FreshState \in State
  BY FreshStateType
<1>2. spent \in Budgets
  BY BudgetsAssumption DEF Init, Budgets
<1>3. QED
  BY <1>1, <1>2, InitialVersionAssumption, IntervalsAssumption
  DEF Init, TypeOK, Steps, Working, VersionOrNone

LEMMA ChannelType == ASSUME TypeOK, Publish PROVE TypeOK'
<1>1. spent' \in Budgets
  BY BudgetsAssumption
  DEF Publish, SignBegins, SignEnds, Withdraw, Spend, TypeOK, Budgets
<1>2. served' \in Releases \cup {None, Torn}
  BY DEF Publish, SignBegins, SignEnds, Withdraw
<1>3. UNCHANGED <<running, step, loop, mem, stateFile, staged, history>>
  BY DEF Publish, SignBegins, SignEnds, Withdraw
<1>4. QED BY <1>1, <1>2, <1>3 DEF TypeOK, Working, loop, history

LEMMA FetchType ==
    ASSUME TypeOK, FetchFails \/ FetchUnchanged \/ FetchManifest
    PROVE  TypeOK'
<1>1. CASE FetchFails
  BY <1>1, SleepType DEF FetchFails, TypeOK, Working, Steps, history
<1>2. CASE FetchUnchanged
  BY <1>2, SleepType, SaveType DEF FetchUnchanged, TypeOK, Working, Steps, history
<1>3. CASE FetchManifest
  <2>1. served \in Releases /\ interval' \in Int
    BY <1>3, ReleaseFields, NextCheckType DEF FetchManifest, Verifies
  <2>2. QED
    BY <1>3, <2>1, SaveType, NoneAssumption DEF FetchManifest, TypeOK, Working, Steps
<1>4. QED BY <1>1, <1>2, <1>3

LEMMA WorkType == ASSUME TypeOK, Work PROVE TypeOK'
<1> USE DEF Working, Steps, loop, history
<1>1. ASSUME offer # None
      PROVE  /\ offer \in Releases
             /\ offer.manifest \in Manifest
             /\ offer.manifest.version \in VersionOrNone
             /\ Decision \in {"reinstall", "apply"} => offer.manifest.version \in Versions
  BY <1>1, ReleaseFields, DecisionNames DEF TypeOK, Decision
<1>2. CASE DecideStop
  BY <1>2 DEF DecideStop, TypeOK
<1>3. CASE DecideNothing
  BY <1>3, SleepType DEF DecideNothing, TypeOK
<1>4. CASE DecideReinstall
  <2>1. offer # None /\ offer.manifest.version \in VersionOrNone
    BY <1>1, <1>4 DEF DecideReinstall, TypeOK
  <2>2. mem' \in State
    BY <1>4, <2>1, StateOperatorsType DEF DecideReinstall, TypeOK
  <2>3. stateFile' \in State /\ spent' \in Budgets
    BY <1>4, <2>2, SaveType DEF DecideReinstall, TypeOK
  <2>4. told' \in VersionOrNone
    BY <1>4 DEF DecideReinstall, Supersedes, TypeOK, VersionOrNone
  <2>5. QED BY <1>4, <2>1, <2>2, <2>3, <2>4 DEF DecideReinstall, TypeOK
<1>5. CASE Report
  <2>1. offer.manifest.version \in VersionOrNone
    BY <1>1, <1>5 DEF Report, TypeOK
  <2>2. QED BY <1>5, <2>1, SleepType DEF Report, TypeOK
<1>6. CASE DecideApply
  <2>1. mem' \in State /\ NoVersion \in VersionOrNone
    BY <1>6, StateOperatorsType DEF DecideApply, TypeOK, VersionOrNone
  <2>2. CASE Succeeded \/ Failed
    BY <1>6, <2>1, <2>2, SleepType DEF DecideApply, TypeOK, PutOff
  <2>3. CASE step' = "download" /\ UNCHANGED <<offer, failures, delay, putOff>>
    BY <1>6, <2>1, <2>3 DEF DecideApply, TypeOK
  <2>4. QED BY <1>6, <2>2, <2>3 DEF DecideApply
<1>7. CASE Download
  <2>1. CASE Failed
    BY <1>7, <2>1, SleepType DEF Download, TypeOK, PutOff
  <2>2. CASE step' = "preflight" /\ UNCHANGED <<offer, failures, delay, putOff>>
    BY <1>7, <2>2 DEF Download, TypeOK
  <2>3. QED BY <1>7, <2>1, <2>2 DEF Download
<1>8. CASE Preflight
  <2>1. CASE step' = "stage" /\ UNCHANGED <<offer, failures, delay, mem, stateFile, spent>>
    BY <1>8, <2>1 DEF Preflight, TypeOK
  <2>2. CASE mem' = Poison(mem, offer.manifest.version) /\ Save(mem') /\ Failed
    <3>1. offer.manifest.version \in VersionOrNone
      BY <1>1, <1>8 DEF Preflight, TypeOK
    <3>2. mem' \in State
      BY <2>2, <3>1, StateOperatorsType DEF TypeOK
    <3>3. stateFile' \in State /\ spent' \in Budgets
      BY <2>2, <3>2, SaveType DEF TypeOK
    <3>4. QED BY <1>8, <2>2, <3>2, <3>3, SleepType DEF Preflight, TypeOK
  <2>3. QED BY <1>8, <2>1, <2>2 DEF Preflight
<1>9. CASE Stage
  <2>1. offer.manifest.version \in VersionOrNone
    BY <1>1, <1>9 DEF Stage, TypeOK
  <2>2. CASE Failed
    BY <1>9, <2>2, SleepType DEF Stage, TypeOK, PutOff
  <2>3. CASE step' = "down" /\ UNCHANGED <<offer, failures, delay, putOff>>
    BY <1>9, <2>1, <2>3 DEF Stage, TypeOK
  <2>4. QED BY <1>9, <2>2, <2>3 DEF Stage
<1>10. CASE Wake
  BY <1>10 DEF Wake, TypeOK
<1>11. QED
  BY <1>2, <1>3, <1>4, <1>5, <1>6, <1>7, <1>8, <1>9, <1>10 DEF Work

LEMMA ProcessType ==
    ASSUME TypeOK, Killed \/ SelfCheckInterrupted \/ Start \/ OperatorStarts
    PROVE  TypeOK'
<1> USE DEF Working, Steps, loop, history
<1>1. CASE Killed
  BY <1>1, KillType DEF Killed, TypeOK
<1>2. CASE SelfCheckInterrupted
  <2>1. offer.manifest.version \in VersionOrNone
    BY <1>2, ReleaseFields DEF SelfCheckInterrupted, TypeOK
  <2>2. mem' \in State /\ stateFile' \in State /\ spent' \in Budgets
    BY <1>2, <2>1, StateOperatorsType, KillType DEF SelfCheckInterrupted, TypeOK
  <2>3. CASE step' = "down" /\ UNCHANGED <<offer, failures, delay>>
    BY <1>2, <2>2, <2>3 DEF SelfCheckInterrupted, TypeOK
  <2>4. CASE Failed
    BY <1>2, <2>2, <2>4, SleepType DEF SelfCheckInterrupted, TypeOK
  <2>5. QED BY <1>2, <2>3, <2>4 DEF SelfCheckInterrupted
<1>3. CASE Start \/ OperatorStarts
  <2>1. Launch
    BY <1>3 DEF Start, OperatorStarts
  <2>2. stateFile' \in State
    BY <2>1, StateOperatorsType DEF Launch, TypeOK
  <2>3. running' \in Versions
    BY <2>1 DEF Launch, TypeOK, VersionOrNone
  <2>4. QED
    BY <2>1, <2>2, <2>3, IntervalsAssumption DEF Launch, TypeOK, VersionOrNone
<1>4. QED BY <1>1, <1>2, <1>3

LEMMA StepType == TypeOK /\ [Next]_vars => TypeOK'
<1> SUFFICES ASSUME TypeOK, [Next]_vars PROVE TypeOK'
  OBVIOUS
<1>1. CASE Next
  BY <1>1, ChannelType, FetchType, WorkType, ProcessType DEF Next, Fetch
<1>2. CASE UNCHANGED vars
  BY <1>2 DEF vars, TypeOK, Working
<1>3. QED BY <1>1, <1>2

(* Every variable keeps its type; in particular the loop has a manifest    *)
(* wherever the code dereferences one (CheckNow), and is over once an      *)
(* update is staged (Run).                                                 *)
THEOREM TypeCorrect == Spec => []TypeOK
BY InitType, StepType, PTL DEF Spec

-----------------------------------------------------------------------------
(* The cached validator.                                                   *)

(* A 304 only ever confirms a manifest that this build has verified and    *)
(* whose cadence it follows, whatever the channel serves in between        *)
(* (Source.Manifest caches the ETag after Verify).                         *)
THEOREM ValidatorIsVerified == Spec => []ValidatorIsAdopted
<1>1. Init => ValidatorIsAdopted
  BY DEF Init, ValidatorIsAdopted
<1>2. ValidatorIsAdopted /\ [Next]_vars => ValidatorIsAdopted'
  <2> SUFFICES ASSUME ValidatorIsAdopted, [Next]_vars PROVE ValidatorIsAdopted'
    OBVIOUS
  <2>1. CASE FetchManifest
    BY <2>1 DEF FetchManifest, ValidatorIsAdopted, Verifies
  <2>2. CASE Start \/ OperatorStarts
    BY <2>2 DEF Start, OperatorStarts, Launch, ValidatorIsAdopted
  <2>3. CASE UNCHANGED <<etag, interval, running>>
    BY <2>3 DEF ValidatorIsAdopted, Verifies
  <2>4. QED
    BY <2>1, <2>2, <2>3
    DEF Next, vars, Publish, SignBegins, SignEnds, Withdraw, FetchFails, Fetch,
        FetchUnchanged, Work, DecideStop, DecideNothing, DecideReinstall, Report,
        DecideApply, Download, Preflight, Stage, Wake, Killed,
        SelfCheckInterrupted, loop
<1>3. QED BY <1>1, <1>2, PTL DEF Spec

-----------------------------------------------------------------------------
(* The sleep between two checks.                                           *)

Shortest == IF Interval < MinInterval THEN Interval ELSE MinInterval

CadenceIsBounded == interval >= Shortest

LEMMA BackoffIsBounded ==
    ASSUME NEW d \in Int, d >= Shortest, NEW n \in Nat
    PROVE  Backoff(d, n) \in Shortest .. MaxInterval
<1> USE IntervalsAssumption
<1>1. Shortest \in Nat /\ Shortest <= MaxInterval
  BY DEF Shortest
<1>2. PICK p \in Int : p = Shifted(n) /\ p >= 1
  BY ShiftedIsPositive
<1>3. d * p >= d
  BY <1>1, <1>2
<1>4. d * Shifted(n) >= Shortest /\ d * Shifted(n) \in Int
  BY <1>1, <1>2, <1>3
<1>5. QED BY <1>1, <1>4 DEF Backoff

LEMMA DelaysAreBounded ==
    ASSUME NEW d \in Int, d >= Shortest, NEW n \in Nat,
           NEW t \in Delays(d, n)
    PROVE  t \in (Shortest * 3) \div 4 .. (MaxInterval * 5) \div 4
<1>1. PICK b \in Shortest .. MaxInterval : b = Backoff(d, n)
  BY BackoffIsBounded
<1>2. Shortest \in Nat /\ MaxInterval \in Nat
  BY IntervalsAssumption DEF Shortest
<1>3. t \in {(b * 3) \div 4, b, (b * 5) \div 4}
  BY <1>1 DEF Delays
<1>4. QED BY <1>1, <1>2, <1>3

(* The loop neither spins nor sleeps for good, whatever a manifest asks    *)
(* for and however many checks have failed (NextCheck, nextDelay).         *)
THEOREM TheLoopKeepsItsPace == Spec => []SleepIsBounded
<1> DEFINE Inv == CadenceIsBounded /\ SleepIsBounded
<1>1. Init => Inv
  BY IntervalsAssumption DEF Init, CadenceIsBounded, Shortest, SleepIsBounded
<1>2. TypeOK /\ Inv /\ [Next]_vars => Inv'
  <2> SUFFICES ASSUME TypeOK, Inv, [Next]_vars PROVE Inv'
    OBVIOUS
  <2>1. interval' >= Shortest
    <3>1. CASE FetchManifest
      BY <3>1, ReleaseFields, NextCheckType, IntervalsAssumption
      DEF FetchManifest, Verifies, Shortest
    <3>2. CASE Start \/ OperatorStarts
      BY <3>2, IntervalsAssumption DEF Start, OperatorStarts, Launch, Shortest
    <3>3. CASE UNCHANGED interval
      BY <3>3 DEF CadenceIsBounded
    <3>4. QED
      BY <3>1, <3>2, <3>3
      DEF Next, vars, Publish, SignBegins, SignEnds, Withdraw, FetchFails, Fetch,
          FetchUnchanged, Work, DecideStop, DecideNothing, DecideReinstall, Report,
          DecideApply, Download, Preflight, Stage, Wake, Killed,
          SelfCheckInterrupted, loop
  <2>2. SleepIsBounded'
    <3>1. CASE Succeeded \/ Failed
      <4>1. failures' \in Nat /\ delay' \in Delays(interval, failures')
        BY <3>1, SleepType, IntervalsAssumption DEF TypeOK
      <4>2. delay' \in (Shortest * 3) \div 4 .. (MaxInterval * 5) \div 4
        BY <4>1, DelaysAreBounded DEF TypeOK, CadenceIsBounded
      <4>3. QED BY <4>2 DEF SleepIsBounded, Shortest
    <3>2. CASE step' # "wait" \/ UNCHANGED <<step, delay>>
      BY <3>2 DEF SleepIsBounded
    <3>3. QED
      BY <3>1, <3>2
      DEF Next, vars, Publish, SignBegins, SignEnds, Withdraw, FetchFails, Fetch,
          FetchUnchanged, FetchManifest, Work, DecideStop, DecideNothing,
          DecideReinstall, Report, DecideApply, Download, Preflight, Stage, Wake,
          Killed, SelfCheckInterrupted, Start, OperatorStarts, Launch, loop
  <2>3. QED BY <2>1, <2>2 DEF CadenceIsBounded
<1>3. Inv => SleepIsBounded
  OBVIOUS
<1>4. QED BY <1>1, <1>2, <1>3, InitType, StepType, PTL DEF Spec

-----------------------------------------------------------------------------
(* The reinstall requirement.  As long as every save succeeds, what was    *)
(* reported is what the state file and the memory remember, and what is    *)
(* being reported was not reported before.                                 *)

Remembered ==
    spent.faults = 0 =>
        /\ told # NoVersion =>
              stateFile.reinstallFor = told /\ mem.reinstallFor = told
        /\ step = "report" =>
              /\ told # offer.manifest.version
              /\ stateFile.reinstallFor = offer.manifest.version
              /\ mem.reinstallFor = offer.manifest.version

(* Only two operators touch the requirement.                               *)
LEMMA RequirementFields ==
    ASSUME NEW s \in State, NEW v \in VersionOrNone
    PROVE  /\ Poison(s, v).reinstallFor = s.reinstallFor
           /\ RequireReinstall(s, v).reinstallFor = v
BY DEF Poison, RequireReinstall, State

LEMMA RememberedStep ==
    ASSUME TypeOK, Remembered, [Next]_vars
    PROVE  Remembered'
<1> SUFFICES ASSUME spent'.faults = 0 PROVE Remembered'
  BY DEF Remembered
<1>1. CASE FetchUnchanged \/ FetchManifest
  <2>1. Save(mem) /\ told' = told /\ mem' = mem /\ step' # "report"
    BY <1>1, SleepType DEF FetchUnchanged, FetchManifest, history, TypeOK
  <2>2. spent.faults = 0 /\ stateFile' = mem
    BY <2>1, SaveType DEF TypeOK
  <2>3. QED BY <2>1, <2>2 DEF Remembered
<1>2. CASE DecideReinstall
  <2>1. offer.manifest.version \in Versions /\ offer' = offer
    <3>1. offer \in Releases
      BY <1>2 DEF DecideReinstall, TypeOK, Working
    <3>2. QED BY <1>2, <3>1, ReleaseFields, DecisionNames DEF DecideReinstall, Decision, loop
  <2>2. mem' \in State /\ mem'.reinstallFor = offer.manifest.version
    BY <1>2, <2>1, RequirementFields, StateOperatorsType
    DEF DecideReinstall, TypeOK, VersionOrNone
  <2>3. spent.faults = 0 /\ stateFile' = mem'
    BY <1>2, <2>2, SaveType DEF DecideReinstall, TypeOK
  <2>4. told' = NoVersion
    BY <1>2, <2>3 DEF DecideReinstall, Supersedes, FirstNeedsReinstall, Remembered
  <2>5. offer.manifest.version # NoVersion
    BY <2>1, VersionsAssumption
  <2>6. QED BY <2>1, <2>2, <2>3, <2>4, <2>5 DEF Remembered
<1>3. CASE Report
  BY <1>3, SleepType DEF Report, Remembered, TypeOK
<1>4. CASE DecideApply
  BY <1>4, SleepType DEF DecideApply, Remembered, TypeOK
<1>5. CASE Preflight \/ SelfCheckInterrupted
  <2>1. offer.manifest.version \in VersionOrNone
    BY <1>5, ReleaseFields DEF Preflight, SelfCheckInterrupted, TypeOK, Working
  <2>2. told' = told /\ step' # "report"
    BY <1>5, SleepType DEF Preflight, SelfCheckInterrupted, history, TypeOK
  <2>3. CASE UNCHANGED <<mem, stateFile, spent>>
    BY <2>2, <2>3 DEF Remembered
  <2>4. CASE mem' = Poison(mem, offer.manifest.version) /\ Save(mem')
    <3>1. mem' \in State /\ mem'.reinstallFor = mem.reinstallFor
      BY <2>1, <2>4, RequirementFields, StateOperatorsType DEF TypeOK
    <3>2. spent.faults = 0 /\ stateFile' = mem'
      BY <2>4, <3>1, SaveType DEF TypeOK
    <3>3. QED BY <2>2, <3>1, <3>2 DEF Remembered
  <2>5. CASE SelfCheckInterrupted
    <3>1. mem'.reinstallFor = mem.reinstallFor /\ stateFile' = mem'
      BY <2>1, <2>5, RequirementFields DEF SelfCheckInterrupted, TypeOK
    <3>2. spent.faults = 0
      BY <2>5, KillType DEF SelfCheckInterrupted, TypeOK
    <3>3. QED BY <2>2, <3>1, <3>2 DEF Remembered
  <2>6. QED BY <1>5, <2>3, <2>4, <2>5 DEF Preflight
<1>6. CASE Start \/ OperatorStarts
  <2>1. Launch
    BY <1>6 DEF Start, OperatorStarts
  <2>2. stateFile'.reinstallFor = stateFile.reinstallFor
    BY <2>1, RequirementFields DEF Launch, TypeOK
  <2>3. QED BY <2>1, <2>2 DEF Launch, Remembered
<1>7. CASE /\ UNCHANGED <<mem, stateFile, told>>
           /\ step' # "report" \/ UNCHANGED <<step, offer>>
           /\ spent'.faults = spent.faults
  BY <1>7 DEF Remembered
<1>8. CASE Publish
  BY <1>8, <1>7
  DEF Publish, SignBegins, SignEnds, Withdraw, Spend, TypeOK, Budgets, loop, history
<1>9. CASE Killed
  BY <1>9, <1>7, KillType DEF Killed, TypeOK, loop, history
<1>10. CASE FetchFails \/ DecideNothing \/ Download \/ Stage
  <2>1. step' # "report" /\ UNCHANGED <<mem, stateFile, told, spent>>
    BY <1>10, SleepType DEF FetchFails, DecideNothing, Download, Stage, history, TypeOK
  <2>2. QED BY <1>7, <2>1
<1>11. CASE DecideStop \/ Wake \/ UNCHANGED vars
  BY <1>11, <1>7 DEF DecideStop, Wake, vars, history, loop
<1>12. QED
  BY <1>1, <1>2, <1>3, <1>4, <1>5, <1>6, <1>8, <1>9, <1>10, <1>11
  DEF Next, Fetch, Work

(* A required reinstall is reported once per version, however often the    *)
(* process is killed in between, as long as no save fails                  *)
(* (reportReinstallRequired saves before it reports).                      *)
THEOREM NothingIsReportedTwice == Spec => ReportedOnce
<1>1. Init => Remembered
  BY DEF Init, Remembered
<1>2. Remembered /\ [Next]_vars =>
        (step = "report" /\ step' = "wait" /\ spent.faults = 0
           => told # offer.manifest.version)
  BY DEF Remembered
<1>3. QED BY <1>1, <1>2, InitType, StepType, RememberedStep, PTL DEF Spec, ReportedOnce

=============================================================================
