-------------------------- MODULE AgentStateProofs --------------------------
(***************************************************************************)
(* Lemmas about the operators of module AgentState, for every set of       *)
(* versions and every limit.                                               *)
(***************************************************************************)
EXTENDS AgentState, SequenceTheorems, TLAPS

(* The operators on the state record stay inside State.                    *)

LEMMA NewestType ==
    ASSUME NEW q \in Seq(Versions)
    PROVE  Newest(q) \in Seq(Versions)
<1>1. CASE Len(q) > MaxPoisoned
  <2>1. Len(q) \in Nat /\ MaxPoisoned \in Nat \ {0}
    BY LenProperties, MaxPoisonedAssumption
  <2>2. \A i \in Len(q) - MaxPoisoned + 1 .. Len(q) : q[i] \in Versions
    BY <1>1, <2>1, ElementOfSeq
  <2>3. SubSeq(q, Len(q) - MaxPoisoned + 1, Len(q)) \in Seq(Versions)
    BY <1>1, <2>1, <2>2, SubSeqProperties
  <2> QED
    BY <1>1, <2>3 DEF Newest
<1>2. CASE ~(Len(q) > MaxPoisoned)
  BY <1>2 DEF Newest
<1> QED
  BY <1>1, <1>2

LEMMA StateOperatorsType ==
    ASSUME NEW s \in State, NEW v \in VersionOrNone, NEW w \in VersionOrNone
    PROVE  /\ BeginTrial(s, v, w) \in State
           /\ RecordBoot(s) \in State
           /\ EndTrial(s) \in State
           /\ Poison(s, v) \in State
           /\ Abandon(s) \in State
           /\ RequireReinstall(s, v) \in State
           /\ ClearReinstall(s) \in State
<1>0. 0 \in BootCount
  BY MaxBootAttemptsAssumption DEF BootCount
<1>1. \A u \in VersionOrNone : Poison(s, u) \in State
  <2> SUFFICES ASSUME NEW u \in VersionOrNone PROVE Poison(s, u) \in State
    OBVIOUS
  <2>1. CASE u = NoVersion \/ IsPoisoned(s, u)
    BY <2>1 DEF Poison
  <2>2. CASE ~(u = NoVersion \/ IsPoisoned(s, u))
    <3>1. Append(s.poisoned, u) \in Seq(Versions)
      BY <2>2, AppendProperties DEF State, VersionOrNone
    <3>2. Newest(Append(s.poisoned, u)) \in Seq(Versions)
      BY <3>1, NewestType
    <3> QED
      BY <2>2, <3>2 DEF Poison, State
  <2> QED
    BY <2>1, <2>2
<1>2. \A t \in State : EndTrial(t) \in State
  BY <1>0 DEF EndTrial, State, VersionOrNone
<1>3. s.pending \in VersionOrNone
  BY DEF State
<1>4. Abandon(s) \in State
  BY <1>1, <1>2, <1>3 DEF Abandon
<1>5. /\ BeginTrial(s, v, w) \in State
      /\ RequireReinstall(s, v) \in State
      /\ ClearReinstall(s) \in State
  BY <1>0 DEF BeginTrial, RequireReinstall, ClearReinstall, State, VersionOrNone
<1>6. RecordBoot(s) \in State
  BY MaxBootAttemptsAssumption DEF RecordBoot, State, BootCount
<1> QED
  BY <1>1, <1>2, <1>4, <1>5, <1>6

LEMMA FreshStateType == FreshState \in State
<1>1. 0 \in BootCount
  BY MaxBootAttemptsAssumption DEF BootCount
<1>2. << >> \in Seq(Versions)
  BY EmptySeq
<1> QED
  BY <1>1, <1>2 DEF FreshState, State, VersionOrNone

=============================================================================
