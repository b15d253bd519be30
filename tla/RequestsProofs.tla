--------------------------- MODULE RequestsProofs ---------------------------
(***************************************************************************)
(* Theorems about module Requests, for every window, every set of clock    *)
(* errors and every budget of the network and the server.                  *)
(***************************************************************************)
EXTENDS Requests, TLAPS

(* What is not signed yet is nowhere: without it a new request could meet  *)
(* a nonce that is already in the table.                                   *)
UnsignedNowhere ==
    \A n \in Nonces :
        n > signed => /\ seen[n] = Never
                      /\ copies[n] = 0
                      /\ handling[n] = 0
                      /\ accepted[n] = 0

TypeInv == TypeOK /\ UnsignedNowhere

-----------------------------------------------------------------------------
(* Spending within a budget.                                               *)
LEMMA SpendingType ==
    ASSUME spent \in Budgets,
           \/ Spend("stalls") /\ spent.stalls < MaxStalls
           \/ Spend("damaged") /\ spent.damaged < MaxDamaged
           \/ Spend("restarts") /\ spent.restarts < MaxRestarts
    PROVE  spent' \in Budgets
<1> USE BudgetsAssumption DEF Spend, Budgets
<1>1. CASE Spend("stalls") /\ spent.stalls < MaxStalls
  BY <1>1
<1>2. CASE Spend("damaged") /\ spent.damaged < MaxDamaged
  BY <1>2
<1>3. CASE Spend("restarts") /\ spent.restarts < MaxRestarts
  BY <1>3
<1>4. QED BY <1>1, <1>2, <1>3

LEMMA InitType == Init => TypeInv
<1> SUFFICES ASSUME Init PROVE TypeInv
  OBVIOUS
<1>1. spent \in Budgets
  BY BudgetsAssumption DEF Init, Budgets
<1>2. TypeOK
  BY <1>1, ClockAssumption, BudgetsAssumption DEF Init, TypeOK, Moments, Known
<1>3. UnsignedNowhere
  BY DEF Init, UnsignedNowhere
<1>4. QED BY <1>2, <1>3 DEF TypeInv

(* Signing takes the next nonce.                                           *)
LEMMA SignType == ASSUME TypeInv, NEW i \in Installs, Sign(i) PROVE TypeInv'
<1> USE ClockAssumption, BudgetsAssumption
<1>1. signed' \in Nonces /\ signed' = signed + 1
  BY DEF TypeInv, TypeOK, Sign, Nonces
<1>2. PICK s \in Int : stamp' = [stamp EXCEPT ![signed'] = s]
  <2>1. now + ahead[i] \in Int /\ Second \in Int
    <3>1. now \in Int /\ ahead[i] \in Drifts
      BY i \in Installs DEF TypeInv, TypeOK, Moments
    <3>2. Drifts \subseteq Int /\ Second \in Int
      OBVIOUS
    <3>3. ahead[i] \in Int
      BY <3>1, <3>2, Zenon
    <3>4. QED BY <3>1, <3>2, <3>3
  <2>2. PICK s \in now + ahead[i] - Second + 1 .. now + ahead[i] :
            stamp' = [stamp EXCEPT ![signed'] = s]
    BY DEF Sign
  <2>3. s \in Int
    BY <2>1, <2>2
  <2>4. QED BY <2>2, <2>3
<1>3. seen[signed'] = Never /\ seen' = seen /\ keys' = keys
  BY <1>1 DEF Sign, TypeInv, TypeOK, UnsignedNowhere, server
<1>4. sender' = [sender EXCEPT ![signed'] = i]
  BY DEF Sign
<1>5. \A n \in Nonces : seen'[n] # Never => Known(n)'
  BY <1>1, <1>3, <1>4 DEF TypeInv, TypeOK, Known
<1>6. /\ sender' \in [Nonces -> Installs]
      /\ stamp' \in [Nonces -> Int]
  BY <1>2, <1>4, i \in Installs DEF TypeInv, TypeOK
<1>7. signedAt' \in [Nonces -> Moments]
  BY DEF Sign, TypeInv, TypeOK
<1>8. copies' \in [Nonces -> 0 .. MaxCopies]
  <2>1. copies' = [copies EXCEPT ![signed'] = MaxCopies]
    BY DEF Sign
  <2>2. MaxCopies \in 0 .. MaxCopies /\ copies \in [Nonces -> 0 .. MaxCopies]
    BY DEF TypeInv, TypeOK
  <2>3. QED BY <2>1, <2>2
<1>9. TypeOK'
  <2>1. signed' \in 0 .. MaxRequests
    BY <1>1 DEF Nonces
  <2>2. UNCHANGED <<now, ahead, enrolled, keys, seen, handling, accepted, last, spent>>
    BY DEF Sign, server, counts
  <2>3. QED BY <1>5, <1>6, <1>7, <1>8, <2>1, <2>2 DEF TypeInv, TypeOK
<1>10. UnsignedNowhere'
  BY <1>1 DEF Sign, TypeInv, TypeOK, UnsignedNowhere, server, counts, Nonces
<1>11. QED BY <1>9, <1>10 DEF TypeInv

LEMMA AdmitType == ASSUME TypeInv, NEW n \in Nonces, Admit(n) PROVE TypeInv'
<1> USE ClockAssumption, BudgetsAssumption
<1>1. /\ handling[n] > 0 /\ n <= signed
      /\ handling' \in [Nonces -> Nat]
      /\ handling' = [handling EXCEPT ![n] = @ - 1]
  <2>1. /\ handling[n] > 0 /\ handling' = [handling EXCEPT ![n] = @ - 1]
        /\ handling[n] \in Nat /\ n \in Int /\ signed \in Int
    BY DEF Admit, Handled, TypeInv, TypeOK, Nonces
  <2>2. n <= signed
    BY <2>1 DEF TypeInv, UnsignedNowhere
  <2>3. handling' \in [Nonces -> Nat]
    BY <2>1 DEF TypeInv, TypeOK
  <2>4. QED BY <2>1, <2>2, <2>3
<1>2. seen' = [m \in Nonces |->
                  IF [seen EXCEPT ![n] = now][m] < now - MaxClockSkew
                  THEN Never ELSE [seen EXCEPT ![n] = now][m]]
  BY DEF Admit, Expire
<1>3. seen' \in [Nonces -> Moments \cup {Never}]
  BY <1>2 DEF TypeInv, TypeOK
<1>4. \A m \in Nonces : seen'[m] # Never => Known(m)'
  BY <1>2 DEF Admit, Known, TypeInv, TypeOK, requests
<1>5. accepted' \in [Nonces -> Nat] /\ last' \in [Nonces -> Moments]
  BY DEF Admit, TypeInv, TypeOK, counts
<1>6. spent' \in Budgets
  BY SpendingType DEF Admit, TypeInv, TypeOK
<1>7. TypeOK'
  BY <1>1, <1>3, <1>4, <1>5, <1>6 DEF Admit, TypeInv, TypeOK, requests
<1>8. UnsignedNowhere'
  <2>1. ASSUME NEW m \in Nonces, m > signed
        PROVE  m # n /\ seen'[m] = Never /\ copies'[m] = 0 /\ handling'[m] = 0
                 /\ accepted'[m] = 0
    <3>1. m # n
      BY <1>1, <2>1 DEF Nonces, TypeInv, TypeOK
    <3>2. seen[m] = Never /\ copies[m] = 0 /\ handling[m] = 0 /\ accepted[m] = 0
      BY <2>1 DEF TypeInv, UnsignedNowhere
    <3>3. seen'[m] = Never
      BY <1>2, <3>1, <3>2 DEF TypeInv, TypeOK
    <3>4. handling'[m] = 0 /\ copies'[m] = 0
      BY <1>1, <3>1, <3>2 DEF Admit, TypeInv, TypeOK
    <3>5. accepted'[m] = 0
      BY <3>1, <3>2 DEF Admit, TypeInv, TypeOK, counts
    <3>6. QED BY <3>1, <3>2, <3>3, <3>4, <3>5
  <2>2. signed' = signed
    BY DEF Admit, requests
  <2>3. QED BY <2>1, <2>2 DEF UnsignedNowhere
<1>9. QED BY <1>7, <1>8 DEF TypeInv

LEMMA StepType == TypeInv /\ [Next]_vars => TypeInv'
<1> SUFFICES ASSUME TypeInv, [Next]_vars PROVE TypeInv'
  OBVIOUS
<1> USE ClockAssumption, BudgetsAssumption
    DEF TypeInv, TypeOK, UnsignedNowhere, Known, requests, server, counts
<1>1. ASSUME NEW i \in Installs, Enroll(i) PROVE TypeInv'
  BY <1>1 DEF Enroll
<1>2. ASSUME NEW i \in Installs, Sign(i) PROVE TypeInv'
  BY <1>2, SignType
<1>3. ASSUME NEW n \in Nonces, Arrive(n) PROVE TypeInv'
  BY <1>3 DEF Arrive, Arrives
<1>4. ASSUME NEW n \in Nonces, OutsideWindow(n) PROVE TypeInv'
  BY <1>4 DEF OutsideWindow, Arrives
<1>5. ASSUME NEW n \in Nonces, Turned(n) PROVE TypeInv'
  BY <1>5 DEF Turned, Handled
<1>6. ASSUME NEW n \in Nonces, Admit(n) PROVE TypeInv'
  BY <1>6, AdmitType
<1>7. ASSUME Tick PROVE TypeInv'
  <2>1. spent' \in Budgets
    BY <1>7, SpendingType DEF Tick
  <2>2. QED BY <1>7, <2>1 DEF Tick, Moments
<1>8. ASSUME Restart PROVE TypeInv'
  <2>1. spent' \in Budgets
    BY <1>8, SpendingType DEF Restart
  <2>2. QED BY <1>8, <2>1 DEF Restart
<1>9. CASE UNCHANGED vars
  BY <1>9 DEF vars
<1>10. QED
  BY <1>1, <1>2, <1>3, <1>4, <1>5, <1>6, <1>7, <1>8, <1>9 DEF Next

(* Every table and clock keeps its type, and nobody the server does not    *)
(* know has a place in the table of nonces (authenticate looks the install *)
(* up first).                                                              *)
THEOREM TypeCorrect == Spec => []TypeOK
<1>1. Spec => []TypeInv
  BY InitType, StepType, PTL DEF Spec
<1>2. TypeInv => TypeOK
  BY DEF TypeInv
<1>3. QED BY <1>1, <1>2, PTL

-----------------------------------------------------------------------------
(* The table and the clock.                                                *)

NothingFromTheFuture == \A n \in Nonces : seen[n] <= now /\ last[n] <= now

SpanInv == NothingFromTheFuture /\ TableSpansOneWindow

LEMMA SpanStep == TypeInv /\ SpanInv /\ [Next]_vars => SpanInv'
<1> SUFFICES ASSUME TypeInv, SpanInv, [Next]_vars PROVE SpanInv'
  OBVIOUS
<1> USE ClockAssumption DEF SpanInv, NothingFromTheFuture, TableSpansOneWindow
<1>1. ASSUME UNCHANGED <<seen, last, now>> PROVE SpanInv'
  BY <1>1
<1>2. ASSUME NEW n \in Nonces, Admit(n) PROVE SpanInv'
  <2>1. now' = now
    BY <1>2 DEF Admit
  <2>2. \A m \in Nonces : seen'[m] # Never => seen'[m] \in now - MaxClockSkew .. now
    BY <1>2 DEF Admit, Expire, TypeInv, TypeOK, Moments, Never
  <2>3. \A m \in Nonces : seen'[m] <= now
    BY <1>2 DEF Admit, Expire, TypeInv, TypeOK, Moments, Never
  <2>6. \A m \in Nonces : last'[m] <= now
    BY <1>2 DEF Admit, counts, TypeInv, TypeOK, Moments
  <2>4. now \in Int
    BY DEF TypeInv, TypeOK, Moments
  <2>5. QED BY <2>1, <2>2, <2>3, <2>4, <2>6
<1>3. ASSUME Tick PROVE SpanInv'
  BY <1>3 DEF Tick, server, counts, TypeInv, TypeOK, Moments, Never
<1>4. ASSUME Restart PROVE SpanInv'
  BY <1>4 DEF Restart, counts, TypeInv, TypeOK, Moments, Never
<1>5. QED
  BY <1>1, <1>2, <1>3, <1>4
  DEF Next, vars, Enroll, Sign, Arrive, OutsideWindow, Turned, server, counts

(* The table holds one window's worth of nonces, for any clocks, delays    *)
(* and restarts (expireNoncesLocked).                                      *)
THEOREM TableIsBounded == Spec => []TableSpansOneWindow
<1>1. Init => SpanInv
  BY DEF Init, SpanInv, NothingFromTheFuture, TableSpansOneWindow, Never
<1>2. Spec => []TypeInv
  BY InitType, StepType, PTL DEF Spec
<1>3. SpanInv => TableSpansOneWindow
  BY DEF SpanInv
<1>4. QED BY <1>1, <1>2, <1>3, SpanStep, PTL DEF Spec

-----------------------------------------------------------------------------
(* A request that was counted.  Its sender is one that has enrolled, so    *)
(* that a server that forgot the sender never knows it again.              *)

SendersEnrolled == \A n \in Nonces : n <= signed => sender[n] \in enrolled

Forgotten(n) == sender[n] \notin keys

CountedIsKept ==
    \A n \in Nonces :
        accepted[n] > 0 => \/ Forgotten(n)
                           \/ seen[n] # Never /\ last[n] <= seen[n]
                           \/ now - last[n] > MaxClockSkew

ApartInv == SendersEnrolled /\ CountedIsKept

LEMMA SendersStep ==
    ASSUME TypeInv, SendersEnrolled, [Next]_vars
    PROVE  /\ SendersEnrolled'
           /\ \A n \in Nonces : n <= signed => sender'[n] = sender[n]
           /\ \A n \in Nonces : n <= signed /\ Forgotten(n) => Forgotten(n)'
<1>1. ASSUME NEW i \in Installs, Sign(i)
      PROVE  /\ SendersEnrolled'
             /\ \A n \in Nonces : n <= signed => sender'[n] = sender[n]
             /\ keys' = keys
  <2>1. /\ signed' = signed + 1 /\ signed \in Int /\ i \in enrolled
        /\ enrolled' = enrolled /\ keys' = keys
        /\ sender' = [sender EXCEPT ![signed'] = i]
    BY <1>1 DEF Sign, server, TypeInv, TypeOK
  <2>2. \A n \in Nonces : n <= signed => sender'[n] = sender[n]
    BY <2>1 DEF Nonces, TypeInv, TypeOK
  <2>3. \A n \in Nonces : n <= signed' => n <= signed \/ n = signed'
    BY <2>1 DEF Nonces
  <2>4. signed' \in Nonces => sender'[signed'] = i
    BY <2>1 DEF TypeInv, TypeOK
  <2>5. SendersEnrolled'
    BY <2>1, <2>2, <2>3, <2>4 DEF SendersEnrolled
  <2>6. QED BY <2>1, <2>2, <2>5
<1>2. ASSUME NEW i \in Installs, Enroll(i)
      PROVE  /\ SendersEnrolled' /\ sender' = sender
             /\ \A n \in Nonces : n <= signed /\ Forgotten(n) => Forgotten(n)'
  BY <1>2 DEF Enroll, requests, SendersEnrolled, Forgotten
<1>3. ASSUME keys' \subseteq keys, UNCHANGED <<enrolled, signed, sender>>
      PROVE  /\ SendersEnrolled' /\ sender' = sender
             /\ \A n \in Nonces : n <= signed /\ Forgotten(n) => Forgotten(n)'
  BY <1>3 DEF SendersEnrolled, Forgotten
<1>4. \/ \E i \in Installs : Enroll(i) \/ Sign(i)
      \/ keys' \subseteq keys /\ UNCHANGED <<enrolled, signed, sender>>
  BY DEF Next, vars, Arrive, OutsideWindow, Turned, Admit, Tick, Restart, requests, server
<1>5. QED BY <1>1, <1>2, <1>3, <1>4 DEF Forgotten

(* A request that was counted stays in the table, or the window has passed *)
(* since, or the server has forgotten the sender.                          *)
LEMMA CountedStep ==
    ASSUME TypeInv, SpanInv, ApartInv, [Next]_vars
    PROVE  CountedIsKept'
<1> SUFFICES ASSUME NEW m \in Nonces, accepted'[m] > 0
             PROVE  \/ Forgotten(m)'
                    \/ seen'[m] # Never /\ last'[m] <= seen'[m]
                    \/ now' - last'[m] > MaxClockSkew
  BY DEF CountedIsKept
<1> USE ClockAssumption
<1>1. /\ now \in Int /\ seen[m] \in Int /\ last[m] \in Int /\ accepted[m] \in Nat
      /\ m \in Int /\ signed \in Int /\ last[m] <= now
  BY DEF TypeInv, TypeOK, Moments, Never, Nonces, SpanInv, NothingFromTheFuture
<1>2. CASE accepted[m] > 0 /\ Forgotten(m)
  <2>1. m <= signed
    BY <1>1, <1>2 DEF TypeInv, UnsignedNowhere
  <2>2. QED BY <1>2, <2>1, SendersStep DEF ApartInv
<1>3. ASSUME now' >= now, now' \in Int, UNCHANGED <<seen, accepted, last>>,
             ~Forgotten(m)
      PROVE  \/ seen'[m] # Never /\ last'[m] <= seen'[m]
             \/ now' - last'[m] > MaxClockSkew
  BY <1>1, <1>3 DEF ApartInv, CountedIsKept
<1>4. ASSUME NEW n \in Nonces, Admit(n), accepted[m] > 0 => ~Forgotten(m)
      PROVE  \/ seen'[m] # Never /\ last'[m] <= seen'[m]
             \/ now' - last'[m] > MaxClockSkew
  <2>1. now' = now
    BY <1>4 DEF Admit
  <2>2. CASE m = n
    <3>1. seen'[n] = now
      BY <1>4, <1>1, <2>2 DEF Admit, Expire, TypeInv, TypeOK
    <3>2. last'[n] = now \/ last'[n] = last[n]
      BY <1>4 DEF Admit, counts, TypeInv, TypeOK
    <3>3. now # Never
      BY DEF TypeInv, TypeOK, Moments, Never
    <3>4. QED BY <1>1, <2>2, <3>1, <3>2, <3>3
  <2>3. CASE m # n
    <3>1. last'[m] = last[m] /\ accepted'[m] = accepted[m]
      BY <1>4, <2>3 DEF Admit, counts, TypeInv, TypeOK
    <3>2. seen'[m] = IF seen[m] < now - MaxClockSkew THEN Never ELSE seen[m]
      BY <1>4, <2>3 DEF Admit, Expire, TypeInv, TypeOK
    <3>3. QED BY <1>1, <1>4, <2>1, <3>1, <3>2 DEF ApartInv, CountedIsKept
  <2>4. QED BY <2>2, <2>3
<1>5. CASE Restart
  BY <1>5 DEF Restart, Forgotten
<1>6. \/ now' >= now /\ now' \in Int /\ UNCHANGED <<seen, accepted, last>>
      \/ \E n \in Nonces : Admit(n)
      \/ Restart
  BY <1>1 DEF Next, vars, Enroll, Sign, Arrive, OutsideWindow, Turned, Tick,
              server, counts
<1>7. (\E n \in Nonces : Admit(n)) \/ accepted' = accepted
  BY DEF Next, vars, Enroll, Sign, Arrive, OutsideWindow, Turned, Tick, Restart, counts
<1>8. QED BY <1>2, <1>3, <1>4, <1>5, <1>6, <1>7

(* Only a nonce that is not in the table, of an install that is known, is  *)
(* counted.                                                                *)
LEMMA CountingStep ==
    ASSUME TypeInv, [Next]_vars, NEW m \in Nonces, accepted'[m] # accepted[m]
    PROVE  Admit(m) /\ now' = now
<1>1. PICK n \in Nonces : Admit(n)
  BY DEF Next, vars, Enroll, Sign, Arrive, OutsideWindow, Turned, Tick, Restart, counts
<1>2. m = n
  BY <1>1 DEF Admit, counts, TypeInv, TypeOK
<1>3. QED BY <1>1, <1>2 DEF Admit

(* A second acceptance of a request is further from the first than the     *)
(* window is long, whatever the clocks, the handlers, the network and the  *)
(* restarts do (authenticate, expireNoncesLocked).                         *)
THEOREM AcceptancesAreApart == Spec => AcceptedApart
<1>1. Init => SpanInv /\ ApartInv
  BY DEF Init, SpanInv, NothingFromTheFuture, TableSpansOneWindow, Never, ApartInv,
         SendersEnrolled, CountedIsKept, Nonces
<1>2. TypeInv /\ SpanInv /\ ApartInv /\ [Next]_vars => ApartInv'
  BY SendersStep, CountedStep DEF ApartInv
<1>3. ASSUME TypeInv, ApartInv, [Next]_vars
      PROVE  \A n \in Nonces : accepted[n] > 0 /\ accepted'[n] > accepted[n]
                 => now - last[n] > MaxClockSkew
  <2>1. SUFFICES ASSUME NEW n \in Nonces, accepted[n] > 0, accepted'[n] > accepted[n]
                 PROVE  now - last[n] > MaxClockSkew
    OBVIOUS
  <2>2. accepted[n] \in Nat /\ accepted'[n] \in Nat
    BY <1>3, StepType DEF TypeInv, TypeOK
  <2>3. Admit(n)
    BY <1>3, <2>1, <2>2, CountingStep
  <2>4. seen[n] = Never /\ ~Forgotten(n)
    BY <2>3 DEF Admit, Known, Forgotten
  <2>5. QED
    BY <1>3, <2>1, <2>4 DEF ApartInv, CountedIsKept
<1>4. Spec => []TypeInv
  BY InitType, StepType, PTL DEF Spec
<1>5. QED
  BY <1>1, <1>2, <1>3, <1>4, SpanStep, PTL DEF Spec, AcceptedApart

-----------------------------------------------------------------------------
(* How much time the times that a request was counted have taken, and how  *)
(* much of it there is: from the moment that the server's clock may accept *)
(* the timestamp, or that the request was signed, to the end of the window *)
(* and of the time that handlers were held up.                             *)

Taken(n) == (accepted[n] - 1) * (MaxClockSkew + 1)

StampedBefore ==
    \A n \in Nonces : n <= signed => stamp[n] <= now + ahead[sender[n]]

HandledInTime ==
    \A n \in Nonces :
        handling[n] > 0 => now - stamp[n] \in -MaxClockSkew .. MaxClockSkew + spent.stalls

CountedInTime ==
    \A n \in Nonces :
        accepted[n] > 0 => /\ last[n] - stamp[n] <= MaxClockSkew + spent.stalls
                           /\ Taken(n) <= last[n] - stamp[n] + ahead[sender[n]]
                           /\ Taken(n) <= last[n] - stamp[n] + MaxClockSkew

RoomInv == StampedBefore /\ HandledInTime /\ CountedInTime

LEMMA DriftsAreNumbers ==
    ASSUME TypeInv, NEW i \in Installs PROVE ahead[i] \in Int
<1>1. ahead[i] \in Drifts
  BY DEF TypeInv, TypeOK
<1>2. QED BY <1>1, ClockAssumption, Zenon

LEMMA NumbersOf ==
    ASSUME TypeInv, NEW n \in Nonces
    PROVE  /\ now \in Int /\ stamp[n] \in Int /\ last[n] \in Int /\ Taken(n) \in Int
           /\ accepted[n] \in Nat /\ handling[n] \in Nat /\ spent.stalls \in Nat
           /\ ahead[sender[n]] \in Int /\ n \in Int /\ signed \in Int
           /\ MaxClockSkew \in Nat
<1>1. /\ now \in Int /\ stamp[n] \in Int /\ last[n] \in Int
      /\ accepted[n] \in Nat /\ handling[n] \in Nat /\ spent.stalls \in Nat
      /\ sender[n] \in Installs /\ n \in Int /\ signed \in Int
      /\ MaxClockSkew \in Nat
  BY ClockAssumption, BudgetsAssumption DEF TypeInv, TypeOK, Moments, Budgets, Nonces
<1>2. ahead[sender[n]] \in Int
  BY <1>1, DriftsAreNumbers
<1>3. Taken(n) \in Int
  BY <1>1 DEF Taken
<1>4. QED BY <1>1, <1>2, <1>3

(* Being counted takes nothing the first time, then a window each time.    *)
LEMMA TakenSteps ==
    ASSUME TypeInv, NEW n \in Nonces, accepted'[n] = accepted[n] + 1
    PROVE  /\ accepted[n] = 0 => Taken(n)' = 0
           /\ Taken(n)' = Taken(n) + MaxClockSkew + 1
<1>1. accepted[n] \in Int /\ MaxClockSkew \in Int
  BY NumbersOf
<1>2. \A k, w \in Int : /\ (k + 1 - 1) * (w + 1) = (k - 1) * (w + 1) + w + 1
                        /\ (0 + 1 - 1) * (w + 1) = 0
  OBVIOUS
<1>3. QED BY <1>1, <1>2 DEF Taken

(* A request that is signed has not arrived, and carries the signer's time.*)
LEMMA RoomSign ==
    ASSUME TypeInv, RoomInv, NEW i \in Installs, Sign(i)
    PROVE  RoomInv'
<1>1. /\ signed' = signed + 1 /\ signed' \in Nonces /\ signed \in Int
      /\ UNCHANGED <<now, ahead, handling, accepted, last, spent>>
      /\ sender' = [sender EXCEPT ![signed'] = i]
  BY BudgetsAssumption DEF Sign, TypeInv, TypeOK, Nonces, server, counts
<1>2. PICK s \in now + ahead[i] - Second + 1 .. now + ahead[i] :
          /\ WholeSeconds(s, now + ahead[i])
          /\ stamp' = [stamp EXCEPT ![signed'] = s]
  BY DEF Sign
<1>3. /\ sender'[signed'] = i /\ stamp'[signed'] = s
      /\ handling[signed'] = 0 /\ accepted[signed'] = 0
  BY <1>1, <1>2 DEF TypeInv, TypeOK, UnsignedNowhere
<1>4. s <= now + ahead[i]
  BY <1>2, DriftsAreNumbers, ClockAssumption DEF WholeSeconds
<1>5. \A m \in Nonces : m # signed' => sender'[m] = sender[m] /\ stamp'[m] = stamp[m]
  BY <1>1, <1>2 DEF TypeInv, TypeOK
<1>6. \A m \in Nonces : m <= signed' => m = signed' \/ m <= signed
  BY <1>1 DEF Nonces
<1>7. \A m \in Nonces : Taken(m)' = Taken(m)
  BY <1>1 DEF Taken
<1>8. StampedBefore'
  BY <1>1, <1>3, <1>4, <1>5, <1>6 DEF RoomInv, StampedBefore
<1>9. HandledInTime'
  BY <1>1, <1>3, <1>5 DEF RoomInv, HandledInTime
<1>10. CountedInTime'
  <2>1. SUFFICES ASSUME NEW m \in Nonces, accepted[m] > 0
                 PROVE  sender'[m] = sender[m] /\ stamp'[m] = stamp[m]
    BY <1>1, <1>7 DEF RoomInv, CountedInTime
  <2>2. QED BY <1>3, <1>5, <2>1
<1>11. QED BY <1>8, <1>9, <1>10 DEF RoomInv

(* A request that is counted once more is counted a window later.          *)
LEMMA RoomAdmit ==
    ASSUME TypeInv, ApartInv, RoomInv, NEW n \in Nonces, Admit(n)
    PROVE  RoomInv'
<1>1. /\ UNCHANGED <<now, ahead, signed, sender, stamp>>
      /\ spent'.stalls = spent.stalls
      /\ handling[n] > 0 /\ seen[n] = Never /\ ~Forgotten(n)
  BY DEF Admit, Handled, Known, Forgotten, requests, Spend, TypeInv, TypeOK, Budgets
<1>2. \A m \in Nonces : handling'[m] > 0 => handling[m] > 0
  BY NumbersOf DEF Admit, Handled, TypeInv, TypeOK
<1>3. StampedBefore' /\ HandledInTime'
  BY <1>1, <1>2 DEF RoomInv, StampedBefore, HandledInTime
<1>4. CountedInTime'
  <2>1. SUFFICES ASSUME NEW m \in Nonces, accepted'[m] > 0
                 PROVE  /\ last'[m] - stamp[m] <= MaxClockSkew + spent.stalls
                        /\ Taken(m)' <= last'[m] - stamp[m] + ahead[sender[m]]
                        /\ Taken(m)' <= last'[m] - stamp[m] + MaxClockSkew
    BY <1>1 DEF CountedInTime
  <2>2. CASE accepted'[m] = accepted[m] /\ last'[m] = last[m]
    <3>1. Taken(m)' = Taken(m)
      BY <2>2 DEF Taken
    <3>2. QED BY <2>1, <2>2, <3>1 DEF RoomInv, CountedInTime
  <2>3. CASE m = n /\ accepted'[n] = accepted[n] + 1 /\ last'[n] = now
    <3>1. /\ now - stamp[n] <= MaxClockSkew + spent.stalls
          /\ now - stamp[n] >= -MaxClockSkew
          /\ now - stamp[n] >= -ahead[sender[n]]
      <4>1. n <= signed
        BY <1>1, NumbersOf DEF TypeInv, UnsignedNowhere
      <4>2. stamp[n] <= now + ahead[sender[n]]
        BY <4>1 DEF RoomInv, StampedBefore
      <4>3. now - stamp[n] \in -MaxClockSkew .. MaxClockSkew + spent.stalls
        BY <1>1 DEF RoomInv, HandledInTime
      <4>4. QED BY <4>2, <4>3, NumbersOf
    <3>2. CASE accepted[n] = 0
      <4>1. Taken(n)' = 0
        BY <2>3, <3>2, TakenSteps
      <4>2. QED BY <2>3, <3>1, <4>1, NumbersOf
    <3>3. CASE accepted[n] > 0
      <4>1. now - last[n] > MaxClockSkew
        BY <1>1, <3>3 DEF ApartInv, CountedIsKept
      <4>2. Taken(n)' = Taken(n) + MaxClockSkew + 1
        BY <2>3, TakenSteps
      <4>3. /\ Taken(n) <= last[n] - stamp[n] + ahead[sender[n]]
            /\ Taken(n) <= last[n] - stamp[n] + MaxClockSkew
        BY <3>3 DEF RoomInv, CountedInTime
      <4>4. QED BY <2>3, <3>1, <4>1, <4>2, <4>3, NumbersOf
    <3>4. QED BY <3>2, <3>3, NumbersOf
  <2>4. QED BY <2>2, <2>3 DEF Admit, counts, TypeInv, TypeOK
<1>5. QED BY <1>3, <1>4 DEF RoomInv

LEMMA RoomStep ==
    ASSUME TypeInv, ApartInv, RoomInv, [Next]_vars
    PROVE  RoomInv'
<1>1. ASSUME NEW i \in Installs, Sign(i) PROVE RoomInv'
  BY <1>1, RoomSign
<1>2. ASSUME NEW n \in Nonces, Admit(n) PROVE RoomInv'
  BY <1>2, RoomAdmit
<1>3. ASSUME UNCHANGED <<ahead, signed, sender, stamp, accepted, last>>,
             now' \in Int, now' >= now,
             spent'.stalls \in Int, spent'.stalls >= spent.stalls,
             HandledInTime'
      PROVE  RoomInv'
  <2>1. \A m \in Nonces : Taken(m)' = Taken(m)
    BY <1>3 DEF Taken
  <2>2. StampedBefore'
    BY <1>3, NumbersOf DEF RoomInv, StampedBefore
  <2>3. CountedInTime'
    BY <1>3, <2>1, NumbersOf DEF RoomInv, CountedInTime
  <2>4. QED BY <1>3, <2>2, <2>3 DEF RoomInv
<1>4. now \in Int /\ spent.stalls \in Nat
  BY DEF TypeInv, TypeOK, Moments, Budgets
<1>5. CASE UNCHANGED vars
  BY <1>3, <1>4, <1>5 DEF vars, RoomInv, HandledInTime
<1>6. ASSUME NEW i \in Installs, Enroll(i) PROVE RoomInv'
  BY <1>3, <1>4, <1>6 DEF Enroll, requests, counts, RoomInv, HandledInTime
<1>7. ASSUME NEW n \in Nonces, Arrive(n) PROVE RoomInv'
  <2>1. UNCHANGED <<now, ahead, signed, sender, stamp, accepted, last, spent>>
    BY <1>7 DEF Arrive, requests, counts
  <2>2. HandledInTime'
    <3>1. SUFFICES ASSUME NEW m \in Nonces, handling'[m] > 0
                   PROVE  now - stamp[m] \in -MaxClockSkew .. MaxClockSkew + spent.stalls
      BY <2>1 DEF HandledInTime
    <3>2. CASE m = n
      BY <1>7, <3>2, NumbersOf DEF Arrive, InWindow
    <3>3. CASE m # n
      BY <1>7, <3>1, <3>3 DEF Arrive, TypeInv, TypeOK, RoomInv, HandledInTime
    <3>4. QED BY <3>2, <3>3
  <2>3. QED BY <1>3, <1>4, <2>1, <2>2
<1>8. ASSUME NEW n \in Nonces, OutsideWindow(n) \/ Turned(n) PROVE RoomInv'
  <2>1. UNCHANGED <<now, ahead, signed, sender, stamp, accepted, last, spent>>
    BY <1>8 DEF OutsideWindow, Turned, requests, counts
  <2>2. \A m \in Nonces : handling'[m] > 0 => handling[m] > 0
    BY <1>8, NumbersOf DEF OutsideWindow, Turned, Handled, TypeInv, TypeOK
  <2>3. HandledInTime'
    BY <2>1, <2>2 DEF RoomInv, HandledInTime
  <2>4. QED BY <1>3, <1>4, <2>1, <2>3
<1>9. CASE Tick
  <2>1. /\ UNCHANGED <<ahead, signed, sender, stamp, accepted, last, handling>>
        /\ now' = now + 1
    BY <1>9 DEF Tick, requests, counts
  <2>2. CASE Busy
    <3>1. spent'.stalls = spent.stalls + 1
      BY <1>9, <2>2 DEF Tick, Spend, TypeInv, TypeOK, Budgets
    <3>2. HandledInTime'
      BY <2>1, <3>1, NumbersOf DEF RoomInv, HandledInTime
    <3>3. QED BY <1>3, <1>4, <2>1, <3>1, <3>2
  <2>3. CASE ~Busy
    <3>1. spent' = spent
      BY <1>9, <2>3 DEF Tick
    <3>2. HandledInTime'
      BY <2>1, <2>3, NumbersOf DEF Busy, HandledInTime
    <3>3. QED BY <1>3, <1>4, <2>1, <3>1, <3>2
  <2>4. QED BY <2>2, <2>3
<1>10. CASE Restart
  <2>1. /\ UNCHANGED <<now, ahead, signed, sender, stamp, accepted, last>>
        /\ spent'.stalls = spent.stalls
        /\ \A m \in Nonces : handling'[m] = 0
    BY <1>10 DEF Restart, requests, counts, Spend, TypeInv, TypeOK, Budgets
  <2>2. HandledInTime'
    BY <2>1 DEF HandledInTime
  <2>3. QED BY <1>3, <1>4, <2>1, <2>2
<1>11. QED
  BY <1>1, <1>2, <1>5, <1>6, <1>7, <1>8, <1>9, <1>10 DEF Next

(* However requests are repeated, delayed or handed to a restarted server, *)
(* each time that one is counted after the first takes a window, of which  *)
(* the timestamp leaves no more than a clock that is ahead and held-up     *)
(* handlers add to it (authenticate, expireNoncesLocked).                  *)
THEOREM RepeatsNeedWindows == Spec => []RepeatsAreBounded
<1>1. Init => SpanInv /\ ApartInv /\ RoomInv
  <2>1. Init => SpanInv /\ ApartInv
    BY DEF Init, SpanInv, NothingFromTheFuture, TableSpansOneWindow, Never, ApartInv,
           SendersEnrolled, CountedIsKept, Nonces
  <2>2. Init => RoomInv
    BY DEF Init, RoomInv, StampedBefore, HandledInTime, CountedInTime, Nonces
  <2>3. QED BY <2>1, <2>2
<1>2. TypeInv /\ SpanInv /\ ApartInv /\ RoomInv /\ [Next]_vars => ApartInv' /\ RoomInv'
  BY SendersStep, CountedStep, RoomStep DEF ApartInv
<1>3. TypeInv /\ RoomInv => RepeatsAreBounded
  <2> SUFFICES ASSUME TypeInv, RoomInv, NEW n \in Nonces, accepted[n] > 0
               PROVE  /\ Taken(n) <= MaxClockSkew + spent.stalls + ahead[sender[n]]
                      /\ Taken(n) <= MaxClockSkew + spent.stalls + MaxClockSkew
    BY DEF RepeatsAreBounded, Taken
  <2>1. /\ last[n] - stamp[n] <= MaxClockSkew + spent.stalls
        /\ Taken(n) <= last[n] - stamp[n] + ahead[sender[n]]
        /\ Taken(n) <= last[n] - stamp[n] + MaxClockSkew
    BY DEF RoomInv, CountedInTime
  <2>2. QED BY <2>1, NumbersOf
<1>4. Spec => []TypeInv
  BY InitType, StepType, PTL DEF Spec
<1>5. QED
  BY <1>1, <1>2, <1>3, <1>4, SpanStep, PTL DEF Spec

(* In particular a request whose sender's clock is not ahead is counted    *)
(* once, as long as no handler is held up between its checks.              *)
CountedOnce ==
    \A n \in Nonces :
        ahead[sender[n]] <= 0 /\ spent.stalls = 0 => accepted[n] <= 1

THEOREM NothingCountsTwice == Spec => []CountedOnce
<1>1. TypeInv /\ RepeatsAreBounded => CountedOnce
  <2>1. SUFFICES ASSUME TypeInv, RepeatsAreBounded, NEW n \in Nonces,
                        ahead[sender[n]] <= 0, spent.stalls = 0, accepted[n] > 1
                 PROVE  FALSE
    BY NumbersOf DEF CountedOnce
  <2>2. Taken(n) <= MaxClockSkew + spent.stalls + ahead[sender[n]]
    BY <2>1, NumbersOf DEF RepeatsAreBounded, Taken
  <2>3. Taken(n) <= MaxClockSkew
    BY <2>1, <2>2, NumbersOf
  <2>4. \A k, w \in Nat : k > 1 => (k - 1) * (w + 1) >= w + 1
    OBVIOUS
  <2>5. accepted[n] \in Nat /\ MaxClockSkew \in Nat
    BY <2>1, NumbersOf
  <2>6. Taken(n) >= MaxClockSkew + 1
    BY <2>1, <2>4, <2>5 DEF Taken
  <2>7. QED BY <2>1, <2>3, <2>6, NumbersOf
<1>2. Spec => []TypeInv
  BY InitType, StepType, PTL DEF Spec
<1>3. QED BY <1>1, <1>2, RepeatsNeedWindows, PTL

-----------------------------------------------------------------------------
(* A timestamp is the sender's time when it signed, less what a whole      *)
(* second cuts off; what can still arrive has been signed.                 *)
StampInv ==
    \A n \in Nonces :
        /\ n <= signed =>
              LET time == signedAt[n] + ahead[sender[n]]
              IN  stamp[n] <= time /\ time < stamp[n] + Second
        /\ copies[n] > 0 => n <= signed

LEMMA StampStep == ASSUME TypeInv, StampInv, [Next]_vars PROVE StampInv'
<1> USE ClockAssumption, BudgetsAssumption
<1>1. ASSUME NEW i \in Installs, Sign(i) PROVE StampInv'
  <2>1. /\ now \in Int /\ ahead[i] \in Int /\ Second \in Int
        /\ signed \in Nat /\ signed' = signed + 1 /\ signed' \in Nonces
    <3>1. ahead[i] \in Int
      BY DriftsAreNumbers
    <3>2. QED BY <1>1, <3>1 DEF Sign, TypeInv, TypeOK, Moments, Nonces
  <2>2. PICK s \in now + ahead[i] - Second + 1 .. now + ahead[i] :
            stamp' = [stamp EXCEPT ![signed'] = s]
    BY <1>1 DEF Sign
  <2>3. /\ sender' = [sender EXCEPT ![signed'] = i]
        /\ signedAt' = [signedAt EXCEPT ![signed'] = now]
        /\ copies' = [copies EXCEPT ![signed'] = MaxCopies]
        /\ ahead' = ahead
    BY <1>1 DEF Sign
  <2>4. ASSUME NEW n \in Nonces, n # signed'
        PROVE  /\ stamp'[n] = stamp[n] /\ sender'[n] = sender[n]
               /\ signedAt'[n] = signedAt[n] /\ copies'[n] = copies[n]
               /\ (n <= signed' <=> n <= signed)
    <3>1. n \in Int /\ (n <= signed' <=> n <= signed)
      BY <2>1, <2>4 DEF Nonces
    <3>2. QED BY <2>2, <2>3, <2>4, <3>1 DEF TypeInv, TypeOK
  <2>5. /\ stamp'[signed'] = s /\ sender'[signed'] = i
        /\ signedAt'[signed'] = now
    BY <2>1, <2>2, <2>3 DEF TypeInv, TypeOK
  <2>6. s \in Int /\ s <= now + ahead[i] /\ now + ahead[i] < s + Second
    BY <2>1, <2>2
  <2>7. QED BY <2>1, <2>3, <2>4, <2>5, <2>6 DEF StampInv
<1>2. ASSUME UNCHANGED <<signed, sender, stamp, signedAt, ahead>>,
             \A n \in Nonces : copies'[n] > 0 => copies[n] > 0
      PROVE  StampInv'
  BY <1>2 DEF StampInv
<1>3. ASSUME NEW n \in Nonces, Arrives(n)
      PROVE  \A m \in Nonces : copies'[m] > 0 => copies[m] > 0
  BY <1>3 DEF Arrives, TypeInv, TypeOK
<1>4. QED
  BY <1>1, <1>2, <1>3
     DEF Next, vars, Enroll, Arrive, OutsideWindow, Turned, Admit, Tick, Restart, requests

(* A request is turned away for its time only when the delay and the drift *)
(* of its sender's clock exceed the window together, up to the second that *)
(* the timestamp does not show, whatever the windows and the clocks are    *)
(* (authenticate, SignRequest).                                            *)
THEOREM DriftNeedsAWindow == Spec => DriftIsTolerated
<1> DEFINE Tolerated == \A n \in Nonces :
                           copies'[n] < copies[n] /\ handling' = handling
                               => \/ Age(n) + Second > MaxClockSkew
                                  \/ -Age(n) > MaxClockSkew
<1>1. Init => StampInv
  BY DEF Init, StampInv, Nonces
<1>2. TypeInv /\ StampInv /\ [Next]_vars => Tolerated
  <2> SUFFICES ASSUME TypeInv, StampInv, [Next]_vars, NEW n \in Nonces,
                      copies'[n] < copies[n], handling' = handling
               PROVE  \/ Age(n) + Second > MaxClockSkew
                      \/ -Age(n) > MaxClockSkew
    OBVIOUS
  <2> USE ClockAssumption, BudgetsAssumption
  <2>1. OutsideWindow(n)
    <3>1. ASSUME NEW m \in Nonces, Arrives(m) PROVE m = n
      BY <3>1 DEF Arrives, TypeInv, TypeOK
    <3>2. ASSUME NEW m \in Nonces, Arrive(m) PROVE FALSE
      BY <3>2 DEF Arrive, TypeInv, TypeOK
    <3>3. ASSUME NEW i \in Installs, Sign(i) PROVE FALSE
      <4>1. copies' = [copies EXCEPT ![signed'] = MaxCopies]
        BY <3>3 DEF Sign
      <4>2. copies[n] \in 0 .. MaxCopies
        BY DEF TypeInv, TypeOK
      <4>3. copies'[n] = copies[n] \/ copies'[n] = MaxCopies
        BY <4>1 DEF TypeInv, TypeOK
      <4>4. QED BY <4>2, <4>3
    <3>4. copies[n] \in Nat
      BY DEF TypeInv, TypeOK
    <3>5. copies' # copies
      BY <3>4
    <3>6. QED
      BY <3>1, <3>2, <3>3, <3>5
         DEF Next, vars, Enroll, OutsideWindow, Turned, Admit, Tick, Restart
  <2>2. copies[n] > 0 /\ ~InWindow(n)
    BY <2>1 DEF OutsideWindow, Arrives
  <2>3. /\ stamp[n] \in Int /\ signedAt[n] \in Int /\ now \in Int
        /\ ahead[sender[n]] \in Int /\ Second \in Int /\ MaxClockSkew \in Int
    <3>1. sender[n] \in Installs
      BY DEF TypeInv, TypeOK
    <3>2. ahead[sender[n]] \in Int
      BY <3>1, DriftsAreNumbers
    <3>3. QED BY <3>2 DEF TypeInv, TypeOK, Moments
  <2>4. /\ stamp[n] <= signedAt[n] + ahead[sender[n]]
        /\ signedAt[n] + ahead[sender[n]] < stamp[n] + Second
    BY <2>2 DEF StampInv
  <2>5. QED BY <2>2, <2>3, <2>4 DEF InWindow, Age
<1>3. TypeInv /\ StampInv /\ [Next]_vars => StampInv'
  BY StampStep
<1>4. Spec => []TypeInv
  BY InitType, StepType, PTL DEF Spec
<1>5. TypeInv /\ StampInv /\ [Next]_vars => [Tolerated]_vars
  BY <1>2
<1>6. QED
  BY <1>1, <1>3, <1>4, <1>5, PTL DEF Spec, DriftIsTolerated, Tolerated

=============================================================================
