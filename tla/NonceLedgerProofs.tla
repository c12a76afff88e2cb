-------------------------- MODULE NonceLedgerProofs --------------------------
(* What the ledger guarantees for every set of requests and nonces and every    *)
(* retention, window and clock.                                                 *)
EXTENDS NonceLedger, TLAPS

(* A saturated sum is a timestamp. *)
LEMMA SaturatingAddType ==
  ASSUME NEW a \in Nat, NEW b \in Nat
  PROVE  SaturatingAdd(a, b) \in Time
BY TimeMaxAssumption DEF SaturatingAdd, Time

(* The types hold in every behaviour of the ledger. *)
THEOREM TypeCorrect == Spec => []TypeOK
<1>1. Init => TypeOK
  BY TimeMaxAssumption, LedgerAssumption DEF Init, TypeOK, Time, Phase
<1>2. TypeOK /\ [Next]_vars => TypeOK'
  <2> SUFFICES ASSUME TypeOK, [Next]_vars PROVE TypeOK'
    OBVIOUS
  <2> USE DEF TypeOK
  <2>1. ASSUME NEW r \in Request, Receive(r) PROVE TypeOK'
    BY <2>1 DEF Receive, Phase
  <2>2. ASSUME NEW r \in Request, ClaimExpired(r) PROVE TypeOK'
    BY <2>2 DEF ClaimExpired, Answer, Phase
  <2>3. ASSUME NEW r \in Request, ClaimUsed(r) PROVE TypeOK'
    BY <2>3 DEF ClaimUsed, Answer, Collected, Remembered, Phase
  <2>4. ASSUME NEW r \in Request, ClaimOk(r) PROVE TypeOK'
    <3>1. Expiry(now[r]) \in Time
      BY SaturatingAddType, LedgerAssumption DEF Expiry, Time
    <3> QED BY <2>4, <3>1 DEF ClaimOk, Answer, Remembered, Phase
  <2>5. CASE Tick
    BY <2>5, TimeMaxAssumption DEF Tick, Time
  <2>6. CASE StepBack
    BY <2>6 DEF StepBack, Time
  <2>7. CASE UNCHANGED vars
    BY <2>7 DEF vars
  <2> QED BY <2>1, <2>2, <2>3, <2>4, <2>5, <2>6, <2>7 DEF Next
<1> QED BY <1>1, <1>2, PTL DEF Spec

-----------------------------------------------------------------------------
(* With the window covered, a record made by any claim outlives the window. *)
LEMMA ExpiryPastWindow ==
  ASSUME ReplayWindowCovered, NEW t \in Time, t >= ClockFloor
  PROVE  Expiry(t) > ValidUntil /\ ValidUntil # NoBound /\ ValidUntil \in Nat
BY TimeMaxAssumption, LedgerAssumption
   DEF ReplayWindowCovered, Expiry, ValidUntil, SaturatingAdd, NoBound, Time

(* A claim that passes the window check collects no record that outlives the     *)
(* window: this is why the check must come before the collection.                *)
LEMMA LateRecordsKept ==
  ASSUME ReplayWindowCovered, TypeOK, NEW r \in Request, ~WindowPassed(now[r]),
         NEW n \in DOMAIN burned, burned[n] > ValidUntil
  PROVE  n \in Remembered(now[r])
<1>1. ValidUntil # NoBound /\ ValidUntil \in Nat
  BY ExpiryPastWindow, LedgerAssumption DEF Time
<1>2. now[r] <= ValidUntil
  BY <1>1 DEF WindowPassed, TypeOK, Time
<1> QED BY <1>1, <1>2 DEF Remembered, TypeOK, Time

(* Every step keeps the strengthened one-time invariant. *)
LEMMA OneTimeStep ==
  ASSUME ReplayWindowCovered, OneTimeInv, TypeOK', [Next]_vars
  PROVE  OneTimeInv'
<1> USE DEF OneTimeInv
<1>1. ASSUME NEW r \in Request, Receive(r) PROVE OneTimeInv'
  <2>1. ClockAboveFloor'
    BY <1>1 DEF Receive, ClockAboveFloor, TypeOK
  <2>2. OnRecordPastWindow' /\ OneTime'
    BY <1>1 DEF Receive, OnRecordPastWindow, OneTime, TypeOK
  <2> QED BY <2>1, <2>2
<1>2. ASSUME NEW r \in Request, ClaimExpired(r) PROVE OneTimeInv'
  BY <1>2 DEF ClaimExpired, Answer, ClockAboveFloor, OnRecordPastWindow, OneTime, TypeOK
<1>3. ASSUME NEW r \in Request, ClaimUsed(r) PROVE OneTimeInv'
  <2>1. ClockAboveFloor' /\ OneTime'
    BY <1>3 DEF ClaimUsed, Answer, ClockAboveFloor, OneTime, TypeOK
  <2>2. OnRecordPastWindow'
    <3> SUFFICES ASSUME NEW q \in Request, phase[q] = "ok"
                 PROVE  nonce[q] \in DOMAIN burned' /\ burned'[nonce[q]] > ValidUntil
      BY <1>3 DEF ClaimUsed, Answer, OnRecordPastWindow, TypeOK
    <3>1. nonce[q] \in Remembered(now[r])
      BY <1>3, LateRecordsKept DEF ClaimUsed, OnRecordPastWindow
    <3> QED BY <1>3, <3>1 DEF ClaimUsed, Collected, OnRecordPastWindow
  <2> QED BY <2>1, <2>2
<1>4. ASSUME NEW r \in Request, ClaimOk(r) PROVE OneTimeInv'
  <2>1. ClockAboveFloor'
    BY <1>4 DEF ClaimOk, Answer, ClockAboveFloor, TypeOK
  <2>2. \A q \in Request : phase[q] = "ok" => nonce[q] \in Remembered(now[r])
    BY <1>4, LateRecordsKept DEF ClaimOk, OnRecordPastWindow
  <2>3. now[r] \in Time /\ now[r] >= ClockFloor
    BY <1>4 DEF ClaimOk, ClockAboveFloor, TypeOK
  <2>4. OneTime'
    BY <1>4, <2>2 DEF ClaimOk, Answer, OneTime, TypeOK
  <2>5. OnRecordPastWindow'
    BY <1>4, <2>2, <2>3, ExpiryPastWindow DEF ClaimOk, Answer, OnRecordPastWindow, TypeOK
  <2> QED BY <2>1, <2>4, <2>5
<1>5. CASE Tick
  BY <1>5, LedgerAssumption
     DEF Tick, ClockAboveFloor, OnRecordPastWindow, OneTime, TypeOK, Time
<1>6. CASE StepBack
  BY <1>6 DEF StepBack, ClockAboveFloor, OnRecordPastWindow, OneTime, TypeOK
<1>7. CASE UNCHANGED vars
  BY <1>7 DEF vars, ClockAboveFloor, OnRecordPastWindow, OneTime, TypeOK
<1> QED BY <1>1, <1>2, <1>3, <1>4, <1>5, <1>6, <1>7 DEF Next

(* A nonce is accepted once at most, for every number of racing requests, every  *)
(* retention longer than the window and every movement of the clock.             *)
THEOREM NonceAcceptedOnce == ASSUME ReplayWindowCovered PROVE Spec => []OneTime
<1>1. Init => OneTimeInv
  BY TimeMaxAssumption, LedgerAssumption
     DEF Init, OneTimeInv, TypeOK, ClockAboveFloor, OnRecordPastWindow, OneTime, Time, Phase
<1>2. OneTimeInv /\ TypeOK' /\ [Next]_vars => OneTimeInv'
  BY OneTimeStep
<1>3. OneTimeInv => OneTime
  BY DEF OneTimeInv
<1> QED BY <1>1, <1>2, <1>3, TypeCorrect, PTL DEF Spec
-----------------------------------------------------------------------------
(* Every step keeps the records that are still within their retention. *)
LEMMA RetentionStep ==
  ASSUME ~ClockMayStepBack, RetentionInv, TypeOK', [Next]_vars
  PROVE  RetentionInv'
<1> USE DEF RetentionInv
<1>1. ASSUME NEW r \in Request, Receive(r) PROVE RetentionInv'
  <2>1. NoReadingAhead'
    BY <1>1 DEF Receive, NoReadingAhead, TypeOK, Time
  <2>2. RememberedForRetention'
    BY <1>1 DEF Receive, RememberedForRetention, TypeOK
  <2> QED BY <2>1, <2>2
<1>2. ASSUME NEW r \in Request, ClaimExpired(r) PROVE RetentionInv'
  BY <1>2 DEF ClaimExpired, Answer, NoReadingAhead, RememberedForRetention, TypeOK
<1>3. ASSUME NEW r \in Request, phase[r] = "claiming",
             NEW q \in Request, phase[q] = "ok", clock < Expiry(now[q])
      PROVE  /\ nonce[q] \in Remembered(now[r])
             /\ burned[nonce[q]] >= Expiry(now[q])
  <2>1. now[r] <= clock /\ now[r] \in Nat /\ now[q] \in Nat /\ clock \in Nat
    BY <1>3 DEF NoReadingAhead, TypeOK, Time
  <2>2. nonce[q] \in DOMAIN burned /\ burned[nonce[q]] >= Expiry(now[q])
    BY <1>3 DEF RememberedForRetention
  <2>3. Expiry(now[q]) \in Nat /\ burned[nonce[q]] \in Nat
    BY <2>1, <2>2, SaturatingAddType, LedgerAssumption DEF Expiry, Time, TypeOK
  <2> QED BY <1>3, <2>1, <2>2, <2>3 DEF Remembered
<1>4. ASSUME NEW r \in Request, ClaimUsed(r) PROVE RetentionInv'
  <2>1. NoReadingAhead'
    BY <1>4 DEF ClaimUsed, Answer, NoReadingAhead, TypeOK
  <2>2. RememberedForRetention'
    BY <1>4, <1>3 DEF ClaimUsed, Answer, Collected, RememberedForRetention, TypeOK
  <2> QED BY <2>1, <2>2
<1>5. ASSUME NEW r \in Request, ClaimOk(r) PROVE RetentionInv'
  <2>1. NoReadingAhead'
    BY <1>5 DEF ClaimOk, Answer, NoReadingAhead, TypeOK
  <2>2. Expiry(now[r]) \in Nat
    BY SaturatingAddType, LedgerAssumption DEF Expiry, Time, TypeOK
  <2>3. RememberedForRetention'
    <3> SUFFICES ASSUME NEW q \in Request, phase'[q] = "ok", clock < Expiry(now[q])
                 PROVE  /\ nonce[q] \in DOMAIN burned'
                        /\ burned'[nonce[q]] >= Expiry(now[q])
      BY <1>5 DEF ClaimOk, Answer, RememberedForRetention, Expiry
    <3>1. CASE q = r
      BY <1>5, <2>2, <3>1 DEF ClaimOk
    <3>2. CASE q # r
      <4>1. phase[q] = "ok"
        BY <1>5, <3>2 DEF ClaimOk, Answer, TypeOK
      <4>2. nonce[q] \in Remembered(now[r]) /\ burned[nonce[q]] >= Expiry(now[q])
        BY <1>5, <1>3, <4>1 DEF ClaimOk
      <4> QED BY <1>5, <4>2 DEF ClaimOk
    <3> QED BY <3>1, <3>2
  <2> QED BY <2>1, <2>3
<1>6. CASE Tick
  <2>1. NoReadingAhead'
    BY <1>6 DEF Tick, NoReadingAhead, TypeOK, Time
  <2>2. RememberedForRetention'
    <3> SUFFICES ASSUME NEW q \in Request, phase[q] = "ok", clock' < Expiry(now[q])
                 PROVE  nonce[q] \in DOMAIN burned /\ burned[nonce[q]] >= Expiry(now[q])
      BY <1>6 DEF Tick, RememberedForRetention, Expiry
    <3>1. Expiry(now[q]) \in Nat
      BY SaturatingAddType, LedgerAssumption DEF Expiry, Time, TypeOK
    <3>2. clock < Expiry(now[q])
      BY <1>6, <3>1 DEF Tick, TypeOK, Time
    <3> QED BY <3>2 DEF RememberedForRetention
  <2> QED BY <2>1, <2>2
<1>7. CASE StepBack
  BY <1>7 DEF StepBack
<1>8. CASE UNCHANGED vars
  BY <1>8 DEF vars, NoReadingAhead, RememberedForRetention, Expiry, TypeOK
<1> QED BY <1>1, <1>2, <1>4, <1>5, <1>6, <1>7, <1>8 DEF Next

(* The initial state satisfies the retention invariant. *)
LEMMA RetentionInit == Init => RetentionInv
BY TimeMaxAssumption, LedgerAssumption
   DEF Init, RetentionInv, TypeOK, NoReadingAhead, RememberedForRetention, Time, Phase

(* On a clock that is never set back, a burned nonce stays on record for as long *)
(* as the ledger was told to retain it, in whatever order the claims arrive.     *)
THEOREM RecordsRetained ==
  ASSUME ~ClockMayStepBack PROVE Spec => []RememberedForRetention
<1>1. Init => RetentionInv
  BY RetentionInit
<1>2. RetentionInv /\ TypeOK' /\ [Next]_vars => RetentionInv'
  BY RetentionStep
<1>3. RetentionInv => RememberedForRetention
  BY DEF RetentionInv
<1> QED BY <1>1, <1>2, <1>3, TypeCorrect, PTL DEF Spec

(* Hence no step accepts a nonce again before the retention of each earlier      *)
(* acceptance has run out: what the ledger guarantees with no window at all.     *)
THEOREM NoEarlyReuse == ASSUME ~ClockMayStepBack PROVE Spec => ReuseOnlyAfterRetention
<1>1. Init => RetentionInv
  BY RetentionInit
<1>2. RetentionInv /\ TypeOK' /\ [Next]_vars => RetentionInv'
  BY RetentionStep
<1> DEFINE NoEarly == \A r, q \in Request :
                        /\ phase[q] = "ok" /\ nonce[q] = nonce[r]
                        /\ phase[r] # "ok" /\ phase'[r] = "ok"
                        => clock >= Expiry(now[q])
<1>3. RetentionInv /\ [Next]_vars => [NoEarly]_vars
  <2> SUFFICES ASSUME RetentionInv, Next, NEW r \in Request, NEW q \in Request,
                      phase[q] = "ok", nonce[q] = nonce[r],
                      phase[r] # "ok", phase'[r] = "ok"
               PROVE  clock >= Expiry(now[q])
    OBVIOUS
  <2>1. ClaimOk(r)
    <3>1. ASSUME NEW s \in Request, Receive(s) \/ ClaimExpired(s) \/ ClaimUsed(s)
          PROVE  phase'[r] # "ok"
      BY <3>1 DEF RetentionInv, TypeOK, Receive, ClaimExpired, ClaimUsed, Answer
    <3>2. ASSUME NEW s \in Request, ClaimOk(s) PROVE s = r
      BY <3>2 DEF RetentionInv, TypeOK, ClaimOk, Answer
    <3> QED BY <3>1, <3>2 DEF Next, Tick, StepBack
  <2>2. now[r] <= clock /\ now[r] \in Nat /\ clock \in Nat
    BY <2>1 DEF ClaimOk, RetentionInv, NoReadingAhead, TypeOK, Time
  <2>3. Expiry(now[q]) \in Nat
    BY SaturatingAddType, LedgerAssumption DEF Expiry, Time, RetentionInv, TypeOK
  <2>4. ~(clock < Expiry(now[q]))
    BY <2>1, <2>2, <2>3
       DEF RetentionInv, RememberedForRetention, ClaimOk, Remembered, TypeOK, Time
  <2> QED BY <2>2, <2>3, <2>4
<1> QED BY <1>1, <1>2, <1>3, TypeCorrect, PTL DEF Spec, ReuseOnlyAfterRetention
-----------------------------------------------------------------------------
(* Every step keeps "burned means accepted" and "used means accepted". *)
LEMMA UsedStep ==
  ASSUME UsedInv, TypeOK', [Next]_vars
  PROVE  UsedInv'
<1> USE DEF UsedInv
<1>1. ASSUME NEW r \in Request, Receive(r) PROVE UsedInv'
  BY <1>1 DEF Receive, BurnedByAcceptance, UsedWasAccepted, TypeOK
<1>2. ASSUME NEW r \in Request, ClaimExpired(r) PROVE UsedInv'
  BY <1>2 DEF ClaimExpired, Answer, BurnedByAcceptance, UsedWasAccepted, TypeOK
<1>3. ASSUME NEW r \in Request, ClaimUsed(r) PROVE UsedInv'
  BY <1>3 DEF ClaimUsed, Answer, Collected, Remembered, BurnedByAcceptance,
              UsedWasAccepted, TypeOK
<1>4. ASSUME NEW r \in Request, ClaimOk(r) PROVE UsedInv'
  BY <1>4 DEF ClaimOk, Answer, Remembered, BurnedByAcceptance, UsedWasAccepted, TypeOK
<1>5. CASE Tick \/ StepBack \/ UNCHANGED vars
  BY <1>5 DEF Tick, StepBack, vars, BurnedByAcceptance, UsedWasAccepted, TypeOK
<1> QED BY <1>1, <1>2, <1>3, <1>4, <1>5 DEF Next

(* The initial state satisfies the invariant of the "used" answers. *)
LEMMA UsedInit == Init => UsedInv
BY TimeMaxAssumption, LedgerAssumption
   DEF Init, UsedInv, TypeOK, BurnedByAcceptance, UsedWasAccepted, Time, Phase

(* "Already used" is always the truth, for every policy and every clock. *)
THEOREM UsedAnswersTrue == Spec => []UsedWasAccepted
<1>1. UsedInv /\ TypeOK' /\ [Next]_vars => UsedInv'
  BY UsedStep
<1>2. UsedInv => UsedWasAccepted
  BY DEF UsedInv
<1> QED BY <1>1, <1>2, UsedInit, TypeCorrect, PTL DEF Spec

-----------------------------------------------------------------------------
(* Every step of the ledger is a step of OneTimeTokens or leaves it unchanged. *)
LEMMA PromiseStep ==
  ASSUME ReplayWindowCovered, OneTimeInv, UsedInv, [Next]_vars
  PROVE  [Promise!Next]_(Promise!vars)
<1> USE DEF Promise!vars
<1>1. ASSUME NEW r \in Request, Receive(r) PROVE UNCHANGED Promise!vars
  BY <1>1 DEF Receive, UsedInv, TypeOK
<1>2. ASSUME NEW r \in Request, ClaimExpired(r) PROVE Promise!TooLate(r)
  BY <1>2 DEF ClaimExpired, Answer, UsedInv, TypeOK, Promise!TooLate, Promise!Tell
<1>3. ASSUME NEW r \in Request, ClaimUsed(r) PROVE Promise!Refuse(r)
  <2>1. Promise!Spent(nonce[r])
    BY <1>3 DEF ClaimUsed, Remembered, UsedInv, BurnedByAcceptance, Promise!Spent
  <2> QED BY <1>3, <2>1 DEF ClaimUsed, Answer, UsedInv, TypeOK, Promise!Refuse, Promise!Tell
<1>4. ASSUME NEW r \in Request, ClaimOk(r) PROVE Promise!Accept(r)
  <2>1. ~Promise!Spent(nonce[r])
    BY <1>4, LateRecordsKept
       DEF ClaimOk, OneTimeInv, OnRecordPastWindow, Promise!Spent
  <2> QED BY <1>4, <2>1 DEF ClaimOk, Answer, UsedInv, TypeOK, Promise!Accept, Promise!Tell
<1>5. CASE Tick \/ StepBack \/ UNCHANGED vars
  BY <1>5 DEF Tick, StepBack, vars
<1> QED BY <1>1, <1>2, <1>3, <1>4, <1>5 DEF Next, Promise!Next

(* With the window covered, the ledger implements the one-time token set. *)
THEOREM LedgerKeepsPromise == ASSUME ReplayWindowCovered PROVE Spec => KeepsPromise
<1>1. Init => OneTimeInv
  BY TimeMaxAssumption, LedgerAssumption
     DEF Init, OneTimeInv, TypeOK, ClockAboveFloor, OnRecordPastWindow, OneTime, Time, Phase
<1>2. OneTimeInv /\ TypeOK' /\ [Next]_vars => OneTimeInv'
  BY OneTimeStep
<1>3. UsedInv /\ TypeOK' /\ [Next]_vars => UsedInv'
  BY UsedStep
<1>4. Init => Promise!Init
  BY DEF Init, Promise!Init
<1>5. OneTimeInv /\ UsedInv /\ [Next]_vars => [Promise!Next]_(Promise!vars)
  BY PromiseStep
<1> QED BY <1>1, <1>2, <1>3, <1>4, <1>5, UsedInit, TypeCorrect, PTL
        DEF Spec, KeepsPromise, Promise!Spec
=============================================================================
