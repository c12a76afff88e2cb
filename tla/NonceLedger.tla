----------------------------- MODULE NonceLedger -----------------------------
(* The ledger of burned one-time enrollment nonces, during one life of the      *)
(* delegate process: enroll-service/src/nonce.rs, called by do_enroll with the  *)
(* clock reading that the HTTP handler took BEFORE it reached the ledger.       *)
(* Several handlers run at once; the mutex makes one claim one step, but between *)
(* a handler's reading of the clock and its claim other claims and any amount    *)
(* of time may pass, so claims do not reach the ledger in timestamp order.      *)
EXTENDS SaturatingTime

CONSTANTS Request,           \* the /enroll requests of this process life
          Nonce,
          RetainSecs,        \* how long a burned nonce is remembered
          WindowStart,       \* policy.enroll_window_start
          BootstrapTtl,      \* policy.bootstrap_ttl_secs, 0 = no window
          ClockFloor,        \* the lowest value SystemTime::now() gives
          ClockMayStepBack   \* whether the wall clock is ever set back

ASSUME LedgerAssumption ==
    /\ RetainSecs \in Time /\ WindowStart \in Time /\ BootstrapTtl \in Time
    /\ ClockFloor \in Time
    /\ ClockMayStepBack \in BOOLEAN

VARIABLES clock,    \* the delegate's wall clock
          burned,   \* burned nonce -> the time after which its record may go
          phase,    \* where each request is
          nonce,    \* the nonce it carries
          now       \* the clock reading its handler captured

vars == <<clock, burned, phase, nonce, now>>

Phase == {"new", "claiming", "ok", "used", "expired"}

TypeOK ==
    /\ clock \in Time
    /\ DOMAIN burned \subseteq Nonce
    /\ \A n \in DOMAIN burned : burned[n] \in Time
    /\ phase \in [Request -> Phase]
    /\ nonce \in [Request -> Nonce]
    /\ now \in [Request -> Time]

(* BootstrapPolicy::nonce_valid_until. *)
ValidUntil == IF BootstrapTtl = 0
              THEN NoBound
              ELSE SaturatingAdd(WindowStart, BootstrapTtl)

WindowPassed(t) == ValidUntil # NoBound /\ t > ValidUntil

(* The mutated forms end in "Bug"; no specification uses them. *)
ExpiryBug(t) == t + RetainSecs                      \* plain + for saturating_add

Expiry(t) == SaturatingAdd(t, RetainSecs)

RememberedBug(t) == {n \in DOMAIN burned : burned[n] > t + 1}

(* The records that map.retain keeps for a claim made with reading t. *)
Remembered(t) == {n \in DOMAIN burned : burned[n] > t}

Collected(t) == [n \in Remembered(t) |-> burned[n]]

Answer(r, p) == phase' = [phase EXCEPT ![r] = p] /\ UNCHANGED <<clock, nonce, now>>

(* `enroll` captures now() and only then enters do_enroll. *)
Receive(r) == /\ phase[r] = "new"
              /\ phase' = [phase EXCEPT ![r] = "claiming"]
              /\ now' = [now EXCEPT ![r] = clock]
              /\ UNCHANGED <<clock, burned, nonce>>

ClaimExpiredCollectsBug(r) == /\ phase[r] = "claiming"   \* retain before the window check
                              /\ WindowPassed(now[r])
                              /\ burned' = Collected(now[r])
                              /\ Answer(r, "expired")

ClaimExpiredBurnsBug(r) == /\ phase[r] = "claiming"      \* a late claim burns its nonce
                           /\ WindowPassed(now[r])
                           /\ burned' = [n \in DOMAIN burned \union {nonce[r]} |-> Expiry(now[r])]
                           /\ Answer(r, "expired")

(* The window check comes before the lock: no record is collected by a late claim. *)
ClaimExpired(r) == /\ phase[r] = "claiming"
                   /\ WindowPassed(now[r])
                   /\ Answer(r, "expired")
                   /\ UNCHANGED burned

ClaimUsed(r) == /\ phase[r] = "claiming"
                /\ ~WindowPassed(now[r])
                /\ nonce[r] \in Remembered(now[r])
                /\ burned' = Collected(now[r])
                /\ Answer(r, "used")

ClaimOk(r) == /\ phase[r] = "claiming"
              /\ ~WindowPassed(now[r])
              /\ nonce[r] \notin Remembered(now[r])
              /\ burned' = [n \in Remembered(now[r]) \union {nonce[r]} |->
                              IF n = nonce[r] THEN Expiry(now[r]) ELSE burned[n]]
              /\ Answer(r, "ok")

Tick == /\ clock < TimeMax
        /\ clock' = clock + 1
        /\ UNCHANGED <<burned, phase, nonce, now>>

(* SystemTime is not monotonic: a time service or an administrator sets it back. *)
StepBack == /\ ClockMayStepBack
            /\ clock' \in {t \in Time : ClockFloor <= t /\ t < clock}
            /\ UNCHANGED <<burned, phase, nonce, now>>

Init == /\ clock = ClockFloor
        /\ burned = [n \in {} |-> NoBound]
        /\ phase = [r \in Request |-> "new"]
        /\ nonce \in [Request -> Nonce]
        /\ now = [r \in Request |-> 0]

Next == \/ \E r \in Request : Receive(r)
        \/ \E r \in Request : ClaimExpired(r)
        \/ \E r \in Request : ClaimUsed(r)
        \/ \E r \in Request : ClaimOk(r)
        \/ Tick
        \/ StepBack

Spec == Init /\ [][Next]_vars

-----------------------------------------------------------------------------
(* The conditions the ledger's comment asks of its owner: a window is set, the   *)
(* retention exceeds it, and the clock never shows a time before the window.     *)
ReplayWindowCovered == /\ BootstrapTtl # 0
                       /\ RetainSecs > BootstrapTtl
                       /\ WindowStart + BootstrapTtl < TimeMax
                       /\ ClockFloor >= WindowStart

(* Two requests with the same nonce are never both accepted, however the claims  *)
(* overtake one another and however the clock moves (nonce.rs: "burns it on      *)
(* first use and refuses it thereafter").                                        *)
OneTime == \A r, q \in Request :
              phase[r] = "ok" /\ phase[q] = "ok" /\ nonce[r] = nonce[q] => r = q

(* A node that is told "already used" is told the truth: some request with that  *)
(* nonce was accepted; a claim refused as late burned nothing.                   *)
UsedWasAccepted == \A r \in Request : phase[r] = "used" =>
                      \E q \in Request : phase[q] = "ok" /\ nonce[q] = nonce[r]

(* Whatever the claims' order, the record of an accepted claim outlives its      *)
(* retention: it is there at every moment before now + retain_secs.              *)
RememberedForRetention == \A r \in Request :
    phase[r] = "ok" /\ clock < Expiry(now[r]) =>
       nonce[r] \in DOMAIN burned /\ burned[nonce[r]] >= Expiry(now[r])

(* A nonce accepted before is accepted again only once the retention of every    *)
(* earlier acceptance has run out.                                               *)
ReuseOnlyAfterRetention ==
    [][\A r, q \in Request :
          /\ phase[q] = "ok" /\ nonce[q] = nonce[r]
          /\ phase[r] # "ok" /\ phase'[r] = "ok"
          => clock >= Expiry(now[q])]_vars

(* The strengthening of OneTime that every step keeps: each accepted request's   *)
(* nonce is on record past the end of the window, where no claim collects it.    *)
ClockAboveFloor == /\ clock >= ClockFloor
                   /\ \A r \in Request : phase[r] # "new" => now[r] >= ClockFloor

OnRecordPastWindow == \A r \in Request : phase[r] = "ok" =>
    nonce[r] \in DOMAIN burned /\ burned[nonce[r]] > ValidUntil

OneTimeInv == TypeOK /\ ClockAboveFloor /\ OnRecordPastWindow /\ OneTime

(* The strengthening of RememberedForRetention: no handler's reading is ahead of *)
(* a clock that is never set back.                                               *)
NoReadingAhead == \A r \in Request : phase[r] # "new" => now[r] <= clock

RetentionInv == TypeOK /\ NoReadingAhead /\ RememberedForRetention

(* The strengthening of UsedWasAccepted: only acceptances burn. *)
BurnedByAcceptance == \A n \in DOMAIN burned :
                         \E q \in Request : phase[q] = "ok" /\ nonce[q] = n

UsedInv == TypeOK /\ BurnedByAcceptance /\ UsedWasAccepted

(* No nonce is claimed before the window opens (token.rs: "Unix seconds the      *)
(* enrollment window opened (the bootstrap cap's not_before)").                  *)
NoClaimBeforeWindow == \A r \in Request : phase[r] = "ok" => now[r] >= WindowStart

(* The promise of OneTimeTokens, read off the requests' phases. *)
Promise == INSTANCE OneTimeTokens WITH
              verdict <- [r \in Request |->
                            IF phase[r] \in {"new", "claiming"} THEN "pending"
                                                               ELSE phase[r]]

(* With the window covered, the ledger implements OneTimeTokens. *)
KeepsPromise == Promise!Spec
=============================================================================
