---------------------------- MODULE OneTimeTokens ----------------------------
(* What the delegate's nonce ledger promises its callers: of all the requests  *)
(* that ever carry one nonce, at most one is accepted, and "already used" is    *)
(* said only of a nonce that some request was accepted with.  Nothing here      *)
(* speaks of clocks, retention or garbage collection.                           *)
CONSTANTS Request, Nonce

VARIABLES verdict,      \* what each request has been told so far
          nonce         \* the nonce each request carries

vars == <<verdict, nonce>>

Verdict == {"pending", "ok", "used", "expired"}

Spent(n) == \E r \in Request : verdict[r] = "ok" /\ nonce[r] = n

Init == /\ verdict = [r \in Request |-> "pending"]
        /\ nonce \in [Request -> Nonce]

Tell(r, v) == /\ verdict[r] = "pending"
              /\ verdict' = [verdict EXCEPT ![r] = v]
              /\ UNCHANGED nonce

Accept(r) == ~Spent(nonce[r]) /\ Tell(r, "ok")
Refuse(r) == Spent(nonce[r]) /\ Tell(r, "used")
TooLate(r) == Tell(r, "expired")

Next == \E r \in Request : Accept(r) \/ Refuse(r) \/ TooLate(r)

Spec == Init /\ [][Next]_vars
=============================================================================
