------------------------------ MODULE Enrollment ------------------------------
(* The enrollment delegate (enroll-service/src/service.rs, token.rs, main.rs):    *)
(* /enroll and /fleet/token handlers that run at once over one nonce ledger, a    *)
(* policy and a capability chain that never change while the process lives, and   *)
(* process restarts, which forget the ledger because it is held in memory only.   *)
EXTENDS Attenuation

CONSTANTS EnrollReq, TokenReq,           \* the requests of the two kinds
          Nonce, RetainSecs, WindowStart, BootstrapTtl, ClockFloor, ClockMayStepBack,
          Delegate, DelegateChain,       \* identity and held chain (DelegateConfig)
          Policies,                      \* what the flags may configure
          FirstByte,                     \* node[0] of each node id
          Garbled, Unbound,              \* a node id that does not parse; no node id
          EnrollBody, TokenBody,         \* the bodies the clients send
          MayRevoke,                     \* whose capabilities an admin may revoke
          MaxRestarts                    \* bound on process restarts

Req == EnrollReq \union TokenReq

(* main.rs refuses to start when the held chain does not name this delegate. *)
ASSUME DelegateAssumption ==
    /\ Delegate \in Principal
    /\ DelegateChain \in Seq(Capability) /\ Len(DelegateChain) > 0
    /\ Parent(DelegateChain).audience = Delegate

(* The bootstrap secret is either right or wrong, and is not among the rest. *)
BootstrapPolicy == [abilities : SUBSET Ability, tag : OptionalTag, workingTtl : Time]
EnrollRequest == [node : Principal \union {Garbled}, nonce : Nonce, secretOk : BOOLEAN]
GenTokenReq == [node : Principal \union {Garbled, Unbound}, abilities : SUBSET Ability,
                tag : OptionalTag, ttl : Time]

ASSUME PolicyAssumption ==
    /\ Policies \subseteq BootstrapPolicy
    /\ FirstByte \in [Principal -> Time]
    /\ MaxRestarts \in Nat
    /\ Garbled \notin Principal /\ Unbound \notin Principal /\ Garbled # Unbound

ASSUME ClockAssumption ==
    /\ RetainSecs \in Time /\ WindowStart \in Time /\ BootstrapTtl \in Time
    /\ ClockFloor \in Time /\ ClockMayStepBack \in BOOLEAN

ASSUME BodyAssumption ==
    /\ EnrollReq \intersect TokenReq = {} /\ MayRevoke \subseteq Req
    /\ EnrollBody \subseteq EnrollRequest /\ TokenBody \subseteq GenTokenReq

VARIABLES clock,      \* the delegate's wall clock
          burned,     \* the ledger
          phase,      \* where each request is
          body,       \* what it carries
          now,        \* the clock reading its handler captured
          life,       \* history: the restart before which it did
          chain,      \* the chain issued in answer, or <<>>
          policy,     \* what the flags of this delegate configure
          withdrawn,  \* the requests whose capability an admin has revoked
          restarts

vars == <<clock, burned, phase, body, now, life, chain, policy, withdrawn, restarts>>

Phase == {"new", "received", "minting", "issued",
          "badSecret", "used", "expired", "refused", "lost"}

LedgerPhase(p) == CASE p \in {"new", "badSecret"} -> "new"
                    [] p = "received" -> "claiming"
                    [] p \in {"used", "expired"} -> p
                    [] OTHER -> "ok"

(* A request with a wrong secret never reaches the ledger. *)
Ledger == INSTANCE NonceLedger WITH
             Request <- EnrollReq,
             phase <- [r \in EnrollReq |->
                         IF body[r].secretOk THEN LedgerPhase(phase[r]) ELSE "new"],
             nonce <- [r \in EnrollReq |-> body[r].nonce],
             now <- [r \in EnrollReq |-> IF body[r].secretOk THEN now[r] ELSE 0]

TypeOK ==
    /\ clock \in Time /\ restarts \in 0 .. MaxRestarts /\ policy \in Policies
    /\ DOMAIN burned \subseteq Nonce
    /\ \A n \in DOMAIN burned : burned[n] \in Time
    /\ phase \in [Req -> Phase]
    /\ now \in [Req -> Time] /\ life \in [Req -> 0 .. MaxRestarts]
    /\ DOMAIN body = Req
    /\ \A r \in EnrollReq : body[r] \in EnrollBody
    /\ \A r \in TokenReq : body[r] \in TokenBody
    /\ chain \in [Req -> Seq(Capability)]
    /\ withdrawn \subseteq MayRevoke

WrappingAddBug(a, b) == a + b

(* u64::wrapping_add *)
WrappingAdd(a, b) == (a + b) % (TimeMax + 1)

(* The parameters do_enroll and do_gen_token pass to issue_working_cap; an        *)
(* unbound token names the delegate itself.                                      *)
EnrollParams(r) ==
    [node |-> body[r].node, wantAbilities |-> policy.abilities, tag |-> policy.tag,
     ttl |-> policy.workingTtl, nonce |-> WrappingAdd(now[r], FirstByte[body[r].node])]

TokenParams(r) ==
    [node |-> IF body[r].node = Unbound THEN Delegate ELSE body[r].node,
     wantAbilities |-> body[r].abilities,
     tag |-> IF body[r].tag = {} THEN policy.tag ELSE body[r].tag,
     ttl |-> body[r].ttl, nonce |-> now[r]]

(* A hash of the two, which the answer to a token request carries. *)
FreshNonce(r) == <<now[r], TokenParams(r).node>>

Answer(r, from, p) == /\ phase[r] = from
                      /\ phase' = [phase EXCEPT ![r] = p]
                      /\ UNCHANGED <<clock, body, now, life, policy, withdrawn, restarts>>

Issue(r, from, params) ==
    /\ CanIssue(DelegateChain, Delegate, params)
    /\ Answer(r, from, "issued")
    /\ chain' = [chain EXCEPT ![r] = IssueWorkingCap(DelegateChain, Delegate, params, now[r])]
    /\ UNCHANGED burned

Refuse(r, from, p) == Answer(r, from, p) /\ UNCHANGED <<burned, chain>>

(* Both handlers capture now() before they do anything else. *)
Receive(r) == /\ phase[r] = "new"
              /\ phase' = [phase EXCEPT ![r] = "received"]
              /\ now' = [now EXCEPT ![r] = clock]
              /\ life' = [life EXCEPT ![r] = restarts]
              /\ UNCHANGED <<clock, burned, body, chain, policy, withdrawn, restarts>>

BurnForgetsBug(r) == burned' = Ledger!Collected(now[r])        \* no insert

Burn(r) == burned' = [n \in Ledger!Remembered(now[r]) \union {body[r].nonce} |->
                        IF n = body[r].nonce THEN Ledger!Expiry(now[r]) ELSE burned[n]]

RefuseSecretBurnsBug(r) ==                  \* the claim before the secret check
    ~body[r].secretOk /\ Burn(r) /\ Answer(r, "received", "badSecret") /\ UNCHANGED chain

RefuseSecret(r) == ~body[r].secretOk /\ Refuse(r, "received", "badSecret")

ClaimExpired(r) == /\ body[r].secretOk
                   /\ Ledger!WindowPassed(now[r])
                   /\ Refuse(r, "received", "expired")

ClaimUsed(r) == /\ body[r].secretOk
                /\ ~Ledger!WindowPassed(now[r])
                /\ body[r].nonce \in Ledger!Remembered(now[r])
                /\ burned' = Ledger!Collected(now[r])
                /\ Answer(r, "received", "used")
                /\ UNCHANGED chain

ClaimOk(r) == /\ body[r].secretOk
              /\ ~Ledger!WindowPassed(now[r])
              /\ body[r].nonce \notin Ledger!Remembered(now[r])
              /\ Burn(r)
              /\ Answer(r, "received", "minting")
              /\ UNCHANGED chain

(* The node id is parsed after the nonce is burned. *)
RefuseNodeId(r) == body[r].node = Garbled /\ Refuse(r, "minting", "refused")

Mint(r) == body[r].node # Garbled /\ Issue(r, "minting", EnrollParams(r))

RefuseMint(r) == /\ body[r].node # Garbled
                 /\ ~CanIssue(DelegateChain, Delegate, EnrollParams(r))
                 /\ Refuse(r, "minting", "refused")

GenToken(r) == body[r].node # Garbled /\ Issue(r, "received", TokenParams(r))

RefuseToken(r) == /\ \/ body[r].node = Garbled
                     \/ ~CanIssue(DelegateChain, Delegate, TokenParams(r))
                  /\ Refuse(r, "received", "refused")

(* Asked for a revocation the delegate answers with an instruction, which an admin  *)
(* with its key signs: the chain then lists the link by its issuer and its nonce.   *)
Revoked == {<<Delegate, Parent(chain[r]).nonce>> : r \in withdrawn}

Revoke(r) == /\ r \in MayRevoke /\ phase[r] = "issued"
             /\ withdrawn' = withdrawn \union {r}
             /\ UNCHANGED <<clock, burned, phase, body, now, life, chain, policy, restarts>>

(* The ledger and the requests in flight go with the process; the flags are those  *)
(* of the unit that starts it again.                                             *)
Restart == /\ restarts < MaxRestarts
           /\ restarts' = restarts + 1
           /\ burned' = [n \in {} |-> NoBound]
           /\ phase' = [r \in Req |-> IF phase[r] \in {"received", "minting"}
                                      THEN "lost" ELSE phase[r]]
           /\ UNCHANGED <<clock, body, now, life, chain, policy, withdrawn>>

Tick == /\ clock < TimeMax
        /\ clock' = clock + 1
        /\ UNCHANGED <<burned, phase, body, now, life, chain, policy, withdrawn, restarts>>

StepBack == /\ ClockMayStepBack
            /\ clock' \in {t \in Time : ClockFloor <= t /\ t < clock}
            /\ UNCHANGED <<burned, phase, body, now, life, chain, policy, withdrawn, restarts>>

Init == /\ clock = ClockFloor
        /\ burned = [n \in {} |-> NoBound]
        /\ phase = [r \in Req |-> "new"]
        /\ body \in {b \in [Req -> EnrollBody \union TokenBody] :
                       /\ \A r \in EnrollReq : b[r] \in EnrollBody
                       /\ \A r \in TokenReq : b[r] \in TokenBody}
        /\ now = [r \in Req |-> 0] /\ life = [r \in Req |-> 0]
        /\ chain = [r \in Req |-> <<>>]
        /\ policy \in Policies
        /\ withdrawn = {} /\ restarts = 0

Enroll(r) == \/ RefuseSecret(r)
             \/ ClaimExpired(r) \/ ClaimUsed(r) \/ ClaimOk(r)
             \/ RefuseNodeId(r) \/ Mint(r) \/ RefuseMint(r)

Next == \/ \E r \in Req : Receive(r) \/ Revoke(r)
        \/ \E r \in EnrollReq : Enroll(r)
        \/ \E r \in TokenReq : GenToken(r) \/ RefuseToken(r)
        \/ Restart \/ Tick \/ StepBack

Spec == Init /\ [][Next]_vars

-----------------------------------------------------------------------------
Issued == {r \in Req : phase[r] = "issued"}

Root == DelegateChain[1].issuer

(* A held chain as the org issues it: signed link by link, no link granting more   *)
(* than any link above it.                                                        *)
HeldChainSound ==
    /\ \A i \in 2 .. Len(DelegateChain) : DelegateChain[i].issuer = DelegateChain[i - 1].audience
    /\ \A j \in 1 .. Len(DelegateChain) : \A i \in 1 .. j - 1 :
          Weakens(DelegateChain[j], DelegateChain[i])

(* Until it expires or a link of it is revoked, the node an issued chain names is   *)
(* accepted for every ability it lists on every host it covers: the new link         *)
(* attenuates as authorize demands and no link above it expires before it does      *)
(* (attenuate.rs: "authorize accepts it because each link attenuates and it roots   *)
(* at the org key").                                                             *)
Live(r) == LET leaf == Parent(chain[r]) IN leaf.notAfter = NoBound \/ clock <= leaf.notAfter

Accepted(r) == LET leaf == Parent(chain[r]) IN
    \A h \in Covers(leaf.resource), a \in leaf.abilities :
       Authorize(h, {Root}, clock, leaf.audience, a, chain[r], Revoked)

IssuedCapsWork == \A r \in Issued :
    Live(r) /\ (\A i \in 1 .. Len(chain[r]) : <<chain[r][i].issuer, chain[r][i].nonce>> \notin Revoked)
       => Accepted(r)

(* Everything the shape of an issued chain promises: the delegate's chain with    *)
(* one weaker link on it, signed by the delegate, for the node that asked.        *)
CapsWeaken == \A r \in Issued :
    LET leaf == Parent(chain[r]) IN
    /\ chain[r] = Append(DelegateChain, leaf)
    /\ Weakens(leaf, Parent(DelegateChain))
    /\ leaf.notAfter # NoBound
    /\ leaf.issuer = Delegate
    /\ leaf.audience = IF body[r].node = Unbound THEN Delegate ELSE body[r].node

(* What makes CapsWeaken inductive: handlers mint with readings above the floor.  *)
ReadingsAboveFloor == /\ clock >= ClockFloor
                      /\ \A r \in Req : phase[r] # "new" => now[r] >= ClockFloor

CapsInv == TypeOK /\ ReadingsAboveFloor /\ CapsWeaken

(* A capability asked for with a tag, by the policy or by the request, names no     *)
(* host without that tag (attenuate.rs: "if the parent is already confined to a    *)
(* different tag, or to a specific node, we refuse").                             *)
TagAsked(r) == IF r \in TokenReq THEN TokenParams(r).tag ELSE policy.tag

TagHonoured == \A r \in Issued :
    Covers(Parent(chain[r]).resource) \subseteq {h \in Principal : TagAsked(r) \subseteq TagsOf[h]}

(* Only a request that knew the bootstrap secret burns a nonce: a refused secret   *)
(* leaves the nonce to the node that is yet to enroll with it.                    *)
BurnedByAuthenticated == \A n \in DOMAIN burned :
    \E r \in EnrollReq : /\ body[r].secretOk /\ body[r].nonce = n
                         /\ phase[r] \in {"minting", "issued", "refused", "lost"}

(* No two capabilities are issued for one nonce (nonce.rs: "burns it on first use   *)
(* and refuses it thereafter").  A restart breaks this, and so does time where no    *)
(* window is set: README, part 6.                                                *)
OneCapPerNonce == \A r, q \in EnrollReq :
    phase[r] = "issued" /\ phase[q] = "issued" /\ body[r].nonce = body[q].nonce => r = q

(* A claim that reached the records, and may have collected one, during this life. *)
Claimed(p) == phase[p] \in {"minting", "issued", "refused", "used", "lost"}
ClaimedFrom(l, t) == \E p \in EnrollReq : Claimed(p) /\ life[p] = l /\ now[p] >= t

(* What main.rs's delegate keeps, which sets no window: during one life of the       *)
(* process a nonce buys a second capability only once some handler has read a time   *)
(* at or past the end of the retention of the first, whatever claims race between   *)
(* the burn and the mint and however often the clock is set back.                  *)
OneCapPerRetention == \A r, q \in EnrollReq :
    /\ r # q /\ phase[r] = "issued" /\ phase[q] = "issued"
    /\ body[r].nonce = body[q].nonce /\ life[r] = life[q]
    => \/ ClaimedFrom(life[r], Ledger!Expiry(now[r]))
       \/ ClaimedFrom(life[r], Ledger!Expiry(now[q]))

(* From one restart to the next, the handlers use the ledger as the ledger specifies. *)
UsesLedger == Ledger!Init /\ [][UNCHANGED restarts => Ledger!Next]_(Ledger!vars)

(* Revoking one capability by its link nonce leaves the others alone (service.rs:    *)
(* "delegate-unique link nonce", "subtree-kills the link and everything delegated    *)
(* under it"; attenuate.rs: "unique per issuer; names it for revocation").          *)
RevocationSparesOthers == \A r \in Issued \ withdrawn : Live(r) => Accepted(r)

(* Each token comes with a nonce of its own for the enrollment it is meant for       *)
(* (service.rs: "two calls in the same second still differ via the audience").      *)
TokenNoncesDiffer == \A r, q \in Issued \intersect TokenReq : FreshNonce(r) = FreshNonce(q) => r = q
=============================================================================
