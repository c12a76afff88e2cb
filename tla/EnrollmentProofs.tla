--------------------------- MODULE EnrollmentProofs ---------------------------
(* What the delegate issues, for every policy, chain, request and restart.       *)
EXTENDS Enrollment, TLAPS

(* Privilege can only shrink: the facts attenuate.rs lists as invariants 1 to 4, *)
(* for every capability a delegate can hold and every request.                   *)

(* Invariant 1: delegation never adds an ability. *)
LEMMA AbilitiesShrink ==
  ASSUME NEW held, NEW want
  PROVE  WorkingAbilities(held, want) \subseteq held
BY DEF WorkingAbilities

(* Invariant 2: except at the epoch with a zero ttl, where the sum is 0 and so   *)
(* reads as "no bound", a child never outlives its parent.                       *)
LEMMA ExpiryShrinks ==
  ASSUME NEW parent \in Time, NEW reading \in Time, NEW ttl \in Time, reading + ttl > 0
  PROVE  /\ NoLaterThan(ClampNotAfter(parent, reading, ttl), parent)
         /\ ClampNotAfter(parent, reading, ttl) \in Time \ {NoBound}
BY TimeMaxAssumption DEF NoLaterThan, ClampNotAfter, SaturatingAdd, NoBound, Time

(* Invariant 3: no host is named that the delegate's own capability does not. *)
LEMMA ResourceShrinks ==
  ASSUME NEW parent \in Resource, NEW tag \in OptionalTag, ~RefusesTag(parent, tag)
  PROVE  /\ WorkingResource(parent, tag) \in Resource
         /\ Covers(WorkingResource(parent, tag)) \subseteq Covers(parent)
<1>1. CASE parent.kind = "any" /\ tag # {}
  <2>1. PICK t \in Tag : tag = {t}
    BY <1>1 DEF OptionalTag
  <2>2. parent = AnyHost
    BY <1>1 DEF Resource, AnyHost, HostsTagged, OneHost, AllOf
  <2>3. WorkingResource(parent, tag) = HostsTagged({t})
    BY <1>1, <2>1 DEF WorkingResource
  <2>4. Covers(parent) = Principal
    BY <2>2 DEF Covers, AnyHost
  <2> QED BY <2>3, <2>4 DEF Resource, Covers, HostsTagged
<1>2. CASE ~(parent.kind = "any" /\ tag # {})
  BY <1>2 DEF WorkingResource
<1> QED BY <1>1, <1>2

(* A working capability that can be issued at all weakens the delegate's, is     *)
(* signed by the delegate and names the enrolling node.                          *)
THEOREM WorkingCapWeakens ==
  ASSUME NEW held \in Seq(Capability), NEW delegate \in Principal,
         NEW params \in WorkingCapParams, NEW reading \in Time,
         reading + params.ttl > 0, CanIssue(held, delegate, params)
  PROVE  LET child == WorkingCap(held, delegate, params, reading) IN
         /\ child \in Capability
         /\ Weakens(child, Parent(held))
         /\ child.notAfter # NoBound
         /\ child.issuer = Parent(held).audience
         /\ child.audience = params.node
<1> DEFINE child == WorkingCap(held, delegate, params, reading)
<1>1. Parent(held) \in Capability
  BY DEF CanIssue, Parent
<1>2. /\ Parent(held).notAfter \in Time /\ Parent(held).abilities \subseteq Ability
      /\ Parent(held).resource \in Resource /\ Parent(held).audience = delegate
  BY <1>1 DEF Capability, CanIssue
<1>3. /\ params.ttl \in Time /\ params.tag \in OptionalTag /\ params.node \in Principal
      /\ params.nonce \in Time
  BY DEF WorkingCapParams
<1>4. child.abilities \subseteq Parent(held).abilities
  BY AbilitiesShrink DEF WorkingCap
<1>5. /\ child.notAfter \in Time \ {NoBound}
      /\ NoLaterThan(child.notAfter, Parent(held).notAfter)
  BY <1>2, <1>3, ExpiryShrinks DEF WorkingCap
<1>6. /\ child.resource \in Resource
      /\ Covers(child.resource) \subseteq Covers(Parent(held).resource)
  BY <1>2, <1>3, ResourceShrinks DEF WorkingCap, CanIssue
<1>7. child.issuer = delegate /\ child.audience = params.node /\ child.nonce = params.nonce
  BY DEF WorkingCap
<1>8. child \in Capability
  <2>1. child = [issuer |-> child.issuer, audience |-> child.audience,
                 abilities |-> child.abilities, resource |-> child.resource,
                 notAfter |-> child.notAfter, nonce |-> child.nonce]
    BY DEF WorkingCap
  <2>2. child.abilities \in SUBSET Ability
    BY <1>2, <1>4
  <2> HIDE DEF child
  <2> QED BY <1>3, <1>5, <1>6, <1>7, <2>1, <2>2 DEF Capability
<1> QED BY <1>2, <1>4, <1>5, <1>6, <1>7, <1>8 DEF Weakens

-----------------------------------------------------------------------------

USE DEF BootstrapPolicy, EnrollRequest, GenTokenReq

(* The link nonce of an enrollment is a timestamp again. *)
LEMMA WrappingAddType ==
  ASSUME NEW a \in Time, NEW b \in Time
  PROVE  WrappingAdd(a, b) \in Time
BY TimeMaxAssumption DEF WrappingAdd, Time

(* The parameters of a mint are of the type issue_working_cap takes. *)
LEMMA EnrollParamsType ==
  ASSUME TypeOK, NEW r \in EnrollReq, body[r].node # Garbled
  PROVE  EnrollParams(r) \in WorkingCapParams
<1>1. body[r].node \in Principal
  BY BodyAssumption DEF TypeOK
<1>2. now[r] \in Time /\ FirstByte[body[r].node] \in Time
  BY <1>1, PolicyAssumption DEF TypeOK, Req
<1>3. WrappingAdd(now[r], FirstByte[body[r].node]) \in Time
  BY <1>2, WrappingAddType
<1>4. policy.abilities \in SUBSET Ability /\ policy.tag \in OptionalTag /\ policy.workingTtl \in Time
  BY PolicyAssumption DEF TypeOK
<1> QED BY <1>1, <1>3, <1>4 DEF EnrollParams, WorkingCapParams

(* And those of a token, bound or not. *)
LEMMA TokenParamsType ==
  ASSUME TypeOK, NEW r \in TokenReq, body[r].node # Garbled
  PROVE  TokenParams(r) \in WorkingCapParams
<1>1. /\ body[r].node \in Principal \union {Unbound}
      /\ body[r].abilities \in SUBSET Ability
      /\ body[r].tag \in OptionalTag /\ body[r].ttl \in Time
  BY BodyAssumption DEF TypeOK
<1>2. now[r] \in Time /\ policy.tag \in OptionalTag
  BY PolicyAssumption DEF TypeOK, Req
<1> QED BY <1>1, <1>2, PolicyAssumption, DelegateAssumption DEF TokenParams, WorkingCapParams

(* Issuing keeps the invariant: the one step that creates a chain. *)
LEMMA IssueKeepsCaps ==
  ASSUME CapsInv, ClockFloor > 0, NEW r \in Req, NEW from, from # "new", NEW params,
         params \in WorkingCapParams, Issue(r, from, params),
         params.node = IF body[r].node = Unbound THEN Delegate ELSE body[r].node
  PROVE  CapsInv'
<1> DEFINE cap == WorkingCap(DelegateChain, Delegate, params, now[r])
<1> USE DEF CapsInv
<1>1. now[r] \in Time /\ now[r] > 0
  BY ClockAssumption DEF Issue, Answer, ReadingsAboveFloor, TypeOK, Time
<1>2. now[r] + params.ttl > 0
  BY <1>1 DEF WorkingCapParams, Time
<1>3. /\ cap \in Capability
      /\ Weakens(cap, Parent(DelegateChain))
      /\ cap.notAfter # NoBound
      /\ cap.issuer = Delegate
      /\ cap.audience = params.node
  BY <1>1, <1>2, WorkingCapWeakens, DelegateAssumption DEF Issue
<1>4. chain' = [chain EXCEPT ![r] = Append(DelegateChain, cap)]
  BY DEF Issue, IssueWorkingCap
<1> HIDE DEF cap
<1>5. /\ Append(DelegateChain, cap) \in Seq(Capability)
      /\ Parent(Append(DelegateChain, cap)) = cap
  BY <1>3, DelegateAssumption DEF Parent
<1>6. TypeOK'
  BY <1>4, <1>5 DEF TypeOK, Issue, Answer, Phase
<1>7. ReadingsAboveFloor'
  BY DEF ReadingsAboveFloor, Issue, Answer, TypeOK
<1>8. CapsWeaken'
  <2> SUFFICES ASSUME NEW q \in Req, phase'[q] = "issued"
               PROVE  LET leaf == Parent(chain'[q]) IN
                      /\ chain'[q] = Append(DelegateChain, leaf)
                      /\ Weakens(leaf, Parent(DelegateChain))
                      /\ leaf.notAfter # NoBound
                      /\ leaf.issuer = Delegate
                      /\ leaf.audience = IF body[q].node = Unbound THEN Delegate
                                                                  ELSE body[q].node
    BY DEF CapsWeaken, Issued, Issue, Answer
  <2>1. CASE q = r
    BY <2>1, <1>3, <1>4, <1>5 DEF TypeOK
  <2>2. CASE q # r
    BY <2>2, <1>4 DEF CapsWeaken, Issued, Issue, Answer, TypeOK
  <2> QED BY <2>1, <2>2
<1> QED BY <1>6, <1>7, <1>8

(* A step that issues nothing and leaves the chains alone. *)
LEMMA OtherStepsKeepCaps ==
  ASSUME CapsInv, TypeOK', ReadingsAboveFloor', UNCHANGED <<body, chain>>,
         \A r \in Req : phase'[r] = "issued" => phase[r] = "issued"
  PROVE  CapsInv'
BY DEF CapsInv, CapsWeaken, Issued

(* The records kept by a claim are of the ledger's type. *)
LEMMA BurnType ==
  ASSUME TypeOK, NEW r \in EnrollReq,
         \/ burned' = Ledger!Collected(now[r])
         \/ Burn(r)
  PROVE  DOMAIN burned' \subseteq Nonce /\ \A n \in DOMAIN burned' : burned'[n] \in Time
<1>1. Ledger!Expiry(now[r]) \in Time
  BY ClockAssumption, TimeMaxAssumption
     DEF Ledger!Expiry, Ledger!SaturatingAdd, Time, TypeOK, Req
<1>2. body[r].nonce \in Nonce
  BY BodyAssumption DEF TypeOK
<1> QED BY <1>1, <1>2 DEF Burn, Ledger!Collected, Ledger!Remembered, TypeOK
(* Every step of the delegate keeps the invariant. *)
LEMMA CapsStep ==
  ASSUME CapsInv, ClockFloor > 0, [Next]_vars
  PROVE  CapsInv'
<1>1. TypeOK /\ ReadingsAboveFloor /\ CapsWeaken
  BY DEF CapsInv
<1>2. ASSUME NEW r \in Req, Receive(r) PROVE CapsInv'
  <2>1. TypeOK'
    BY <1>1, <1>2 DEF Receive, TypeOK, Phase
  <2>2. ReadingsAboveFloor'
    BY <1>1, <1>2 DEF Receive, ReadingsAboveFloor, TypeOK
  <2> QED BY <1>1, <1>2, <2>1, <2>2, OtherStepsKeepCaps DEF Receive, TypeOK
<1>3. ASSUME NEW r \in Req, NEW from, NEW p \in Phase \ {"new", "issued"}, from # "new",
             Answer(r, from, p), UNCHANGED chain,
             DOMAIN burned' \subseteq Nonce, \A n \in DOMAIN burned' : burned'[n] \in Time
      PROVE  CapsInv'
  <2>1. TypeOK'
    BY <1>1, <1>3 DEF Answer, TypeOK
  <2>2. ReadingsAboveFloor'
    BY <1>1, <1>3 DEF Answer, ReadingsAboveFloor, TypeOK
  <2> QED BY <1>1, <1>3, <2>1, <2>2, OtherStepsKeepCaps DEF Answer, TypeOK
<1>4. ASSUME NEW r \in Req, NEW from, NEW p \in Phase \ {"new", "issued"}, from # "new",
             Refuse(r, from, p)
      PROVE  CapsInv'
  BY <1>1, <1>3, <1>4 DEF Refuse, TypeOK
<1>5. ASSUME NEW r \in EnrollReq, Enroll(r) PROVE CapsInv'
  <2>1. r \in Req
    BY DEF Req
  <2>2. CASE RefuseSecret(r)
    BY <2>1, <2>2, <1>4 DEF RefuseSecret, Phase
  <2>3. CASE ClaimExpired(r)
    BY <2>1, <2>3, <1>4 DEF ClaimExpired, Phase
  <2>4. CASE ClaimUsed(r)
    BY <1>1, <2>1, <2>4, <1>3, BurnType DEF ClaimUsed, Phase
  <2>5. CASE ClaimOk(r)
    BY <1>1, <2>1, <2>5, <1>3, BurnType DEF ClaimOk, Phase
  <2>6. CASE RefuseNodeId(r)
    BY <2>1, <2>6, <1>4 DEF RefuseNodeId, Phase
  <2>7. CASE Mint(r)
    <3>1. body[r].node \in Principal /\ body[r].node # Unbound
      BY <1>1, <2>7, BodyAssumption, PolicyAssumption DEF Mint, TypeOK
    <3>2. EnrollParams(r).node = body[r].node
      BY DEF EnrollParams
    <3>3. EnrollParams(r) \in WorkingCapParams
      BY <1>1, <2>7, EnrollParamsType DEF Mint
    <3> QED BY <2>1, <2>7, <3>1, <3>2, <3>3, IssueKeepsCaps DEF Mint
  <2>8. CASE RefuseMint(r)
    BY <2>1, <2>8, <1>4 DEF RefuseMint, Phase
  <2> QED BY <1>5, <2>2, <2>3, <2>4, <2>5, <2>6, <2>7, <2>8 DEF Enroll
<1>6. ASSUME NEW r \in TokenReq, GenToken(r) PROVE CapsInv'
  <2>1. TokenParams(r) \in WorkingCapParams
    BY <1>1, <1>6, TokenParamsType DEF GenToken
  <2>2. TokenParams(r).node = IF body[r].node = Unbound THEN Delegate ELSE body[r].node
    BY DEF TokenParams
  <2> QED BY <1>6, <2>1, <2>2, IssueKeepsCaps DEF GenToken, Req
<1>7. ASSUME NEW r \in TokenReq, RefuseToken(r) PROVE CapsInv'
  BY <1>7, <1>4 DEF RefuseToken, Phase, Req
<1>8. CASE Restart
  <2>1. TypeOK'
    BY <1>1, <1>8, PolicyAssumption DEF Restart, TypeOK, Phase
  <2>2. ReadingsAboveFloor'
    BY <1>1, <1>8 DEF Restart, ReadingsAboveFloor, TypeOK
  <2> QED BY <1>8, <2>1, <2>2, OtherStepsKeepCaps DEF Restart
<1>9. CASE Tick
  <2>1. TypeOK' /\ ReadingsAboveFloor'
    BY <1>1, <1>9, TimeMaxAssumption, ClockAssumption
       DEF Tick, TypeOK, ReadingsAboveFloor, Time
  <2> QED BY <1>9, <2>1, OtherStepsKeepCaps DEF Tick
<1>10. CASE StepBack
  <2>1. TypeOK' /\ ReadingsAboveFloor'
    BY <1>1, <1>10 DEF StepBack, TypeOK, ReadingsAboveFloor
  <2> QED BY <1>10, <2>1, OtherStepsKeepCaps DEF StepBack
<1>11. CASE UNCHANGED vars
  <2>1. TypeOK' /\ ReadingsAboveFloor'
    BY <1>1, <1>11 DEF vars, TypeOK, ReadingsAboveFloor
  <2> QED BY <1>11, <2>1, OtherStepsKeepCaps DEF vars
<1>12. ASSUME NEW r \in Req, Revoke(r) PROVE CapsInv'
  <2>1. TypeOK' /\ ReadingsAboveFloor'
    BY <1>1, <1>12 DEF Revoke, TypeOK, ReadingsAboveFloor
  <2> QED BY <1>12, <2>1, OtherStepsKeepCaps DEF Revoke
<1> QED BY <1>2, <1>5, <1>6, <1>7, <1>8, <1>9, <1>10, <1>11, <1>12 DEF Next

(* The initial state satisfies the invariant. *)
LEMMA CapsInit == Init => CapsInv
<1> SUFFICES ASSUME Init PROVE CapsInv
  OBVIOUS
<1>1. <<>> \in Seq(Capability)
  OBVIOUS
<1>2. TypeOK
  BY <1>1, TimeMaxAssumption, ClockAssumption, PolicyAssumption DEF Init, TypeOK, Time, Phase
<1>3. ReadingsAboveFloor /\ CapsWeaken
  BY ClockAssumption DEF Init, ReadingsAboveFloor, CapsWeaken, Issued, Time
<1> QED BY <1>2, <1>3 DEF CapsInv

(* Every capability the delegate ever issues, for a node or as a token, is the    *)
(* delegate's own chain with one link on it that names the node that asked, grants *)
(* no ability and no host the delegate lacks, and does not outlive it: as long as  *)
(* its clock is past the epoch.                                                  *)
THEOREM IssuedCapsWeaken == ASSUME ClockFloor > 0 PROVE Spec => []CapsWeaken
<1>1. CapsInv /\ [Next]_vars => CapsInv'
  BY CapsStep
<1>2. CapsInv => CapsWeaken
  BY DEF CapsInv
<1> QED BY <1>1, <1>2, CapsInit, PTL DEF Spec

(* The types hold in every behaviour whose clock is past the epoch. *)
THEOREM EnrollmentTypes == ASSUME ClockFloor > 0 PROVE Spec => []TypeOK
<1>1. CapsInv /\ [Next]_vars => CapsInv'
  BY CapsStep
<1>2. CapsInv => TypeOK
  BY DEF CapsInv
<1> QED BY <1>1, <1>2, CapsInit, PTL DEF Spec
(* No link of a sound held chain expires before a link that weakens its last one. *)
LEMMA NoLinkExpiresFirst ==
  ASSUME HeldChainSound, NEW leaf \in Capability, Weakens(leaf, Parent(DelegateChain)),
         leaf.notAfter # NoBound, NEW t \in Time, t <= leaf.notAfter,
         NEW i \in 1 .. Len(DelegateChain)
  PROVE  DelegateChain[i].notAfter = NoBound \/ t <= DelegateChain[i].notAfter
<1>1. /\ DelegateChain[i] \in Capability /\ Parent(DelegateChain) \in Capability
      /\ Len(DelegateChain) \in Nat
  BY DelegateAssumption DEF Parent
<1>2. /\ DelegateChain[i].notAfter \in Nat /\ Parent(DelegateChain).notAfter \in Nat
      /\ leaf.notAfter \in Nat /\ t \in Nat
  BY <1>1 DEF Capability, Time
<1>3. NoLaterThan(leaf.notAfter, Parent(DelegateChain).notAfter)
  BY DEF Weakens
<1>4. CASE i = Len(DelegateChain)
  BY <1>2, <1>3, <1>4 DEF NoLaterThan, Parent
<1>5. CASE i # Len(DelegateChain)
  <2>1. NoLaterThan(Parent(DelegateChain).notAfter, DelegateChain[i].notAfter)
    BY <1>1, <1>5 DEF HeldChainSound, Weakens, Parent
  <2> QED BY <1>2, <1>3, <2>1 DEF NoLaterThan
<1> QED BY <1>4, <1>5

(* What an issued chain grants is accepted by the hosts it covers. *)
LEMMA ShapeWorks == ASSUME HeldChainSound, TypeOK, CapsWeaken PROVE IssuedCapsWork
<1> SUFFICES ASSUME NEW r \in Issued, Live(r),
                    \A i \in 1 .. Len(chain[r]) :
                       <<chain[r][i].issuer, chain[r][i].nonce>> \notin Revoked,
                    NEW h \in Covers(Parent(chain[r]).resource),
                    NEW a \in Parent(chain[r]).abilities
             PROVE  Authorize(h, {Root}, clock, Parent(chain[r]).audience, a, chain[r], Revoked)
  BY DEF IssuedCapsWork, Accepted
<1> DEFINE leaf == Parent(chain[r])
<1>1. /\ chain[r] = Append(DelegateChain, leaf)
      /\ Weakens(leaf, Parent(DelegateChain))
      /\ leaf.notAfter # NoBound /\ leaf.issuer = Delegate
  BY DEF CapsWeaken
<1>2. clock <= leaf.notAfter /\ clock \in Time
  BY <1>1 DEF TypeOK, Live
<1>3. chain[r] \in Seq(Capability)
  BY DEF TypeOK, Issued
<1>4. h \in Covers(leaf.resource) /\ a \in leaf.abilities
  OBVIOUS
<1>5. Len(chain[r]) = Len(DelegateChain) + 1 /\ Len(DelegateChain) \in Nat \ {0}
  BY <1>1, DelegateAssumption
<1>6. leaf \in Capability /\ leaf = chain[r][Len(DelegateChain) + 1]
  BY <1>3, <1>5 DEF Parent
<1> HIDE DEF leaf
<1>7. \A i \in 1 .. Len(DelegateChain) : chain[r][i] = DelegateChain[i]
  BY <1>1, DelegateAssumption
<1>8. ASSUME NEW i \in 1 .. Len(chain[r])
      PROVE  /\ chain[r][i].notAfter = NoBound \/ clock <= chain[r][i].notAfter
             /\ i > 1 => /\ chain[r][i].issuer = chain[r][i - 1].audience
                         /\ Weakens(chain[r][i], chain[r][i - 1])
  <2>1. CASE i = Len(DelegateChain) + 1
    <3>1. chain[r][i] = leaf /\ chain[r][i - 1] = Parent(DelegateChain)
      BY <1>5, <1>6, <1>7, <2>1 DEF Parent
    <3> QED BY <1>1, <1>2, <3>1, DelegateAssumption
  <2>2. CASE i # Len(DelegateChain) + 1
    <3>1. i \in 1 .. Len(DelegateChain)
      BY <1>5, <2>2
    <3>2. chain[r][i] = DelegateChain[i] /\ (i > 1 => chain[r][i - 1] = DelegateChain[i - 1])
      BY <1>5, <1>7, <3>1
    <3>3. chain[r][i].notAfter = NoBound \/ clock <= chain[r][i].notAfter
      BY <1>1, <1>2, <1>6, <3>1, <3>2, NoLinkExpiresFirst
    <3>4. i > 1 => /\ DelegateChain[i].issuer = DelegateChain[i - 1].audience
                   /\ Weakens(DelegateChain[i], DelegateChain[i - 1])
      BY <1>5, <3>1 DEF HeldChainSound
    <3> QED BY <3>2, <3>3, <3>4
  <2> QED BY <2>1, <2>2
<1>9. chain[r][1].issuer \in {Root}
  BY <1>5, <1>7 DEF Root
<1>10. Parent(chain[r]) = leaf
  BY DEF leaf
<1> QED BY <1>4, <1>5, <1>8, <1>9, <1>10 DEF Authorize

(* Every issued capability works: with a sound held chain and a clock past the     *)
(* epoch, a host that trusts the org root accepts it, for its node, for everything *)
(* it grants, until it expires.                                                  *)
THEOREM IssuedCapsAccepted ==
  ASSUME ClockFloor > 0, HeldChainSound PROVE Spec => []IssuedCapsWork
<1>1. TypeOK /\ CapsWeaken => IssuedCapsWork
  BY ShapeWorks
<1> QED BY <1>1, IssuedCapsWeaken, EnrollmentTypes, PTL

-----------------------------------------------------------------------------
(* What the rest needs of the state, whatever the clock starts from. *)
HandlerTypes == /\ phase \in [Req -> Phase] /\ now \in [Req -> Time] /\ clock \in Time
                /\ DOMAIN chain = Req
                /\ \A r \in EnrollReq : body[r] \in EnrollBody

LEMMA HandlerTypesInit == Init => HandlerTypes
BY ClockAssumption, TimeMaxAssumption DEF Init, HandlerTypes, Phase, Time

LEMMA HandlerTypesStep == HandlerTypes /\ [Next]_vars => HandlerTypes'
<1> SUFFICES ASSUME HandlerTypes, [Next]_vars PROVE HandlerTypes'
  OBVIOUS
<1> USE DEF HandlerTypes
<1>1. ASSUME NEW r \in Req, NEW from, NEW p \in Phase, Answer(r, from, p),
             \/ UNCHANGED chain \/ \E c : chain' = [chain EXCEPT ![r] = c]
      PROVE  HandlerTypes'
  BY <1>1 DEF Answer
<1>2. ASSUME NEW r \in Req, Receive(r) \/ Revoke(r) PROVE HandlerTypes'
  BY <1>2 DEF Receive, Revoke, Phase
<1>3. ASSUME NEW r \in EnrollReq, Enroll(r) PROVE HandlerTypes'
  BY <1>1, <1>3 DEF Enroll, RefuseSecret, ClaimExpired, ClaimUsed, ClaimOk, RefuseNodeId,
                    Mint, RefuseMint, Refuse, Issue, Phase, Req
<1>4. ASSUME NEW r \in TokenReq, GenToken(r) \/ RefuseToken(r) PROVE HandlerTypes'
  BY <1>1, <1>4 DEF GenToken, RefuseToken, Refuse, Issue, Phase, Req
<1>5. CASE Restart
  BY <1>5 DEF Restart, Phase
<1>6. CASE Tick \/ StepBack \/ UNCHANGED vars
  BY <1>6, TimeMaxAssumption DEF Tick, StepBack, vars, Time
<1> QED
  BY <1>2, <1>3, <1>4, <1>5, <1>6 DEF Next

-----------------------------------------------------------------------------
(* A step burns at most the nonce of a request that gets past the secret, and a     *)
(* request that got past it stays so.                                             *)
PastSecret == {"minting", "issued", "refused", "lost"}
Authentic(r, n) == body[r].secretOk /\ body[r].nonce = n /\ phase[r] \in PastSecret

LEMMA BurnStep ==
    ASSUME HandlerTypes, [Next]_vars, NEW n \in DOMAIN burned'
    PROVE  \/ n \in DOMAIN burned
           \/ \E r \in EnrollReq : Authentic(r, n)'
<1>1. CASE \E r \in Req : Receive(r) \/ Revoke(r)
  BY <1>1 DEF Receive, Revoke
<1>2. ASSUME NEW r \in EnrollReq, ClaimOk(r) PROVE n \in DOMAIN burned \/ Authentic(r, n)'
  BY <1>2 DEF ClaimOk, Burn, Ledger!Remembered, Answer, Authentic, PastSecret, HandlerTypes, Req
<1>3. ASSUME NEW r \in EnrollReq, ClaimUsed(r) PROVE n \in DOMAIN burned
  BY <1>3 DEF ClaimUsed, Ledger!Collected, Ledger!Remembered
<1>4. ASSUME NEW r \in EnrollReq, RefuseSecret(r) \/ ClaimExpired(r) \/ RefuseNodeId(r)
                                   \/ Mint(r) \/ RefuseMint(r)
      PROVE  n \in DOMAIN burned
  BY <1>4 DEF RefuseSecret, ClaimExpired, RefuseNodeId, Mint, RefuseMint, Refuse, Issue
<1>5. ASSUME NEW r \in TokenReq, GenToken(r) \/ RefuseToken(r) PROVE n \in DOMAIN burned
  BY <1>5 DEF GenToken, RefuseToken, Refuse, Issue
<1>6. CASE Restart
  BY <1>6 DEF Restart
<1>7. CASE Tick \/ StepBack \/ UNCHANGED vars
  BY <1>7 DEF Tick, StepBack, vars
<1> QED
  BY <1>1, <1>2, <1>3, <1>4, <1>5, <1>6, <1>7 DEF Next, Enroll

LEMMA AuthenticStays ==
    ASSUME HandlerTypes, [Next]_vars, NEW q \in EnrollReq, NEW n, Authentic(q, n)
    PROVE  Authentic(q, n)'
<1> USE DEF Authentic, PastSecret, HandlerTypes, Req
<1>1. ASSUME NEW r \in Req, NEW from, from \in {"new", "received"}, NEW p, Answer(r, from, p)
      PROVE  Authentic(q, n)'
  BY <1>1 DEF Answer
<1>2. ASSUME NEW r \in Req, NEW p \in PastSecret, Answer(r, "minting", p) PROVE Authentic(q, n)'
  BY <1>2 DEF Answer
<1>3. CASE \E r \in Req : Receive(r) \/ Revoke(r)
  BY <1>3 DEF Receive, Revoke
<1>4. ASSUME NEW r \in EnrollReq, Enroll(r) PROVE Authentic(q, n)'
  BY <1>1, <1>2, <1>4 DEF Enroll, RefuseSecret, ClaimExpired, ClaimUsed, ClaimOk, RefuseNodeId,
                          Mint, RefuseMint, Refuse, Issue
<1>5. ASSUME NEW r \in TokenReq, GenToken(r) \/ RefuseToken(r) PROVE Authentic(q, n)'
  BY <1>1, <1>5 DEF GenToken, RefuseToken, Refuse, Issue
<1>6. CASE Restart \/ Tick \/ StepBack \/ UNCHANGED vars
  BY <1>6 DEF Restart, Tick, StepBack, vars
<1> QED
  BY <1>3, <1>4, <1>5, <1>6 DEF Next

(* A nonce is on the ledger only if a request with the right secret brought it: a   *)
(* refused secret costs the node that is yet to enroll nothing (do_enroll).        *)
THEOREM OnlyTheSecretBurns == Spec => []BurnedByAuthenticated
<1> DEFINE Inv == HandlerTypes /\ BurnedByAuthenticated
<1>1. Init => Inv
  BY HandlerTypesInit DEF Init, BurnedByAuthenticated
<1>2. Inv /\ [Next]_vars => Inv'
  <2> SUFFICES ASSUME Inv, [Next]_vars, NEW n \in DOMAIN burned'
               PROVE  \E r \in EnrollReq : Authentic(r, n)'
    BY HandlerTypesStep DEF BurnedByAuthenticated, Authentic, PastSecret
  <2>1. CASE n \in DOMAIN burned
    <3>1. PICK q \in EnrollReq : Authentic(q, n)
      BY <2>1 DEF BurnedByAuthenticated, Authentic, PastSecret
    <3> QED
      BY <3>1, AuthenticStays
  <2> QED
    BY <2>1, BurnStep
<1>3. Inv => BurnedByAuthenticated
  OBVIOUS
<1> QED
  BY <1>1, <1>2, <1>3, PTL DEF Spec

-----------------------------------------------------------------------------
(* The ledger as the handlers see it: each step is one of the ledger's or none. *)
Seen == [r \in EnrollReq |-> IF body[r].secretOk THEN LedgerPhase(phase[r]) ELSE "new"]
SeenNonce == [r \in EnrollReq |-> body[r].nonce]
SeenNow == [r \in EnrollReq |-> IF body[r].secretOk THEN now[r] ELSE 0]

LEMMA LedgerStutters ==
    ASSUME UNCHANGED <<clock, burned, body, now>>, Seen' = Seen PROVE UNCHANGED Ledger!vars
BY DEF Seen, SeenNonce, SeenNow, Ledger!vars

(* An answer of the ledger to a request with the right secret. *)
LEMMA LedgerAnswers ==
    ASSUME HandlerTypes, NEW r \in EnrollReq, body[r].secretOk, NEW p \in Phase,
           Answer(r, "received", p)
    PROVE  /\ Seen[r] = "claiming" /\ SeenNow[r] = now[r] /\ SeenNonce[r] = body[r].nonce
           /\ Seen' = [Seen EXCEPT ![r] = LedgerPhase(p)]
           /\ UNCHANGED <<clock, SeenNonce, SeenNow>>
BY DEF Seen, SeenNow, SeenNonce, LedgerPhase, Answer, HandlerTypes, Req

LEMMA ClaimIsLedgers ==
    ASSUME HandlerTypes, NEW r \in EnrollReq, ClaimExpired(r) \/ ClaimUsed(r) \/ ClaimOk(r)
    PROVE  Ledger!ClaimExpired(r) \/ Ledger!ClaimUsed(r) \/ Ledger!ClaimOk(r)
<1>1. body[r].secretOk
  BY DEF ClaimExpired, ClaimUsed, ClaimOk
<1>2. CASE ClaimExpired(r)
  <2>1. Answer(r, "received", "expired") /\ Ledger!WindowPassed(now[r]) /\ UNCHANGED burned
    BY <1>2 DEF ClaimExpired, Refuse
  <2> QED
    BY <1>1, <2>1, LedgerAnswers DEF Ledger!ClaimExpired, Ledger!Answer, Seen, SeenNonce, SeenNow,
                                     LedgerPhase, Phase
<1>3. CASE ClaimUsed(r)
  BY <1>1, <1>3, LedgerAnswers DEF ClaimUsed, Ledger!ClaimUsed, Ledger!Answer, Seen, SeenNonce,
                                   SeenNow, LedgerPhase, Phase
<1>4. CASE ClaimOk(r)
  BY <1>1, <1>4, LedgerAnswers DEF ClaimOk, Burn, Ledger!ClaimOk, Ledger!Answer, Seen, SeenNonce,
                                   SeenNow, LedgerPhase, Phase
<1> QED
  BY <1>2, <1>3, <1>4

LEMMA ReceiveIsLedgers ==
    ASSUME HandlerTypes, NEW r \in Req, Receive(r)
    PROVE  UNCHANGED Ledger!vars \/ \E q \in EnrollReq : Ledger!Receive(q)
<1>1. CASE r \in EnrollReq /\ body[r].secretOk
  <2>1. /\ Seen[r] = "new" /\ Seen' = [Seen EXCEPT ![r] = "claiming"]
        /\ SeenNow' = [SeenNow EXCEPT ![r] = clock]
        /\ UNCHANGED <<clock, burned, SeenNonce>>
    BY <1>1 DEF Receive, Seen, SeenNow, SeenNonce, LedgerPhase, HandlerTypes, Req
  <2>2. Ledger!Receive(r)
    BY <1>1, <2>1 DEF Ledger!Receive, Seen, SeenNow, SeenNonce
  <2> QED
    BY <1>1, <2>2
<1>2. CASE ~(r \in EnrollReq /\ body[r].secretOk)
  <2>1. Seen' = Seen /\ SeenNow' = SeenNow /\ UNCHANGED <<clock, burned, body>>
    BY <1>2 DEF Receive, Seen, SeenNow, HandlerTypes, Req
  <2> QED
    BY <2>1 DEF Seen, SeenNow, Ledger!vars
<1> QED
  BY <1>1, <1>2

LEMMA OthersPassLedgerBy ==
    ASSUME HandlerTypes, NEW r \in Req, NEW from, NEW p \in Phase, Answer(r, from, p),
           UNCHANGED burned,
           \/ r \notin EnrollReq
           \/ ~body[r].secretOk
           \/ from = "minting" /\ p \in {"issued", "refused"}
    PROVE  UNCHANGED Ledger!vars
<1>1. Seen' = Seen
  BY DEF Seen, LedgerPhase, Answer, HandlerTypes, Req
<1> QED
  BY <1>1, LedgerStutters DEF Answer

LEMMA StepUsesLedger ==
    ASSUME HandlerTypes, restarts \in Nat, UNCHANGED restarts, [Next]_vars
    PROVE  [Ledger!Next]_(Ledger!vars)
<1>1. ASSUME NEW r \in Req, Receive(r) PROVE [Ledger!Next]_(Ledger!vars)
  BY <1>1, ReceiveIsLedgers DEF Ledger!Next
<1>2. ASSUME NEW r \in Req, Revoke(r) PROVE [Ledger!Next]_(Ledger!vars)
  BY <1>2, LedgerStutters DEF Revoke, Seen
<1>3. ASSUME NEW r \in EnrollReq, ClaimExpired(r) \/ ClaimUsed(r) \/ ClaimOk(r)
      PROVE  [Ledger!Next]_(Ledger!vars)
  BY <1>3, ClaimIsLedgers DEF Ledger!Next
<1>4. ASSUME NEW r \in EnrollReq,
             RefuseSecret(r) \/ RefuseNodeId(r) \/ Mint(r) \/ RefuseMint(r)
      PROVE  [Ledger!Next]_(Ledger!vars)
  BY <1>4, OthersPassLedgerBy DEF RefuseSecret, RefuseNodeId, Mint, RefuseMint, Refuse, Issue,
                                  Phase, Req
<1>5. ASSUME NEW r \in TokenReq, GenToken(r) \/ RefuseToken(r) PROVE [Ledger!Next]_(Ledger!vars)
  BY <1>5, OthersPassLedgerBy, BodyAssumption DEF GenToken, RefuseToken, Refuse, Issue, Phase, Req
<1>6. CASE Restart
  BY <1>6 DEF Restart
<1>7. CASE Tick
  BY <1>7 DEF Tick, Ledger!Next, Ledger!Tick
<1>8. CASE StepBack
  <2>1. ClockMayStepBack /\ UNCHANGED <<burned, body, phase, now>>
    BY <1>8 DEF StepBack
  <2>2. clock' \in {t \in Ledger!Time : ClockFloor <= t /\ t < clock}
    BY <1>8 DEF StepBack, Ledger!Time, Time
  <2>3. Ledger!StepBack
    BY <2>1, <2>2, Zenon DEF Ledger!StepBack
  <2> QED
    BY <2>3 DEF Ledger!Next
<1>9. CASE UNCHANGED vars
  BY <1>9 DEF vars, Ledger!vars
<1> QED
  BY <1>1, <1>2, <1>3, <1>4, <1>5, <1>6, <1>7, <1>8, <1>9 DEF Next, Enroll

LEMMA RestartsCount == restarts \in Nat /\ [Next]_vars => restarts' \in Nat /\ restarts <= restarts'
BY DEF Next, Receive, Revoke, Enroll, RefuseSecret, ClaimExpired, ClaimUsed, ClaimOk, Answer,
       RefuseNodeId, Mint, RefuseMint, Refuse, Issue, GenToken, RefuseToken, Restart, Tick,
       StepBack, vars

LEMMA InitUsesLedger == Init => Ledger!Init
<1> SUFFICES ASSUME Init PROVE Ledger!Init
  OBVIOUS
<1>1. \A r \in EnrollReq : body[r].nonce \in Nonce
  BY HandlerTypesInit, BodyAssumption DEF HandlerTypes
<1>2. \A r \in EnrollReq : phase[r] = "new" /\ now[r] = 0
  BY DEF Init, Req
<1> QED
  BY <1>1, <1>2 DEF Init, Ledger!Init, LedgerPhase, Ledger!NoBound, NoBound

(* From one restart to the next, the delegate is a user of the ledger as NonceLedger  *)
(* specifies it (do_enroll over claim).                                           *)
THEOREM DelegateUsesLedger == Spec => UsesLedger
<1> DEFINE Inv == HandlerTypes /\ restarts \in Nat
<1>1. Init => Inv
  BY HandlerTypesInit DEF Init
<1>2. Inv /\ [Next]_vars => Inv'
  BY HandlerTypesStep, RestartsCount
<1>3. Inv /\ [Next]_vars => [UNCHANGED restarts => Ledger!Next]_(Ledger!vars)
  BY StepUsesLedger
<1> QED
  BY <1>1, <1>2, <1>3, InitUsesLedger, PTL DEF Spec, UsesLedger

(* A delegate that is never restarted is the ledger, so that all that is proved of    *)
(* NonceLedger holds of it.                                                       *)
THEOREM OneLifeIsLedger == ASSUME MaxRestarts = 0 PROVE Spec => Ledger!Spec
<1> DEFINE Inv == HandlerTypes /\ restarts = 0
<1>1. Init => Inv
  BY HandlerTypesInit DEF Init
<1>2. restarts = 0 /\ [Next]_vars => UNCHANGED restarts
  BY DEF Next, Receive, Revoke, Enroll, RefuseSecret, ClaimExpired, ClaimUsed, ClaimOk, Answer,
         RefuseNodeId, Mint, RefuseMint, Refuse, Issue, GenToken, RefuseToken, Restart, Tick,
         StepBack, vars
<1>3. Inv /\ [Next]_vars => Inv' /\ [Ledger!Next]_(Ledger!vars)
  BY <1>2, HandlerTypesStep, StepUsesLedger
<1> QED
  BY <1>1, <1>3, InitUsesLedger, PTL DEF Spec, Ledger!Spec

-----------------------------------------------------------------------------
(* Who got past the ledger in this life is on record for its retention, until a claim *)
(* of this life that reads a later time collects the record.                       *)
Through(r) == phase[r] \in {"minting", "issued", "refused"}
Recorded(r) == /\ body[r].nonce \in DOMAIN burned
               /\ burned[body[r].nonce] >= Ledger!Expiry(now[r])
AllRecorded == \A r \in EnrollReq : Through(r) /\ life[r] = restarts =>
                  Recorded(r) \/ ClaimedFrom(restarts, Ledger!Expiry(now[r]))
Apart(r, q) == \/ ClaimedFrom(life[r], Ledger!Expiry(now[r]))
               \/ ClaimedFrom(life[r], Ledger!Expiry(now[q]))
AllApart == \A r, q \in EnrollReq :
    r # q /\ Through(r) /\ Through(q) /\ body[r].nonce = body[q].nonce /\ life[r] = life[q]
    => Apart(r, q)
Lives == /\ restarts \in Nat /\ life \in [Req -> Nat]
         /\ \A r \in Req : life[r] <= restarts
         /\ \A r \in EnrollReq : phase[r] = "received" => life[r] = restarts

BurnedTypes == \A n \in DOMAIN burned : burned[n] \in Nat

RetainedInv == HandlerTypes /\ Lives /\ BurnedTypes /\ AllRecorded /\ AllApart

LEMMA ExpiryType == ASSUME NEW t \in Time PROVE Ledger!Expiry(t) \in Nat
BY TimeMaxAssumption, ClockAssumption DEF Ledger!Expiry, Ledger!SaturatingAdd, Time

(* A step of the process that takes no claim back keeps what claims have done. *)
Keeps == \A p \in EnrollReq : Claimed(p) => Claimed(p)' /\ life'[p] = life[p] /\ now'[p] = now[p]

LEMMA ClaimsStay == ASSUME Keeps, NEW l, NEW t, ClaimedFrom(l, t) PROVE ClaimedFrom(l, t)'
BY DEF Keeps, ClaimedFrom

(* A step that lets nobody past the ledger and touches no record. *)
LEMMA NobodyThrough ==
    ASSUME RetainedInv, Keeps, UNCHANGED <<body, burned, restarts>>,
           \A r \in EnrollReq : Through(r)' =>
              Through(r) /\ life'[r] = life[r] /\ now'[r] = now[r]
    PROVE  AllRecorded' /\ AllApart'
<1>1. AllRecorded'
  BY ClaimsStay DEF RetainedInv, AllRecorded, Recorded
<1>2. AllApart'
  BY ClaimsStay DEF RetainedInv, AllApart, Apart
<1> QED
  BY <1>1, <1>2

(* A claim of this life in time: it drops only records that its reading outlives. *)
LEMMA ClaimDrops ==
    ASSUME RetainedInv, NEW r \in EnrollReq, phase[r] = "received", NEW q \in EnrollReq,
           Through(q), life[q] = restarts, NEW p, p \in {"minting", "used"},
           Answer(r, "received", p)
    PROVE  \/ /\ body[q].nonce \in Ledger!Remembered(now[r])
              /\ burned[body[q].nonce] >= Ledger!Expiry(now[q])
           \/ ClaimedFrom(restarts, Ledger!Expiry(now[q]))'
<1> USE DEF RetainedInv, HandlerTypes, Req
<1>1. now[r] \in Nat /\ Ledger!Expiry(now[q]) \in Nat
  BY ExpiryType DEF Time
<1>2. Keeps /\ Claimed(r)' /\ life'[r] = restarts /\ now'[r] = now[r]
  BY DEF Keeps, Claimed, Answer, Lives
<1>3. CASE ClaimedFrom(restarts, Ledger!Expiry(now[q]))
  <2>1. ClaimedFrom(restarts, Ledger!Expiry(now[q])) /\ UNCHANGED restarts
        /\ now'[q] = now[q]
    BY <1>3 DEF Answer
  <2> QED
    BY <1>2, <2>1, ClaimsStay DEF ClaimedFrom
<1>4. CASE Recorded(q) /\ body[q].nonce \in Ledger!Remembered(now[r])
  BY <1>4 DEF Recorded
<1>5. CASE Recorded(q) /\ body[q].nonce \notin Ledger!Remembered(now[r])
  <2>1. ~(burned[body[q].nonce] > now[r]) /\ burned[body[q].nonce] \in Nat
    BY <1>5 DEF Recorded, Ledger!Remembered, BurnedTypes
  <2>2. now[r] >= Ledger!Expiry(now[q])
    BY <1>1, <1>5, <2>1 DEF Recorded
  <2>3. UNCHANGED <<now, restarts>>
    BY DEF Answer
  <2> QED
    BY <1>2, <2>2, <2>3 DEF ClaimedFrom
<1> QED
  BY <1>3, <1>4, <1>5 DEF AllRecorded

LEMMA ClaimUsedRetains ==
    ASSUME RetainedInv, NEW r \in EnrollReq, ClaimUsed(r) PROVE AllRecorded' /\ AllApart'
<1> USE DEF RetainedInv, HandlerTypes, Req
<1>1. /\ phase[r] = "received" /\ Answer(r, "received", "used")
      /\ burned' = Ledger!Collected(now[r]) /\ UNCHANGED <<body, now, life, restarts>>
  BY DEF ClaimUsed, Answer
<1>2. Keeps /\ \A q \in EnrollReq : Through(q)' => Through(q)
  BY <1>1 DEF Keeps, Claimed, Through, Answer
<1>3. AllRecorded'
  <2> SUFFICES ASSUME NEW q \in EnrollReq, Through(q), life[q] = restarts
               PROVE  Recorded(q)' \/ ClaimedFrom(restarts, Ledger!Expiry(now[q]))'
    BY <1>1, <1>2 DEF AllRecorded, ClaimedFrom
  <2> QED
    BY <1>1, ClaimDrops DEF Recorded, Ledger!Collected
<1>4. AllApart'
  BY <1>1, <1>2, ClaimsStay DEF AllApart, Apart, ClaimedFrom
<1> QED
  BY <1>3, <1>4

LEMMA ClaimOkRetains ==
    ASSUME RetainedInv, NEW r \in EnrollReq, ClaimOk(r)
    PROVE  AllRecorded' /\ AllApart' /\ BurnedTypes'
<1> USE DEF RetainedInv, HandlerTypes, Req
<1> DEFINE m == body[r].nonce
<1>1. /\ phase[r] = "received" /\ Answer(r, "received", "minting")
      /\ phase' = [phase EXCEPT ![r] = "minting"]
      /\ m \notin Ledger!Remembered(now[r]) /\ UNCHANGED <<body, now, life, restarts>>
      /\ burned' = [n \in Ledger!Remembered(now[r]) \union {m} |->
                       IF n = m THEN Ledger!Expiry(now[r]) ELSE burned[n]]
  BY DEF ClaimOk, Answer, Burn
<1>2. Ledger!Expiry(now[r]) \in Nat /\ life[r] = restarts
  BY <1>1, ExpiryType DEF Lives
<1>3. Keeps /\ \A q \in EnrollReq : q # r /\ Through(q)' => Through(q)
  BY <1>1 DEF Keeps, Claimed, Through
<1>4. ASSUME NEW q \in EnrollReq, Through(q), life[q] = restarts
      PROVE  \/ /\ body[q].nonce \in Ledger!Remembered(now[r])
                /\ burned[body[q].nonce] >= Ledger!Expiry(now[q])
             \/ ClaimedFrom(restarts, Ledger!Expiry(now[q]))'
  BY <1>1, <1>4, ClaimDrops
<1> HIDE DEF m
<1>5. AllRecorded'
  <2> SUFFICES ASSUME NEW q \in EnrollReq, Through(q)', life[q] = restarts
               PROVE  Recorded(q)' \/ ClaimedFrom(restarts, Ledger!Expiry(now[q]))'
    BY <1>1 DEF AllRecorded, ClaimedFrom
  <2>1. CASE q = r
    BY <1>1, <1>2, <2>1 DEF Recorded, m
  <2>2. CASE q # r
    BY <1>1, <1>3, <1>4, <2>2 DEF Recorded
  <2> QED
    BY <2>1, <2>2
<1>6. AllApart'
  <2>1. ASSUME NEW q \in EnrollReq, q # r, Through(q), body[q].nonce = m, life[q] = restarts
        PROVE  ClaimedFrom(restarts, Ledger!Expiry(now[q]))'
    BY <1>1, <1>4, <2>1
  <2> SUFFICES ASSUME NEW x \in EnrollReq, NEW q \in EnrollReq, x # q, Through(x)', Through(q)',
                      body[x].nonce = body[q].nonce, life[x] = life[q]
               PROVE  Apart(x, q)'
    BY <1>1 DEF AllApart
  <2>2. CASE x = r \/ q = r
    BY <1>1, <1>2, <1>3, <2>1, <2>2 DEF Apart, ClaimedFrom, m
  <2>3. CASE x # r /\ q # r
    <3>1. Apart(x, q)
      BY <1>3, <2>3 DEF AllApart
    <3> QED
      BY <1>1, <1>3, <3>1, ClaimsStay DEF Apart, ClaimedFrom
  <2> QED
    BY <2>2, <2>3
<1>7. BurnedTypes'
  BY <1>1, <1>2 DEF BurnedTypes, Ledger!Remembered
<1> QED
  BY <1>5, <1>6, <1>7

LEMMA StepLives == ASSUME RetainedInv, [Next]_vars PROVE Lives'
<1> USE DEF RetainedInv, HandlerTypes, Lives, Req
<1>1. ASSUME NEW r \in Req, NEW from, NEW p, p # "received", Answer(r, from, p) PROVE Lives'
  BY <1>1 DEF Answer
<1>2. ASSUME NEW r \in Req, Receive(r) \/ Revoke(r) PROVE Lives'
  BY <1>2 DEF Receive, Revoke
<1>3. ASSUME NEW r \in EnrollReq, Enroll(r) PROVE Lives'
  BY <1>1, <1>3 DEF Enroll, RefuseSecret, ClaimExpired, ClaimUsed, ClaimOk, RefuseNodeId,
                    Mint, RefuseMint, Refuse, Issue
<1>4. ASSUME NEW r \in TokenReq, GenToken(r) \/ RefuseToken(r) PROVE Lives'
  BY <1>1, <1>4 DEF GenToken, RefuseToken, Refuse, Issue
<1>5. CASE Restart \/ Tick \/ StepBack \/ UNCHANGED vars
  BY <1>5 DEF Restart, Tick, StepBack, vars
<1> QED
  BY <1>2, <1>3, <1>4, <1>5 DEF Next

LEMMA StepRetains ==
    ASSUME RetainedInv, [Next]_vars PROVE AllRecorded' /\ AllApart' /\ BurnedTypes'
<1> DEFINE Kept == AllRecorded' /\ AllApart' /\ BurnedTypes'
<1> USE DEF RetainedInv
<1>1. ASSUME UNCHANGED <<burned, phase, body, now, life, restarts>> PROVE Kept
  <2>1. Keeps /\ \A r \in EnrollReq : Through(r)' => Through(r)
    BY <1>1 DEF Keeps, Claimed, Through
  <2> QED
    BY <1>1, <2>1, NobodyThrough DEF BurnedTypes
<1>2. ASSUME NEW r \in Req, NEW from, NEW p, Answer(r, from, p), UNCHANGED burned,
             \/ r \in TokenReq
             \/ from = "received" /\ p \in {"badSecret", "expired"}
             \/ from = "minting" /\ p \in {"issued", "refused"}
      PROVE  Kept
  <2>1. Keeps /\ \A q \in EnrollReq : Through(q)' => Through(q)
    BY <1>2, BodyAssumption DEF Keeps, Claimed, Through, Answer, HandlerTypes, Req
  <2> QED
    BY <1>2, <2>1, NobodyThrough DEF Answer, BurnedTypes
<1>3. ASSUME NEW r \in Req, Receive(r) PROVE Kept
  <2>1. Keeps /\ \A q \in EnrollReq : Through(q)' =>
           Through(q) /\ life'[q] = life[q] /\ now'[q] = now[q]
    BY <1>3 DEF Keeps, Claimed, Through, Receive, HandlerTypes, Lives, Req
  <2> QED
    BY <1>3, <2>1, NobodyThrough DEF Receive, BurnedTypes
<1>4. ASSUME NEW r \in EnrollReq, ClaimUsed(r) PROVE Kept
  <2>1. BurnedTypes'
    BY <1>4 DEF ClaimUsed, Ledger!Collected, Ledger!Remembered, BurnedTypes
  <2> QED
    BY <1>4, <2>1, ClaimUsedRetains
<1>5. ASSUME NEW r \in EnrollReq, ClaimOk(r) PROVE Kept
  BY <1>5, ClaimOkRetains
<1>6. ASSUME Restart PROVE Kept
  <2>1. /\ UNCHANGED <<body, now, life>> /\ restarts' = restarts + 1 /\ BurnedTypes'
        /\ \A r \in EnrollReq : (Claimed(r) => Claimed(r)') /\ (Through(r)' => Through(r))
    BY <1>6 DEF Restart, BurnedTypes, Claimed, Through, HandlerTypes, Req
  <2>2. Keeps
    BY <2>1 DEF Keeps
  <2>3. AllRecorded'
    BY <2>1 DEF AllRecorded, Lives, Req
  <2>4. AllApart'
    BY <2>1, <2>2, ClaimsStay DEF AllApart, Apart, ClaimedFrom
  <2> QED
    BY <2>1, <2>3, <2>4
<1> SUFFICES Kept
  OBVIOUS
<1> HIDE DEF Kept
<1>7. ASSUME NEW r \in EnrollReq, RefuseSecret(r) \/ ClaimExpired(r) \/ RefuseNodeId(r)
                                   \/ Mint(r) \/ RefuseMint(r)
      PROVE  Kept
  BY <1>2, <1>7 DEF RefuseSecret, ClaimExpired, RefuseNodeId, Mint, RefuseMint, Refuse, Issue, Req
<1>8. ASSUME NEW r \in TokenReq, GenToken(r) \/ RefuseToken(r) PROVE Kept
  BY <1>2, <1>8 DEF GenToken, RefuseToken, Refuse, Issue, Req
<1>9. ASSUME NEW r \in Req, Revoke(r) PROVE Kept
  BY <1>1, <1>9 DEF Revoke
<1>10. CASE Tick \/ StepBack \/ UNCHANGED vars
  BY <1>1, <1>10 DEF Tick, StepBack, vars
<1> QED
  BY <1>3, <1>4, <1>5, <1>6, <1>7, <1>8, <1>9, <1>10 DEF Next, Enroll

(* Two enrollments of one process life with one nonce both get a capability only once *)
(* a handler has read a time at which the retention of the one that came first is    *)
(* over: for any window or none, any restarts and any movement of the clock          *)
(* (do_enroll over claim, as main.rs configures them and however else).             *)
THEOREM RetainedNonceBuysOneCap == Spec => []OneCapPerRetention
<1>1. Init => RetainedInv
  <2> SUFFICES ASSUME Init PROVE RetainedInv
    OBVIOUS
  <2>1. \A r \in EnrollReq : phase[r] = "new"
    BY DEF Init, Req
  <2> QED
    BY <2>1, HandlerTypesInit
       DEF Init, RetainedInv, Lives, BurnedTypes, AllRecorded, AllApart, Through, Req
<1>2. RetainedInv /\ [Next]_vars => RetainedInv'
  BY StepLives, StepRetains, HandlerTypesStep DEF RetainedInv
<1>3. RetainedInv => OneCapPerRetention
  BY DEF RetainedInv, AllApart, Apart, Through, OneCapPerRetention
<1> QED
  BY <1>1, <1>2, <1>3, PTL DEF Spec

-----------------------------------------------------------------------------
(* The resource of an issued link is what working_resource makes of the tag. *)
Held == Parent(DelegateChain).resource
Narrowed(r) == /\ Parent(chain[r]).resource = WorkingResource(Held, TagAsked(r))
               /\ ~RefusesTag(Held, TagAsked(r))
TagInv == /\ HandlerTypes /\ policy \in Policies /\ \A r \in TokenReq : body[r] \in TokenBody
          /\ \A r \in Issued : Narrowed(r)

LEMMA IssueNarrows ==
    ASSUME TagInv, NEW r \in Req, NEW from, NEW params, params.tag = TagAsked(r),
           Issue(r, from, params)
    PROVE  \A q \in Issued' : Narrowed(q)'
<1>1. /\ phase' = [phase EXCEPT ![r] = "issued"] /\ UNCHANGED <<body, now, policy>>
      /\ chain' = [chain EXCEPT ![r] = IssueWorkingCap(DelegateChain, Delegate, params, now[r])]
      /\ ~RefusesTag(Held, params.tag)
  BY DEF Issue, Answer, CanIssue, Held
<1>2. \A q \in Req : TagAsked(q)' = TagAsked(q)
  BY <1>1 DEF TagAsked, TokenParams
<1>3. ASSUME NEW q \in Issued', q # r PROVE Narrowed(q)'
  BY <1>1, <1>2, <1>3 DEF TagInv, HandlerTypes, Issued, Narrowed, Held
<1>4. Narrowed(r)'
  <2>1. chain'[r] = Append(DelegateChain, WorkingCap(DelegateChain, Delegate, params, now[r]))
    BY <1>1 DEF TagInv, HandlerTypes, IssueWorkingCap
  <2>2. Parent(chain'[r]) = WorkingCap(DelegateChain, Delegate, params, now[r])
    BY <2>1, DelegateAssumption DEF Parent
  <2> QED
    BY <1>1, <1>2, <2>2 DEF WorkingCap, Narrowed, Held
<1> QED
  BY <1>3, <1>4

LEMMA StepNarrows == ASSUME TagInv, [Next]_vars PROVE TagInv'
<1>1. UNCHANGED <<body, policy>>
  BY DEF Next, Receive, Revoke, Enroll, RefuseSecret, ClaimExpired, ClaimUsed, ClaimOk, Answer,
         RefuseNodeId, Mint, RefuseMint, Refuse, Issue, GenToken, RefuseToken, Restart, Tick,
         StepBack, vars
<1>2. ASSUME UNCHANGED <<chain, body, policy>>, Issued' \subseteq Issued
      PROVE  \A r \in Issued' : Narrowed(r)'
  BY <1>2 DEF TagInv, Narrowed, TagAsked, TokenParams, Held
<1>3. ASSUME NEW r \in Req, NEW from, NEW p, p # "issued", Answer(r, from, p), UNCHANGED chain
      PROVE  \A q \in Issued' : Narrowed(q)'
  <2>1. Issued' \subseteq Issued
    BY <1>3 DEF Answer, Issued, TagInv, HandlerTypes
  <2> QED
    BY <1>2, <1>3, <2>1 DEF Answer
<1>4. ASSUME NEW r \in Req, Receive(r) \/ Revoke(r) PROVE \A q \in Issued' : Narrowed(q)'
  <2>1. UNCHANGED chain /\ Issued' \subseteq Issued
    BY <1>4 DEF Receive, Revoke, Issued, TagInv, HandlerTypes
  <2> QED
    BY <1>1, <1>2, <2>1
<1>5. ASSUME NEW r \in EnrollReq, Mint(r) PROVE \A q \in Issued' : Narrowed(q)'
  BY <1>5, IssueNarrows, BodyAssumption DEF Mint, EnrollParams, TagAsked, Req
<1>6. ASSUME NEW r \in TokenReq, GenToken(r) PROVE \A q \in Issued' : Narrowed(q)'
  BY <1>6, IssueNarrows DEF GenToken, TagAsked, Req
<1>7. ASSUME NEW r \in EnrollReq, RefuseSecret(r) \/ ClaimExpired(r) \/ ClaimUsed(r)
                                   \/ ClaimOk(r) \/ RefuseNodeId(r) \/ RefuseMint(r)
      PROVE  \A q \in Issued' : Narrowed(q)'
  BY <1>3, <1>7 DEF RefuseSecret, ClaimExpired, ClaimUsed, ClaimOk, RefuseNodeId, RefuseMint,
                    Refuse, Req
<1>8. ASSUME NEW r \in TokenReq, RefuseToken(r) PROVE \A q \in Issued' : Narrowed(q)'
  BY <1>3, <1>8 DEF RefuseToken, Refuse, Req
<1>9. CASE Restart \/ Tick \/ StepBack \/ UNCHANGED vars
  <2>1. UNCHANGED chain /\ Issued' \subseteq Issued
    BY <1>9 DEF Restart, Tick, StepBack, vars, Issued
  <2>2. \A q \in Issued' : Narrowed(q)'
    BY <1>1, <1>2, <2>1
  <2> QED
    BY <1>1, <2>2, HandlerTypesStep DEF TagInv
<1> QED
  BY <1>1, <1>4, <1>5, <1>6, <1>7, <1>8, <1>9, HandlerTypesStep DEF Next, Enroll, TagInv

(* What a delegate that holds a chain over any host, or over the hosts of a tag,     *)
(* issues for a tag names only hosts with that tag (working_resource).              *)
THEOREM TagsAreHonoured ==
    ASSUME Held.kind \in {"any", "tag"} PROVE Spec => []TagHonoured
<1>1. Init => TagInv
  <2> SUFFICES ASSUME Init PROVE TagInv
    OBVIOUS
  <2> QED
    BY HandlerTypesInit DEF Init, TagInv, Issued
<1>2. TagInv /\ [Next]_vars => TagInv'
  BY StepNarrows
<1>3. TagInv => TagHonoured
  <2> SUFFICES ASSUME TagInv, NEW r \in Issued
               PROVE  Covers(Parent(chain[r]).resource) \subseteq
                         {h \in Principal : TagAsked(r) \subseteq TagsOf[h]}
    BY DEF TagHonoured
  <2>1. r \in Req /\ Narrowed(r)
    BY DEF TagInv, Issued
  <2>2. TagAsked(r) \in OptionalTag
    BY <2>1, PolicyAssumption, BodyAssumption DEF TagInv, TagAsked, TokenParams
  <2>3. Covers(Parent(chain[r]).resource) \subseteq Principal
    BY DEF Covers
  <2>4. CASE TagAsked(r) = {}
    BY <2>4, <2>3
  <2>5. CASE TagAsked(r) # {} /\ Held.kind = "any"
    BY <2>5, <2>1 DEF Narrowed, WorkingResource, HostsTagged, Covers
  <2>6. CASE TagAsked(r) # {} /\ Held.kind = "tag"
    BY <2>6, <2>1 DEF Narrowed, WorkingResource, RefusesTag, Covers
  <2> QED
    BY <2>4, <2>5, <2>6
<1> QED
  BY <1>1, <1>2, <1>3, PTL DEF Spec
=============================================================================
