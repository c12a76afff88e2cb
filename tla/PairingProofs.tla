---------------------------- MODULE PairingProofs ----------------------------
(* What the owner of a device can rely on while the daemon lives, for every number *)
(* of attempts, devices and operators and for every timeout: a capability is       *)
(* handed out only for an attempt whose prompt the owner accepted, an attempt that  *)
(* was denied gets none, and pairing implements Consent.  Across restarts: the      *)
(* roots file and the types of the state.                                        *)
EXTENDS Pairing, TLAPS

USE DEF Handle, See, Look, RefreshPage, ListPending, Snapshot, Answers, AppendRoot

Approved(r) == <<r, TRUE>> \in said

(* The part of the state the argument needs the types of. *)
Types == /\ now \in Nat \ {0} /\ nextId \in Nat \ {0}
         /\ stage \in [Request -> Stages]
         /\ id \in [Request -> Nat]
         /\ capNonce \in [Request -> Nat]
         /\ mailbox \in [Request -> {"empty", "yes", "no"}]
         /\ pending \in SUBSET Entry
         /\ screen \in [Operator -> SUBSET (Nat \X Request)]
         /\ call \in [Operator -> Call \union {NoCall}]

(* An id stands for one attempt, once it is drawn. *)
IdsAreDrawn == /\ \A r \in Request : id[r] < nextId
               /\ \A r \in Request : stage[r] \in {"idle", "sent", "malformed"} => id[r] = 0
IdsDiffer == \A r, q \in Request : id[r] = id[q] /\ id[r] # 0 => r = q

(* Whatever carries an id, an entry, a prompt or a call, means that attempt by it. *)
EntriesMatch == \A e \in pending : e.id # 0 /\ e.id = id[e.req]
PromptsMatch == \A o \in Operator : \A p \in screen[o] : p[1] # 0 /\ p[1] = id[p[2]]
CallsMatch == \A o \in Operator : call[o] # NoCall =>
    /\ call[o].id # 0 /\ call[o].id = id[call[o].shown]
    /\ call[o].step = "taken" => call[o].holds = call[o].shown
    /\ call[o].accept => Approved(call[o].shown)

(* A yes travels from the owner through the channel to the handler. *)
YesIsApproved == \A r \in Request : /\ mailbox[r] = "yes" => Approved(r)
                                    /\ stage[r] = "accepted" => Approved(r)
                                    /\ capNonce[r] # 0 => Approved(r)

(* Nothing is minted before the decision. *)
MintedLast == \A r \in Request : capNonce[r] # 0 => stage[r] \in {"appending", "replied", "done"}

IInv == /\ Types /\ restarts = 0
        /\ IdsAreDrawn /\ IdsDiffer /\ EntriesMatch /\ PromptsMatch /\ CallsMatch
        /\ YesIsApproved /\ MintedLast

-----------------------------------------------------------------------------
(* The invariant holds at the start and survives every step but a restart. *)
LEMMA InitIInv == Init => IInv
<1> SUFFICES ASSUME Init PROVE IInv
  OBVIOUS
<1> USE PairingAssumption DEF Init
<1>1. Types /\ restarts = 0
  BY DEF Types, Stages
<1>2. IdsAreDrawn /\ IdsDiffer
  BY DEF IdsAreDrawn, IdsDiffer
<1>3. EntriesMatch /\ PromptsMatch /\ CallsMatch
  BY DEF EntriesMatch, PromptsMatch, CallsMatch
<1>4. YesIsApproved /\ MintedLast
  BY DEF YesIsApproved, MintedLast
<1> QED
  BY <1>1, <1>2, <1>3, <1>4 DEF IInv

LEMMA DeviceIInv == ASSUME IInv, NEW r \in Request, Device(r) PROVE IInv'
<1> USE DEF IInv, Types, Stages, IdsAreDrawn, IdsDiffer, EntriesMatch, PromptsMatch, CallsMatch,
            YesIsApproved, MintedLast, Approved, Reach, asker, parked, owner, minted
<1>1. CASE Ask(r)
  <2>1. PICK s \in {"sent", "malformed"} : stage' = [stage EXCEPT ![r] = s]
    BY <1>1 DEF Ask
  <2> QED
    BY <1>1, <2>1 DEF Ask
<1>2. CASE Receive(r)
  BY <1>2 DEF Receive
<1>3. CASE GiveUp(r)
  BY <1>3 DEF GiveUp
<1> QED
  BY <1>1, <1>2, <1>3 DEF Device

LEMMA HandlerIInv == ASSUME IInv, NEW r \in Request, Handler(r) PROVE IInv'
<1> USE DEF IInv, Types, Stages, IdsAreDrawn, IdsDiffer, EntriesMatch, PromptsMatch, CallsMatch,
            YesIsApproved, MintedLast, Approved, Reach, asker, parked, owner, minted
<1>1. CASE Park(r)
  <2> USE <1>1 DEF Park
  <2>1. Types' /\ restarts' = 0
    <3>1. pending' \in SUBSET Entry
      <4>1. [id |-> nextId, req |-> r, open |-> TRUE] \in Entry
        BY DEF Entry
      <4>2. pending \in SUBSET Entry
        OBVIOUS
      <4>3. pending' = pending \union {[id |-> nextId, req |-> r, open |-> TRUE]}
        OBVIOUS
      <4> HIDE DEF IInv, Park
      <4> QED
        BY ONLY <4>1, <4>2, <4>3
    <3>2. stage' \in [Request -> Stages] /\ id' \in [Request -> Nat] /\ nextId' \in Nat \ {0}
      OBVIOUS
    <3> QED
      BY <3>1, <3>2
  <2>2. IdsAreDrawn' /\ IdsDiffer'
    OBVIOUS
  <2>3. EntriesMatch'
    BY DEF Entry
  <2>4. \A q \in Request : id[q] # 0 => id'[q] = id[q]
    OBVIOUS
  <2>5. PromptsMatch'
    BY <2>4
  <2>6. CallsMatch'
    <3> SUFFICES ASSUME NEW o \in Operator, call[o] # NoCall PROVE call[o].id = id'[call[o].shown]
      OBVIOUS
    <3>1. call[o].shown \in Request
      BY DEF Call
    <3> QED
      BY <2>4, <3>1
  <2>7. YesIsApproved' /\ MintedLast'
    OBVIOUS
  <2> QED
    BY <2>1, <2>2, <2>3, <2>5, <2>6, <2>7
<1>2. CASE RefuseOnSight(r)
  BY <1>2 DEF RefuseOnSight
<1>3. CASE Wake(r)
  BY <1>3 DEF Wake
<1>4. CASE Elapse(r)
  BY <1>4 DEF Elapse
<1>5. CASE DropReceiver(r)
  BY <1>5 DEF DropReceiver
<1>6. CASE Deny(r)
  BY <1>6 DEF Deny, RemoveEntry
<1>7. CASE Mint(r)
  <2>1. PICK to \in {"appending", "replied"} : stage' = [stage EXCEPT ![r] = to]
    BY <1>7 DEF Mint
  <2> QED
    BY <1>7, <2>1 DEF Mint, RemoveEntry
<1>8. CASE EndAppend(r)
  BY <1>8 DEF EndAppend
<1> QED
  BY <1>1, <1>2, <1>3, <1>4, <1>5, <1>6, <1>7, <1>8 DEF Handler

(* What is known of a decision on its way. *)
LEMMA CallUnderWay ==
    ASSUME IInv, NEW o \in Operator, call[o].step \in {"called", "taken"}
    PROVE  /\ call[o] \in Call
           /\ call[o].id # 0 /\ call[o].id = id[call[o].shown]
           /\ call[o].step = "taken" => call[o].holds = call[o].shown
           /\ call[o].accept => Approved(call[o].shown)
<1>1. call[o] # NoCall
  BY DEF NoCall
<1>2. call[o] \in Call
  BY <1>1 DEF IInv, Types
<1> QED
  BY <1>1, <1>2 DEF IInv, CallsMatch

(* An operator's call is begun, advanced or ended. *)
LEMMA CallReplaced ==
    ASSUME IInv, NEW o \in Operator, NEW c \in Call \union {NoCall},
           call' = [call EXCEPT ![o] = c], id' = id, said \subseteq said',
           c # NoCall => /\ c.id # 0 /\ c.id = id[c.shown]
                         /\ c.step = "taken" => c.holds = c.shown
                         /\ c.accept => <<c.shown, TRUE>> \in said'
    PROVE  call' \in [Operator -> Call \union {NoCall}] /\ CallsMatch'
<1>1. call \in [Operator -> Call \union {NoCall}]
  BY DEF IInv, Types
<1>2. ASSUME NEW x \in Operator, call'[x] # NoCall
      PROVE  /\ call'[x].id # 0 /\ call'[x].id = id'[call'[x].shown]
             /\ call'[x].step = "taken" => call'[x].holds = call'[x].shown
             /\ call'[x].accept => <<call'[x].shown, TRUE>> \in said'
  <2>1. CASE x = o
    <3>1. call'[x] = c
      BY <1>1, <2>1
    <3> QED
      BY <1>2, <3>1
  <2>2. CASE x # o
    <3>1. call'[x] = call[x]
      BY <1>1, <2>2
    <3> QED
      BY <1>2, <3>1 DEF IInv, CallsMatch, Approved
  <2> QED
    BY <2>1, <2>2
<1>3. CallsMatch'
  BY <1>2 DEF CallsMatch, Approved
<1> QED
  BY <1>1, <1>3

(* The owner's side touches no attempt: what is left to show of its steps. *)
LEMMA OwnerFrame ==
    ASSUME IInv, UNCHANGED <<now, stage, id, nextId, capNonce, restarts>>, said \subseteq said',
           pending' \in SUBSET Entry, EntriesMatch',
           screen' \in [Operator -> SUBSET (Nat \X Request)], PromptsMatch',
           call' \in [Operator -> Call \union {NoCall}], CallsMatch',
           mailbox' \in [Request -> {"empty", "yes", "no"}],
           \A r \in Request : mailbox'[r] = "yes" => Approved(r)
    PROVE  IInv'
<1>1. Types'
  BY DEF IInv, Types
<1>2. IdsAreDrawn' /\ IdsDiffer'
  BY DEF IInv, IdsAreDrawn, IdsDiffer
<1>3. YesIsApproved' /\ MintedLast' /\ restarts' = 0
  BY DEF IInv, YesIsApproved, MintedLast, Approved
<1> QED
  BY <1>1, <1>2, <1>3 DEF IInv

LEMMA OwnerIInv ==
    ASSUME IInv, NEW o \in Operator, Look(o) \/ Decide(o) \/ Api(o) PROVE IInv'
<1>1. /\ pending \in SUBSET Entry /\ EntriesMatch
      /\ screen \in [Operator -> SUBSET (Nat \X Request)] /\ PromptsMatch
      /\ call \in [Operator -> Call \union {NoCall}] /\ CallsMatch
      /\ mailbox \in [Request -> {"empty", "yes", "no"}]
      /\ \A r \in Request : mailbox[r] = "yes" => Approved(r)
  BY DEF IInv, Types, YesIsApproved
<1>2. CASE Look(o)
  <2>1. /\ UNCHANGED <<now, stage, id, nextId, pending, capNonce, restarts, said, call, mailbox>>
        /\ screen' = [screen EXCEPT ![o] = {<<e.id, e.req>> : e \in {f \in pending : f.open}}]
    BY <1>2 DEF Look, parked, minted
  <2>2. ASSUME NEW e \in pending
        PROVE  <<e.id, e.req>> \in Nat \X Request /\ e.id # 0 /\ e.id = id[e.req]
    BY <1>1 DEF Entry, EntriesMatch
  <2>3. screen' \in [Operator -> SUBSET (Nat \X Request)]
    BY <1>1, <2>1, <2>2
  <2>4. PromptsMatch'
    <3> SUFFICES ASSUME NEW x \in Operator, NEW p \in screen'[x]
                 PROVE  p[1] # 0 /\ p[1] = id[p[2]]
      BY <2>1 DEF PromptsMatch
    <3>1. CASE x = o
      BY <1>1, <2>1, <2>2, <3>1
    <3>2. CASE x # o
      BY <1>1, <2>1, <3>2 DEF PromptsMatch
    <3> QED
      BY <3>1, <3>2
  <2>5. EntriesMatch' /\ CallsMatch'
    BY <1>1, <2>1 DEF EntriesMatch, CallsMatch, Approved
  <2> QED
    BY <1>1, <2>1, <2>3, <2>4, <2>5, OwnerFrame
<1>3. CASE Decide(o)
  <2>1. PICK p \in screen[o], accept \in BOOLEAN :
          /\ call' = [call EXCEPT ![o] = [step |-> "called", id |-> p[1], shown |-> p[2],
                                          accept |-> accept, holds |-> p[2]]]
          /\ said' = said \union {<<p[2], accept>>}
          /\ UNCHANGED <<now, stage, id, nextId, pending, capNonce, restarts, screen, mailbox>>
    BY <1>3 DEF Decide, parked, minted
  <2>2. p \in Nat \X Request /\ p[1] # 0 /\ p[1] = id[p[2]]
    BY <1>1 DEF PromptsMatch
  <2> DEFINE c == [step |-> "called", id |-> p[1], shown |-> p[2], accept |-> accept, holds |-> p[2]]
  <2>3. /\ c \in Call /\ c.id = p[1] /\ c.shown = p[2] /\ c.holds = p[2]
        /\ c.accept => <<p[2], TRUE>> \in said'
    <3>1. p[1] \in Nat /\ p[2] \in Request
      BY <2>2
    <3>2. c \in Call
      BY <3>1 DEF Call
    <3> QED
      BY <2>1, <3>2
  <2>4. call' \in [Operator -> Call \union {NoCall}] /\ CallsMatch'
    <3>1. call' = [call EXCEPT ![o] = c]
      BY <2>1
    <3> HIDE DEF c
    <3>2. id' = id /\ said \subseteq said'
      BY <2>1
    <3>3. /\ c.id # 0 /\ c.id = id[c.shown] /\ c.holds = c.shown
          /\ c.accept => <<c.shown, TRUE>> \in said'
      BY <2>2, <2>3
    <3> QED
      BY <2>3, <3>1, <3>2, <3>3, CallReplaced
  <2>5. EntriesMatch' /\ PromptsMatch'
    BY <1>1, <2>1 DEF EntriesMatch, PromptsMatch
  <2> QED
    BY <1>1, <2>1, <2>4, <2>5, OwnerFrame
<1>4. CASE Take(o)
  <2>1. PICK e \in pending :
          /\ e.id = call[o].id
          /\ pending' = (pending \ {e}) \union {[e EXCEPT !.open = FALSE]}
          /\ call' = [call EXCEPT ![o].step = "taken", ![o].holds = e.req]
    BY <1>4 DEF Take
  <2>2. UNCHANGED <<now, stage, id, nextId, capNonce, restarts, screen, said, mailbox>>
    BY <1>4 DEF Take, minted, owner
  <2>3. /\ call[o] \in Call /\ call[o].id # 0 /\ call[o].id = id[call[o].shown]
        /\ call[o].accept => Approved(call[o].shown)
    BY <1>4, CallUnderWay DEF Take
  <2>4. e \in Entry /\ e.id # 0 /\ e.id = id[e.req]
    BY <1>1 DEF EntriesMatch
  <2>5. e.req = call[o].shown
    <3>1. e.req \in Request /\ call[o].shown \in Request
      BY <2>3, <2>4 DEF Call, Entry
    <3> QED
      BY <2>1, <2>3, <2>4, <3>1 DEF IInv, IdsDiffer
  <2> DEFINE c == [call[o] EXCEPT !.step = "taken", !.holds = e.req]
  <2>6. /\ c \in Call /\ c.id = call[o].id /\ c.shown = call[o].shown
        /\ c.accept = call[o].accept /\ c.holds = e.req
    BY <2>3, <2>4 DEF Call, Entry
  <2>7. call' = [call EXCEPT ![o] = c]
    BY <1>1, <2>1
  <2>8. call' \in [Operator -> Call \union {NoCall}] /\ CallsMatch'
    <3> HIDE DEF c
    <3> QED
      BY <2>2, <2>3, <2>5, <2>6, <2>7, CallReplaced DEF Approved
  <2>9. pending' \in SUBSET Entry /\ EntriesMatch'
    <3> DEFINE f == [e EXCEPT !.open = FALSE]
    <3>1. f \in Entry /\ f.id = e.id /\ f.req = e.req
      BY <2>4 DEF Entry
    <3>2. \A x \in pending' : x \in pending \/ x = f
      BY <2>1
    <3> HIDE DEF f
    <3> QED
      BY <1>1, <2>2, <2>4, <3>1, <3>2 DEF EntriesMatch
  <2>10. PromptsMatch'
    BY <1>1, <2>2 DEF PromptsMatch
  <2> QED
    BY <1>1, <2>2, <2>8, <2>9, <2>10, OwnerFrame
<1>5. ASSUME call' = [call EXCEPT ![o] = NoCall],
             UNCHANGED <<now, stage, id, nextId, pending, capNonce, restarts, screen, said>>,
             mailbox' \in [Request -> {"empty", "yes", "no"}],
             \A r \in Request : mailbox'[r] = "yes" => Approved(r)
      PROVE  IInv'
  <2>1. call' \in [Operator -> Call \union {NoCall}] /\ CallsMatch'
    BY <1>5, CallReplaced
  <2>2. EntriesMatch' /\ PromptsMatch'
    BY <1>1, <1>5 DEF EntriesMatch, PromptsMatch
  <2> QED
    BY <1>1, <1>5, <2>1, <2>2, OwnerFrame
<1>6. CASE NothingToTake(o)
  BY <1>1, <1>5, <1>6 DEF NothingToTake, parked, owner, minted
<1>7. CASE SendDecision(o)
  <2> DEFINE h == call[o].holds
  <2>1. h \in Request /\ (call[o].accept => Approved(h))
    BY <1>7, CallUnderWay DEF SendDecision, Call
  <2>2. mailbox' \in {mailbox, [mailbox EXCEPT ![h] = IF call[o].accept THEN "yes" ELSE "no"]}
    BY <1>7 DEF SendDecision
  <2>3. /\ mailbox' \in [Request -> {"empty", "yes", "no"}]
        /\ \A r \in Request : mailbox'[r] = "yes" => Approved(r)
    BY <1>1, <2>1, <2>2
  <2>4. /\ call' = [call EXCEPT ![o] = NoCall]
        /\ UNCHANGED <<now, stage, id, nextId, pending, capNonce, restarts, screen, said>>
    BY <1>7 DEF SendDecision, parked, owner, minted
  <2> QED
    BY <1>5, <2>3, <2>4
<1> QED
  BY <1>2, <1>3, <1>4, <1>6, <1>7 DEF Api

LEMMA StepIInv == ASSUME MaxRestarts = 0, IInv, [Next]_vars PROVE IInv'
<1>1. CASE \E r \in Request : Device(r) \/ Handler(r)
  BY <1>1, DeviceIInv, HandlerIInv
<1>2. CASE \E o \in Operator : Look(o) \/ Decide(o) \/ Api(o)
  BY <1>2, OwnerIInv
<1>3. CASE Restart
  BY <1>3 DEF Restart, IInv
<1>4. CASE Tick \/ UNCHANGED vars
  <2>1. UNCHANGED <<stage, id, nextId, pending, mailbox, screen, call, capNonce, restarts, said>>
    BY <1>4 DEF Tick, vars, asker, parked, owner, minted
  <2>2. now' \in Nat \ {0}
    BY <1>4 DEF Tick, vars, IInv, Types
  <2>3. Types'
    BY <2>1, <2>2 DEF IInv, Types
  <2>4. (IdsAreDrawn /\ IdsDiffer /\ EntriesMatch)'
    BY <2>1 DEF IInv, IdsAreDrawn, IdsDiffer, EntriesMatch
  <2>5. (PromptsMatch /\ CallsMatch)'
    BY <2>1 DEF IInv, PromptsMatch, CallsMatch, Approved
  <2>6. (YesIsApproved /\ MintedLast)' /\ restarts' = 0
    BY <2>1 DEF IInv, YesIsApproved, MintedLast, Approved
  <2> QED
    BY <2>3, <2>4, <2>5, <2>6 DEF IInv
<1> QED
  BY <1>1, <1>2, <1>3, <1>4 DEF Next

LEMMA AlwaysIInv == ASSUME MaxRestarts = 0 PROVE Spec => []IInv
<1> QED
  BY InitIInv, StepIInv, PTL DEF Spec

(* While the daemon lives, a capability is handed out only for an attempt whose     *)
(* prompt the owner accepted (handle_inner, decide and mint of daemon.rs).         *)
THEOREM OnlyApprovedGranted == ASSUME MaxRestarts = 0 PROVE Spec => []GrantedWasApproved
<1>1. IInv => GrantedWasApproved
  BY DEF IInv, YesIsApproved, GrantedWasApproved, Approved
<1> QED
  BY <1>1, AlwaysIInv, PTL

-----------------------------------------------------------------------------
(* A decision is taken once: from the entry, through a call, into the channel. *)
Untouched(r) == \A e \in pending : e.req = r => ~e.open

EntriesDiffer == \A e, f \in pending : e.id = f.id => e = f
HoldsAlone(o) ==
    /\ mailbox[call[o].holds] = "empty" /\ Untouched(call[o].holds)
    /\ \A x \in Operator : call[x].step = "taken" /\ call[x].holds = call[o].holds => x = o
TakenOnce == \A o \in Operator : call[o].step = "taken" => HoldsAlone(o)
SentOnce == \A r \in Request : mailbox[r] # "empty" => id[r] # 0 /\ Untouched(r)
ToldIsSent == \A r \in Request : /\ <<r, TRUE>> \in told => mailbox[r] = "yes"
                                 /\ <<r, FALSE>> \in told => mailbox[r] = "no"
YesIsSent == \A r \in Request : stage[r] = "accepted" \/ capNonce[r] # 0 => mailbox[r] = "yes"

Once == EntriesDiffer /\ TakenOnce /\ SentOnce /\ ToldIsSent /\ YesIsSent

LEMMA DeviceOnce == ASSUME IInv, Once, NEW r \in Request, Device(r) PROVE Once'
<1>1. /\ UNCHANGED <<id, pending, mailbox, call, capNonce, told>>
      /\ \A q \in Request : stage'[q] = "accepted" => stage[q] = "accepted"
  <2>1. CASE Ask(r)
    BY <2>1 DEF Ask, Reach, parked, minted, IInv, Types
  <2>2. CASE Receive(r)
    BY <2>2 DEF Receive, Reach, parked, minted, IInv, Types
  <2>3. CASE GiveUp(r)
    BY <2>3 DEF GiveUp, parked, minted
  <2> QED
    BY <2>1, <2>2, <2>3 DEF Device
<1> QED
  BY <1>1 DEF Once, EntriesDiffer, TakenOnce, HoldsAlone, SentOnce, ToldIsSent, YesIsSent, Untouched

LEMMA HandlerOnce == ASSUME IInv, Once, NEW r \in Request, Handler(r) PROVE Once'
<1> USE DEF Once, EntriesDiffer, TakenOnce, HoldsAlone, SentOnce, ToldIsSent, YesIsSent, Untouched, Reach
<1>1. CASE Park(r)
  <2> DEFINE new == [id |-> nextId, req |-> r, open |-> TRUE]
  <2>1. /\ stage[r] = "sent" /\ pending' = pending \union {new}
        /\ stage' = [stage EXCEPT ![r] = "parked"] /\ id' = [id EXCEPT ![r] = nextId]
        /\ UNCHANGED <<mailbox, call, capNonce, told>>
    BY <1>1 DEF Park, minted
  <2>2. id[r] = 0 /\ nextId \in Nat \ {0} /\ mailbox[r] = "empty"
    BY <2>1 DEF IInv, Types, IdsAreDrawn
  <2>3. \A e \in pending : e.id # nextId
    BY DEF IInv, Types, EntriesMatch, IdsAreDrawn, Entry
  <2>4. EntriesDiffer'
    <3>1. new.id = nextId
      OBVIOUS
    <3> HIDE DEF new
    <3> QED
      BY <2>1, <2>3, <3>1
  <2>5. \A o \in Operator : call[o].step = "taken" => call[o].holds # r
    BY <2>2, CallUnderWay
  <2>6. \A q \in Request : q # r /\ Untouched(q) => Untouched(q)'
    BY <2>1
  <2>7. \A o \in Operator : call[o].step = "taken" => call[o].holds \in Request
    BY CallUnderWay DEF Call
  <2>8. TakenOnce'
    BY <2>1, <2>5, <2>6, <2>7
  <2>9. \A q \in Request : q # r => id'[q] = id[q]
    BY <2>1 DEF IInv, Types
  <2>10. SentOnce'
    BY <2>1, <2>2, <2>6, <2>9
  <2>11. ToldIsSent' /\ YesIsSent'
    BY <2>1 DEF IInv, Types
  <2> QED
    BY <2>4, <2>8, <2>10, <2>11
<1>2. CASE Wake(r)
  <2>1. /\ UNCHANGED <<id, pending, mailbox, call, capNonce, told>>
        /\ \A q \in Request : stage'[q] = "accepted" => stage[q] = "accepted" \/ mailbox[q] = "yes"
    BY <1>2 DEF Wake, parked, minted, IInv, Types
  <2> QED
    BY <2>1
<1>3. CASE RefuseOnSight(r) \/ Elapse(r) \/ DropReceiver(r) \/ EndAppend(r)
  <2>1. /\ UNCHANGED <<id, pending, mailbox, call, capNonce, told>>
        /\ \A q \in Request : stage'[q] = "accepted" => stage[q] = "accepted"
    BY <1>3 DEF RefuseOnSight, Elapse, DropReceiver, EndAppend, parked, minted, IInv, Types
  <2> QED
    BY <2>1
<1>4. CASE Deny(r) \/ Mint(r)
  <2>1. /\ UNCHANGED <<id, mailbox, call, told>> /\ pending' \subseteq pending
        /\ \A q \in Request : stage'[q] = "accepted" => stage[q] = "accepted"
        /\ \A q \in Request : capNonce'[q] # 0 => capNonce[q] # 0 \/ stage[q] = "accepted"
    BY <1>4 DEF Deny, Mint, RemoveEntry, minted, IInv, Types
  <2> QED
    BY <2>1
<1> QED
  BY <1>1, <1>2, <1>3, <1>4 DEF Handler

LEMMA CallNotTaken ==
    ASSUME Once, NEW o \in Operator, UNCHANGED <<id, pending, mailbox, stage, capNonce, told>>,
           call'[o].step # "taken", \A x \in Operator : x # o => call'[x] = call[x]
    PROVE  Once'
<1>1. \A r : Untouched(r)' <=> Untouched(r)
  BY DEF Untouched
<1>2. TakenOnce'
  BY <1>1 DEF Once, TakenOnce, HoldsAlone
<1>3. (EntriesDiffer /\ SentOnce /\ ToldIsSent /\ YesIsSent)'
  BY <1>1 DEF Once, EntriesDiffer, SentOnce, ToldIsSent, YesIsSent
<1> QED
  BY <1>2, <1>3 DEF Once

LEMMA OwnerOnce ==
    ASSUME IInv, Once, NEW o \in Operator, Look(o) \/ Decide(o) \/ Api(o) PROVE Once'
<1> USE DEF Once, EntriesDiffer, TakenOnce, HoldsAlone, SentOnce, ToldIsSent, YesIsSent, Untouched
<1>1. call \in [Operator -> Call \union {NoCall}] /\ mailbox \in [Request -> {"empty", "yes", "no"}]
  BY DEF IInv, Types
<1>2. CASE Look(o)
  <2>1. UNCHANGED <<id, pending, mailbox, call, stage, capNonce, told>>
    BY <1>2 DEF parked, minted
  <2> QED
    BY <2>1
<1>3. CASE Decide(o)
  <2>1. /\ UNCHANGED <<id, pending, mailbox, stage, capNonce, told>> /\ call'[o].step = "called"
        /\ \A x \in Operator : x # o => call'[x] = call[x]
    BY <1>1, <1>3 DEF Decide, parked, minted
  <2> QED
    BY <2>1, CallNotTaken
<1>4. CASE Take(o)
  <2>1. PICK e \in pending :
          /\ e.id = call[o].id /\ e.open
          /\ pending' = (pending \ {e}) \union {[e EXCEPT !.open = FALSE]}
          /\ call' = [call EXCEPT ![o].step = "taken", ![o].holds = e.req]
    BY <1>4 DEF Take
  <2>2. UNCHANGED <<id, mailbox, stage, capNonce, told>>
    BY <1>4 DEF Take, minted
  <2> DEFINE f == [e EXCEPT !.open = FALSE]
  <2>3. e \in Entry /\ f.id = e.id /\ f.req = e.req /\ ~f.open
    BY DEF IInv, Types, Entry
  <2>4. /\ call[o] \in Call /\ call[o].id = id[call[o].shown] /\ call[o].id # 0
    BY <1>4, CallUnderWay DEF Take
  <2>5. call'[o].step = "taken" /\ call'[o].holds = e.req
        /\ \A x \in Operator : x # o => call'[x] = call[x]
    BY <1>1, <2>1, <2>4 DEF Call
  <2>6. \A g \in pending' : g = f \/ (g \in pending /\ g # e)
    BY <2>1
  <2> HIDE DEF f
  <2>7. EntriesDiffer'
    BY <2>3, <2>6
  <2>8. \A g \in pending : g.req = e.req => g = e
    BY DEF IInv, EntriesMatch
  <2>9. Untouched(e.req)'
    BY <2>3, <2>6, <2>8
  <2>10. \A q \in Request : Untouched(q) => Untouched(q)'
    BY <2>3, <2>6
  <2>11. e.req \in Request /\ mailbox[e.req] = "empty"
    BY <2>1, <2>3 DEF Entry
  <2>12. \A x \in Operator : call[x].step = "taken" => call[x].holds # e.req
    BY <2>1
  <2>13. \A x \in Operator : call[x].step = "taken" => call[x].holds \in Request
    BY CallUnderWay DEF Call
  <2>14. TakenOnce'
    <3> HIDE DEF Once, TakenOnce, EntriesDiffer, SentOnce, ToldIsSent, YesIsSent, Untouched, HoldsAlone
    <3>1. HoldsAlone(o)'
      BY <2>2, <2>5, <2>9, <2>11, <2>12 DEF HoldsAlone
    <3>2. ASSUME NEW x \in Operator, x # o, call'[x].step = "taken" PROVE HoldsAlone(x)'
      <4>1. call'[x] = call[x] /\ HoldsAlone(x) /\ call[x].holds # e.req
        BY <2>5, <2>12, <3>2 DEF Once, TakenOnce
      <4>2. Untouched(call[x].holds)'
        BY <2>10, <2>13, <3>2, <4>1 DEF HoldsAlone
      <4> QED
        BY <2>2, <2>5, <4>1, <4>2 DEF HoldsAlone
    <3> QED
      BY <3>1, <3>2 DEF TakenOnce
  <2>15. SentOnce' /\ ToldIsSent' /\ YesIsSent'
    BY <2>2, <2>10
  <2> QED
    BY <2>7, <2>14, <2>15
<1>5. CASE NothingToTake(o)
  <2>1. /\ UNCHANGED <<id, pending, mailbox, stage, capNonce, told>> /\ call'[o] = NoCall
        /\ \A x \in Operator : x # o => call'[x] = call[x]
    BY <1>1, <1>5 DEF NothingToTake, parked, minted
  <2> QED
    <3>1. call'[o].step # "taken"
      BY <2>1 DEF NoCall
    <3> QED
      BY <2>1, <3>1, CallNotTaken
<1>6. CASE SendDecision(o)
  <2> DEFINE h == call[o].holds
             v == IF call[o].accept THEN "yes" ELSE "no"
  <2>1. /\ h \in Request /\ call[o].shown = h /\ id[h] # 0 /\ call[o].accept \in BOOLEAN
        /\ call[o].step = "taken"
    BY <1>6, CallUnderWay DEF SendDecision, Call
  <2>2. mailbox[h] = "empty" /\ Untouched(h)
    BY <2>1
  <2>3. /\ UNCHANGED <<id, pending, stage, capNonce>> /\ call'[o] = NoCall
        /\ \A x \in Operator : x # o => call'[x] = call[x]
    BY <1>1, <1>6 DEF SendDecision, parked, minted
  <2>4. \/ UNCHANGED <<mailbox, told>>
        \/ mailbox' = [mailbox EXCEPT ![h] = v] /\ told' = told \union {<<h, call[o].accept>>}
    BY <1>6, <2>1 DEF SendDecision
  <2> HIDE DEF h, v
  <2>5. \A q \in Request : q # h => mailbox'[q] = mailbox[q]
    BY <1>1, <2>4
  <2>6. \A x \in Operator : call[x].step = "taken" => call[x].holds \in Request
    BY CallUnderWay DEF Call
  <2>7. \A x \in Operator : x # o /\ call[x].step = "taken" => call[x].holds # h
    BY <2>1 DEF h
  <2>8. TakenOnce'
    BY <2>3, <2>5, <2>6, <2>7 DEF NoCall
  <2>9. SentOnce'
    BY <2>1, <2>2, <2>3, <2>5
  <2>10. YesIsSent'
    BY <2>2, <2>3, <2>5
  <2>11. ToldIsSent'
    <3>1. CASE UNCHANGED <<mailbox, told>>
      BY <3>1
    <3>2. CASE mailbox' = [mailbox EXCEPT ![h] = v] /\ told' = told \union {<<h, call[o].accept>>}
      <4>1. mailbox'[h] = v
        BY <1>1, <2>1, <3>2
      <4>2. <<h, TRUE>> \notin told /\ <<h, FALSE>> \notin told
        BY <2>1, <2>2
      <4>3. CASE call[o].accept = TRUE
        BY <2>5, <3>2, <4>1, <4>2, <4>3 DEF v
      <4>4. CASE call[o].accept = FALSE
        BY <2>5, <3>2, <4>1, <4>2, <4>4 DEF v
      <4> QED
        BY <2>1, <4>3, <4>4
    <3> QED
      BY <2>4, <3>1, <3>2
  <2> QED
    BY <2>3, <2>8, <2>9, <2>10, <2>11
<1> QED
  BY <1>2, <1>3, <1>4, <1>5, <1>6 DEF Api

LEMMA StepOnce == ASSUME MaxRestarts = 0, IInv, Once, [Next]_vars PROVE Once'
<1>1. CASE \E r \in Request : Device(r) \/ Handler(r)
  BY <1>1, DeviceOnce, HandlerOnce
<1>2. CASE \E o \in Operator : Look(o) \/ Decide(o) \/ Api(o)
  BY <1>2, OwnerOnce
<1>3. CASE Restart
  BY <1>3 DEF Restart, IInv
<1>4. CASE Tick \/ UNCHANGED vars
  <2>1. UNCHANGED <<stage, id, pending, mailbox, call, capNonce, told>>
    BY <1>4 DEF Tick, vars, parked, minted
  <2> QED
    BY <2>1 DEF Once, EntriesDiffer, TakenOnce, HoldsAlone, SentOnce, ToldIsSent, YesIsSent, Untouched
<1> QED
  BY <1>1, <1>2, <1>3, <1>4 DEF Next

(* While the daemon lives, an owner who answers one prompt from several pages and     *)
(* terminals gets one of the answers: what was denied is never granted.            *)
THEOREM DeniedIsNeverGranted == ASSUME MaxRestarts = 0 PROVE Spec => []DenyIsFinal
<1>1. Init => Once
  BY DEF Init, Once, EntriesDiffer, TakenOnce, SentOnce, ToldIsSent, YesIsSent, NoCall
<1>2. Once => DenyIsFinal
  BY DEF Once, ToldIsSent, YesIsSent, DenyIsFinal
<1> QED
  BY <1>1, <1>2, AlwaysIInv, StepOnce, PTL DEF Spec

-----------------------------------------------------------------------------
(* Pairing implements Consent: the abstract state and, for each step, the abstract  *)
(* step it is.                                                                   *)
Granted == {r \in Request : capNonce[r] # 0}
Verdict == [r \in Request |->
    IF capNonce[r] # 0 \/ stage[r] = "accepted" THEN "yes"
    ELSE IF stage[r] \in {"idle", "sent", "malformed", "parked"} THEN "open" ELSE "no"]

LEMMA DeviceStutters ==
    ASSUME IInv, NEW r \in Request, Device(r)
    PROVE  UNCHANGED <<said, Verdict, Granted>>
<1> USE DEF Verdict, Granted, Reach, asker, parked, owner, minted, IInv, Types, MintedLast
<1>1. CASE Ask(r)
  BY <1>1 DEF Ask
<1>2. CASE Receive(r)
  BY <1>2 DEF Receive
<1>3. CASE GiveUp(r)
  BY <1>3 DEF GiveUp
<1> QED
  BY <1>1, <1>2, <1>3 DEF Device

LEMMA HandlerImplements ==
    ASSUME IInv, NEW r \in Request, Handler(r)
    PROVE  \/ UNCHANGED <<said, Verdict, Granted>>
           \/ Promise!Grant(r)
           \/ \E v \in {"yes", "no"} : Promise!Settle(r, v)
<1> USE DEF Reach, asker, parked, owner, minted, IInv, Types, MintedLast
<1>1. CASE Park(r) \/ DropReceiver(r) \/ Deny(r) \/ EndAppend(r)
  BY <1>1 DEF Park, DropReceiver, Deny, EndAppend, Verdict, Granted
<1>2. CASE RefuseOnSight(r)
  <2>1. Promise!Settle(r, "no")
    BY <1>2 DEF RefuseOnSight, Promise!Settle
  <2> QED
    BY <2>1
<1>3. CASE Wake(r)
  <2>1. CASE mailbox[r] = "yes"
    <3>1. Promise!Settle(r, "yes")
      BY <1>3, <2>1 DEF Wake, Promise!Settle, YesIsApproved, Approved
    <3> QED
      BY <3>1
  <2>2. CASE mailbox[r] # "yes"
    <3>1. Promise!Settle(r, "no")
      BY <1>3, <2>2 DEF Wake, Promise!Settle
    <3> QED
      BY <3>1
  <2> QED
    BY <2>1, <2>2
<1>4. CASE Elapse(r)
  <2>1. Promise!Settle(r, "no")
    BY <1>4 DEF Elapse, Promise!Settle
  <2> QED
    BY <2>1
<1>5. CASE Mint(r)
  <2>1. Promise!Grant(r)
    BY <1>5 DEF Mint, Promise!Grant
  <2> QED
    BY <2>1
<1> QED
  BY <1>1, <1>2, <1>3, <1>4, <1>5 DEF Handler

LEMMA OwnerImplements ==
    ASSUME IInv, NEW o \in Operator, Look(o) \/ Decide(o) \/ Api(o)
    PROVE  \/ UNCHANGED <<said, Verdict, Granted>>
           \/ \E r \in Request, accept \in BOOLEAN : Promise!Answer(r, accept)
<1>1. CASE Decide(o)
  <2>1. PICK p \in screen[o], accept \in BOOLEAN : said' = said \union {<<p[2], accept>>}
    BY <1>1 DEF Decide
  <2>2. p[2] \in Request
    BY DEF IInv, Types
  <2>3. Promise!Answer(p[2], accept)
    BY <1>1, <2>1 DEF Decide, Promise!Answer, minted
  <2> QED
    BY <2>2, <2>3
<1>2. CASE Look(o) \/ Api(o)
  BY <1>2 DEF Look, Api, Take, NothingToTake, SendDecision, Verdict, Granted, minted, owner
<1> QED
  BY <1>1, <1>2

(* What pairing promises the owner, as one specification: while the daemon lives,    *)
(* every attempt is settled once and granted at most once, after the owner's yes.   *)
THEOREM PairingKeepsConsent == ASSUME MaxRestarts = 0 PROVE Spec => KeepsConsent
<1>1. Init => Promise!Init
  BY DEF Init, Promise!Init
<1>2. ASSUME IInv, [Next]_vars PROVE [Promise!Next]_(Promise!vars)
  <2>1. CASE \E r \in Request : Device(r) \/ Handler(r)
    BY <2>1, <1>2, DeviceStutters, HandlerImplements
       DEF Promise!Next, Promise!vars, Verdict, Granted
  <2>2. CASE \E o \in Operator : Look(o) \/ Decide(o) \/ Api(o)
    BY <2>2, <1>2, OwnerImplements DEF Promise!Next, Promise!vars, Verdict, Granted
  <2>3. CASE Restart
    BY <2>3, <1>2 DEF Restart, IInv
  <2>4. CASE Tick \/ UNCHANGED vars
    BY <2>4 DEF Tick, vars, Promise!vars, owner, minted
  <2> QED
    BY <1>2, <2>1, <2>2, <2>3, <2>4 DEF Next
<1> QED
  BY <1>1, <1>2, AlwaysIInv, PTL DEF Spec, KeepsConsent, Promise!Spec
-----------------------------------------------------------------------------
(* How long an attempt has been under way, stage by stage. *)
Clocks == /\ now \in Nat /\ restarts = 0
          /\ since \in [Request -> Nat] /\ sentAt \in [Request -> Nat]
          /\ stage \in [Request -> Stages \ {"lost"}]
          /\ outcome \in [Request -> {"none", "waiting", "accepted", "denied"}]
OnTime(r) ==
    /\ stage[r] = "idle" => outcome[r] = "none"
    /\ stage[r] \in {"sent", "malformed"} => since[r] = sentAt[r] /\ now <= since[r] + MaxDelay
    /\ stage[r] = "parked" => since[r] <= sentAt[r] + MaxDelay /\ now <= since[r] + DecisionTimeout
    /\ stage[r] \in {"elapsed", "denied", "accepted", "appending"} =>
          now <= sentAt[r] + MaxDelay + DecisionTimeout
    /\ stage[r] = "replied" => since[r] <= sentAt[r] + MaxDelay + DecisionTimeout
    /\ stage[r] = "replied" /\ outcome[r] = "waiting" => now <= since[r] + MaxDelay
    /\ stage[r] = "done" => outcome[r] # "waiting"
Timely == Clocks /\ \A r \in Request : OnTime(r)

RepliesInTime == DecisionTimeout + 2 * MaxDelay < RequestTimeout

(* An attempt that moves on leaves the others where they are. *)
LEMMA OneMoves ==
    ASSUME Timely, NEW r \in Request, UNCHANGED <<now, restarts>>, Clocks', OnTime(r)',
           \A q \in Request : q # r => /\ stage'[q] = stage[q] /\ since'[q] = since[q]
                                      /\ sentAt'[q] = sentAt[q] /\ outcome'[q] = outcome[q]
    PROVE  Timely'
BY DEF Timely, OnTime

LEMMA DeviceTimely ==
    ASSUME RepliesInTime, Timely, NEW r \in Request, Device(r) PROVE Timely'
<1> USE DEF Reach
<1>1. CASE Ask(r)
  <2>1. /\ stage[r] = "idle" /\ \E s \in {"sent", "malformed"} : stage' = [stage EXCEPT ![r] = s]
        /\ since' = [since EXCEPT ![r] = now] /\ sentAt' = [sentAt EXCEPT ![r] = now]
        /\ outcome' = [outcome EXCEPT ![r] = "waiting"] /\ UNCHANGED <<now, restarts>>
    BY <1>1 DEF Ask
  <2>2. Clocks' /\ OnTime(r)'
    BY <2>1, PairingAssumption DEF Timely, Clocks, OnTime, Stages
  <2> QED
    BY <2>1, <2>2, OneMoves DEF Timely, Clocks
<1>2. CASE Receive(r)
  <2>1. /\ stage[r] = "replied" /\ stage' = [stage EXCEPT ![r] = "done"]
        /\ since' = [since EXCEPT ![r] = now]
        /\ \E x \in {"accepted", "denied"} : outcome' = [outcome EXCEPT ![r] = x]
        /\ UNCHANGED <<now, restarts, sentAt>>
    BY <1>2 DEF Receive
  <2>2. Clocks' /\ OnTime(r)'
    BY <2>1 DEF Timely, Clocks, OnTime, Stages
  <2> QED
    BY <2>1, <2>2, OneMoves DEF Timely, Clocks
<1>3. CASE GiveUp(r)
  <2>1. outcome[r] = "waiting" /\ now >= sentAt[r] + RequestTimeout
    BY <1>3 DEF GiveUp
  <2>2. stage[r] \in Stages \ {"idle", "done", "lost"}
    BY <2>1 DEF Timely, Clocks, OnTime
  <2>3. now <= sentAt[r] + 2 * MaxDelay + DecisionTimeout
    BY <2>1, <2>2, PairingAssumption DEF Timely, Clocks, OnTime, Stages
  <2> QED
    BY <2>1, <2>3, PairingAssumption DEF RepliesInTime, Timely, Clocks
<1> QED
  BY <1>1, <1>2, <1>3 DEF Device

LEMMA HandlerTimely == ASSUME Timely, NEW r \in Request, Handler(r) PROVE Timely'
<1>1. \E to \in {"parked", "replied", "accepted", "denied", "elapsed", "appending"} :
        /\ stage' = [stage EXCEPT ![r] = to] /\ since' = [since EXCEPT ![r] = now]
        /\ UNCHANGED <<now, restarts, sentAt, outcome>>
        /\ to = "parked" => stage[r] = "sent"
        /\ to \in {"accepted", "denied", "elapsed"} => stage[r] \in {"parked", "elapsed"}
        /\ to = "appending" => stage[r] = "accepted"
        /\ to = "replied" => stage[r] \in {"malformed", "denied", "accepted", "appending"}
  <2> USE DEF Reach, asker
  <2>1. CASE Park(r)
    BY <2>1 DEF Park
  <2>2. CASE RefuseOnSight(r) \/ Wake(r) \/ Elapse(r) \/ DropReceiver(r)
    BY <2>2 DEF RefuseOnSight, Wake, Elapse, DropReceiver
  <2>3. CASE Deny(r) \/ Mint(r) \/ EndAppend(r)
    BY <2>3 DEF Deny, Mint, EndAppend
  <2> QED
    BY <2>1, <2>2, <2>3 DEF Handler
<1>2. Clocks'
  BY <1>1 DEF Timely, Clocks, Stages
<1>3. OnTime(r)'
  BY <1>1, PairingAssumption DEF Timely, Clocks, OnTime
<1> QED
  BY <1>1, <1>2, <1>3, OneMoves DEF Timely, Clocks

LEMMA TickTimely == ASSUME Timely, Tick PROVE Timely'
<1>1. now' = now + 1 /\ UNCHANGED <<stage, since, sentAt, outcome, restarts>>
  BY DEF Tick, asker
<1>2. Clocks'
  BY <1>1 DEF Timely, Clocks
<1>3. ASSUME NEW r \in Request PROVE OnTime(r)'
  <2>1. ~Overdue(r)
    BY DEF Tick
  <2> QED
    BY <1>1, <2>1, PairingAssumption DEF Timely, Clocks, OnTime, Overdue, DecisionDue
<1> QED
  BY <1>2, <1>3 DEF Timely

(* As long as the daemon lives and the mesh delivers both ways within what the two   *)
(* timeouts leave, the device that asks hears the answer and never just gives up     *)
(* (DECISION_TIMEOUT of daemon.rs is below REQUEST_TIMEOUT_MS of pair.rs for that).  *)
THEOREM DeviceHearsTheAnswer ==
    ASSUME MaxRestarts = 0, RepliesInTime PROVE Spec => []CleanAnswer
<1>1. Init => Timely
  BY DEF Init, Timely, Clocks, OnTime, Stages
<1>2. Timely /\ [Next]_vars => Timely'
  <2> SUFFICES ASSUME Timely, [Next]_vars PROVE Timely'
    OBVIOUS
  <2>1. ASSUME NEW o \in Operator, Look(o) \/ Decide(o) \/ Api(o)
        PROVE  UNCHANGED <<now, stage, since, sentAt, outcome, restarts>>
    BY <2>1 DEF Decide, Api, Take, NothingToTake, SendDecision, asker
  <2>2. ASSUME UNCHANGED <<now, stage, since, sentAt, outcome, restarts>> PROVE Timely'
    BY <2>2 DEF Timely, Clocks, OnTime
  <2>3. CASE Restart
    BY <2>3 DEF Restart, Timely, Clocks
  <2>4. CASE UNCHANGED vars
    BY <2>2, <2>4 DEF vars
  <2> QED
    BY <2>1, <2>2, <2>3, <2>4, DeviceTimely, HandlerTimely, TickTimely DEF Next
<1>3. Timely => CleanAnswer
  BY DEF Timely, Clocks, CleanAnswer
<1> QED
  BY <1>1, <1>2, <1>3, PTL DEF Spec

-----------------------------------------------------------------------------
(* The roots file: what one write does to it. *)
LEMMA ContinueFile ==
    ASSUME NEW file \in RootsFile, file.ended \/ file.lines # <<>>,
           NEW part \in Node \union {Fragment}
    PROVE  Continue(file, part) \in RootsFile /\ Continue(file, part).lines # <<>>
<1>1. file.lines \in Seq(Seq(Node \union {Fragment})) /\ <<part>> \in Seq(Node \union {Fragment})
  BY DEF RootsFile
<1>2. CASE file.ended
  <2>1. Continue(file, part) = [lines |-> Append(file.lines, <<part>>), ended |-> FALSE]
    BY <1>2 DEF Continue
  <2>2. Append(file.lines, <<part>>) \in Seq(Seq(Node \union {Fragment}))
        /\ Len(Append(file.lines, <<part>>)) = Len(file.lines) + 1
        /\ Len(file.lines) \in Nat /\ Len(<<>>) = 0
    BY <1>1
  <2>3. Append(file.lines, <<part>>) # <<>>
    BY <2>2
  <2> QED
    BY <2>1, <2>2, <2>3 DEF RootsFile
<1>3. CASE ~file.ended
  <2> DEFINE last == Len(file.lines)
             new == [file.lines EXCEPT ![last] = Append(@, part)]
  <2>1. last \in 1 .. Len(file.lines)
    BY <1>1, <1>3
  <2>2. Append(file.lines[last], part) \in Seq(Node \union {Fragment})
    BY <1>1, <2>1
  <2>3. new \in Seq(Seq(Node \union {Fragment})) /\ new # <<>>
    BY <1>1, <2>1, <2>2
  <2>4. Continue(file, part) = [lines |-> new, ended |-> FALSE]
    BY <1>3 DEF Continue
  <2> HIDE DEF new
  <2> QED
    BY <2>3, <2>4 DEF RootsFile
<1> QED
  BY <1>2, <1>3

(* An id written after an ended line is a line of its own, and the last one. *)
EndsWith(file, n) == file.lines # <<>> /\ file.lines[Len(file.lines)] = <<n>>

LEMMA ContinueEnded ==
    ASSUME NEW file \in RootsFile, file.ended, NEW n \in Node
    PROVE  /\ EndsWith(Continue(file, n), n) /\ ~Continue(file, n).ended
           /\ \A m : Lists(file, m) => Lists(Continue(file, n), m)
<1> DEFINE new == Append(file.lines, <<n>>)
<1>1. Continue(file, n) = [lines |-> new, ended |-> FALSE]
  BY DEF Continue
<1>2. file.lines \in Seq(Seq(Node \union {Fragment})) /\ <<n>> \in Seq(Node \union {Fragment})
  BY DEF RootsFile
<1>3. /\ Len(new) = Len(file.lines) + 1 /\ new[Len(file.lines) + 1] = <<n>>
      /\ \A k \in 1 .. Len(file.lines) : new[k] = file.lines[k]
      /\ Len(file.lines) \in Nat /\ Len(<<>>) = 0
  BY <1>2
<1>4. new # <<>>
  BY <1>3
<1> HIDE DEF new
<1> QED
  BY <1>1, <1>3, <1>4 DEF Lists, EndsWith

LEMMA EndLineKeeps ==
    ASSUME NEW file \in RootsFile
    PROVE  /\ EndLine(file) \in RootsFile /\ EndLine(file).ended
           /\ EndLine(file).lines = file.lines
           /\ \A m : Lists(file, m) <=> Lists(EndLine(file), m)
           /\ \A m : EndsWith(file, m) => Lists(EndLine(file), m)
<1>1. EndLine(file) \in RootsFile /\ EndLine(file).ended /\ EndLine(file).lines = file.lines
  BY DEF EndLine, RootsFile
<1>2. file.lines \in Seq(Seq(Node \union {Fragment}))
  BY DEF RootsFile
<1>3. file.lines # <<>> => Len(file.lines) \in 1 .. Len(file.lines)
  BY <1>2
<1> QED
  BY <1>1, <1>3 DEF Lists, EndsWith

-----------------------------------------------------------------------------
(* The types of the whole state, restarts and any roots file included: a line       *)
(* without an end is continued only where there is one.                           *)
Continued == roots.ended \/ roots.lines # <<>>

(* The types in groups: each step disturbs a few of them. *)
Bounds == now \in Nat /\ restarts \in 0 .. MaxRestarts
Attempts == /\ stage \in [Request -> Stages] /\ since \in [Request -> Nat]
            /\ sentAt \in [Request -> Nat]
            /\ outcome \in [Request -> {"none", "waiting", "accepted", "denied", "timedOut"}]
Prompts == /\ nextId \in Nat /\ id \in [Request -> Nat] /\ pending \in SUBSET Entry
           /\ mailbox \in [Request -> {"empty", "yes", "no"}]
Screens == screen \in [Operator -> SUBSET (Nat \X Request)] /\ said \in SUBSET (Request \X BOOLEAN)
Calls == call \in [Operator -> Call \union {NoCall}] /\ told \in SUBSET (Request \X BOOLEAN)
Replies == /\ capNonce \in [Request -> Nat] /\ rooted \in [Request -> BOOLEAN]
           /\ roots \in RootsFile /\ Continued /\ torn \in BOOLEAN

Groups == Bounds /\ Attempts /\ Prompts /\ Screens /\ Calls /\ Replies

LEMMA InGroups == (TypeOK /\ Continued) <=> Groups
BY DEF TypeOK, Groups, Bounds, Attempts, Prompts, Screens, Calls, Replies

LEMMA DeviceTypes == ASSUME Groups, NEW r \in Request, Device(r) PROVE Groups'
<1> USE DEF Groups, Device, Ask, Receive, GiveUp
<1>1. (Bounds /\ Prompts)'
  BY DEF Bounds, Prompts, parked
<1>2. Attempts'
  BY DEF Bounds, Attempts, Stages, Reach
<1>3. (Screens /\ Calls)'
  BY DEF Screens, Calls, owner
<1>4. Replies'
  BY DEF Replies, Continued, minted
<1> QED
  BY <1>1, <1>2, <1>3, <1>4

LEMMA HandlerTypes == ASSUME Groups, NEW r \in Request, Handler(r) PROVE Groups'
<1> USE DEF Groups
<1>1. (Bounds /\ Screens /\ Calls)'
  BY DEF Bounds, Screens, Calls, owner, Handler, Park, RefuseOnSight, Wake, Elapse,
         DropReceiver, Deny, Mint, EndAppend
<1>2. Attempts'
  <2>1. PICK to \in Stages : Reach(r, to) /\ UNCHANGED asker
    BY DEF Handler, Park, RefuseOnSight, Wake, Elapse, DropReceiver, Deny, Mint, EndAppend, Stages
  <2> QED
    BY <2>1 DEF Attempts, Bounds, Reach, asker
<1>3. Prompts'
  <2>1. CASE Park(r)
    <3>1. [id |-> nextId, req |-> r, open |-> TRUE] \in Entry
      BY DEF Prompts, Entry
    <3>2. pending' \in SUBSET Entry
      BY <2>1, <3>1 DEF Park, Prompts
    <3>3. nextId' \in Nat /\ id' \in [Request -> Nat] /\ mailbox' = mailbox
      BY <2>1 DEF Park, Prompts
    <3> QED
      BY <3>2, <3>3 DEF Prompts
  <2>2. CASE Deny(r) \/ Mint(r)
    BY <2>2 DEF Deny, Mint, RemoveEntry, Prompts
  <2>3. CASE RefuseOnSight(r) \/ Wake(r) \/ Elapse(r) \/ DropReceiver(r) \/ EndAppend(r)
    BY <2>3 DEF RefuseOnSight, Wake, Elapse, DropReceiver, EndAppend, Prompts, parked
  <2> QED
    BY <2>1, <2>2, <2>3 DEF Handler
<1>4. Replies'
  <2>1. CASE UNCHANGED minted
    BY <2>1 DEF Replies, Continued, minted
  <2>2. CASE Mint(r)
    <3>1. capNonce' \in [Request -> Nat]
      BY <2>2 DEF Mint, Replies, Bounds
    <3>2. Asker[r] \in Node
      BY PairingAssumption
    <3>3. \/ UNCHANGED roots
          \/ \E part \in {Asker[r], Fragment} : roots' = Continue(roots, part)
      BY <2>2 DEF Mint
    <3>4. roots' \in RootsFile /\ Continued'
      BY <3>2, <3>3, ContinueFile DEF Replies, Continued
    <3>5. rooted' \in [Request -> BOOLEAN] /\ torn' \in BOOLEAN
      BY <2>2 DEF Mint, Replies
    <3> QED
      BY <3>1, <3>4, <3>5 DEF Replies
  <2>3. CASE EndAppend(r)
    <3>1. roots' \in RootsFile /\ Continued'
      BY <2>3, EndLineKeeps DEF EndAppend, Replies, Continued
    <3>2. rooted' \in [Request -> BOOLEAN] /\ torn' \in BOOLEAN /\ UNCHANGED capNonce
      BY <2>3 DEF EndAppend, Replies
    <3> QED
      BY <3>1, <3>2 DEF Replies
  <2> QED
    BY <2>1, <2>2, <2>3 DEF Handler, Park, RefuseOnSight, Wake, Elapse, DropReceiver, Deny
<1> QED
  BY <1>1, <1>2, <1>3, <1>4

LEMMA OwnerTypes ==
    ASSUME Groups, NEW o \in Operator, Look(o) \/ Decide(o) \/ Api(o) PROVE Groups'
<1> USE DEF Groups
<1>1. (Bounds /\ Attempts /\ Replies)'
  BY DEF Bounds, Attempts, Replies, Continued, asker, minted, Decide, Api, Take,
         NothingToTake, SendDecision
<1>2. CASE Look(o)
  <2>1. \A e \in pending : <<e.id, e.req>> \in Nat \X Request
    BY DEF Prompts, Entry
  <2>2. Screens'
    BY <1>2, <2>1 DEF Screens
  <2>3. (Prompts /\ Calls)'
    BY <1>2 DEF Prompts, Calls, parked
  <2> QED
    BY <1>1, <2>2, <2>3
<1>3. CASE Decide(o)
  <2>1. PICK p \in screen[o], accept \in BOOLEAN :
          /\ call' = [call EXCEPT ![o] = [step |-> "called", id |-> p[1], shown |-> p[2],
                                          accept |-> accept, holds |-> p[2]]]
          /\ said' = said \union {<<p[2], accept>>}
    BY <1>3 DEF Decide
  <2>2. p[1] \in Nat /\ p[2] \in Request
    BY DEF Screens
  <2>3. [step |-> "called", id |-> p[1], shown |-> p[2], accept |-> accept, holds |-> p[2]] \in Call
    BY <2>2 DEF Call
  <2>4. Calls'
    BY <1>3, <2>1, <2>3 DEF Calls, Decide
  <2>5. Screens'
    BY <1>3, <2>1, <2>2 DEF Screens, Decide
  <2>6. Prompts'
    BY <1>3 DEF Prompts, Decide, parked
  <2> QED
    BY <1>1, <2>4, <2>5, <2>6
<1>4. CASE Take(o)
  <2>1. PICK e \in pending :
          /\ pending' = (pending \ {e}) \union {[e EXCEPT !.open = FALSE]}
          /\ call' = [call EXCEPT ![o].step = "taken", ![o].holds = e.req]
    BY <1>4 DEF Take
  <2>2. call[o] # NoCall
    BY <1>4 DEF Take, NoCall
  <2>3. call[o] \in Call /\ e \in Entry
    BY <2>2 DEF Calls, Prompts
  <2>4. /\ [call[o] EXCEPT !.step = "taken", !.holds = e.req] \in Call
        /\ [e EXCEPT !.open = FALSE] \in Entry
    BY <2>3 DEF Call, Entry
  <2>5. call' = [call EXCEPT ![o] = [call[o] EXCEPT !.step = "taken", !.holds = e.req]]
    BY <2>1 DEF Calls
  <2>6. Calls'
    BY <1>4, <2>4, <2>5 DEF Calls, Take
  <2>7. Prompts'
    BY <1>4, <2>1, <2>4 DEF Prompts, Take
  <2>8. Screens'
    BY <1>4 DEF Screens, Take, owner
  <2> QED
    BY <1>1, <2>6, <2>7, <2>8
<1>5. CASE NothingToTake(o)
  BY <1>1, <1>5 DEF NothingToTake, Calls, Prompts, Screens, parked, owner
<1>6. CASE SendDecision(o)
  <2>1. call[o] \in Call
    BY <1>6 DEF SendDecision, Calls, NoCall
  <2>2. call[o].holds \in Request /\ call[o].shown \in Request /\ call[o].accept \in BOOLEAN
    BY <2>1 DEF Call
  <2>3. Prompts'
    BY <1>6, <2>2 DEF Prompts, SendDecision, parked
  <2>4. Calls'
    BY <1>6, <2>2 DEF Calls, SendDecision
  <2>5. Screens'
    BY <1>6 DEF Screens, SendDecision, owner
  <2> QED
    BY <1>1, <2>3, <2>4, <2>5
<1> QED
  BY <1>2, <1>3, <1>4, <1>5, <1>6 DEF Api

LEMMA RestartTypes == ASSUME Groups, Restart PROVE Groups'
<1> USE DEF Groups, Restart
<1>1. Bounds'
  BY PairingAssumption DEF Bounds
<1>2. Attempts'
  BY DEF Attempts, Stages, asker
<1>3. (Prompts /\ Screens /\ Calls)'
  BY DEF Prompts, Screens, Calls, owner
<1>4. Replies'
  BY DEF Replies, Continued, minted
<1> QED
  BY <1>1, <1>2, <1>3, <1>4

LEMMA FoundFile == Init => roots \in RootsFile /\ torn \in BOOLEAN
<1> SUFFICES ASSUME Init PROVE roots \in RootsFile /\ torn \in BOOLEAN
  OBVIOUS
<1>1. roots \in [lines : Seq(Seq(Node)), ended : BOOLEAN]
  BY PairingAssumption DEF Init
<1>2. roots.lines \in Seq(Seq(Node \union {Fragment}))
  <2>1. \A s \in Seq(Node) : s \in Seq(Node \union {Fragment})
    OBVIOUS
  <2> QED
    BY <1>1, <2>1
<1> QED
  BY <1>1, <1>2 DEF Init, RootsFile

LEMMA InitTypes == Init => Groups
<1> SUFFICES ASSUME Init PROVE Groups
  OBVIOUS
<1>1. Bounds /\ Attempts
  BY PairingAssumption DEF Init, Bounds, Attempts, Stages
<1>2. Prompts /\ Screens /\ Calls
  BY DEF Init, Prompts, Screens, Calls
<1>3. Replies
  BY PairingAssumption, FoundFile DEF Init, Replies, Continued
<1> QED
  BY <1>1, <1>2, <1>3 DEF Groups

LEMMA StepTypes == Groups /\ [Next]_vars => Groups'
<1> SUFFICES ASSUME Groups, [Next]_vars PROVE Groups'
  OBVIOUS
<1>1. CASE Tick \/ UNCHANGED vars
  <2>1. (Bounds /\ Attempts)'
    BY <1>1 DEF Groups, Tick, vars, Bounds, Attempts, asker
  <2>2. (Prompts /\ Screens /\ Calls)'
    BY <1>1 DEF Groups, Tick, vars, Prompts, Screens, Calls, parked, owner
  <2>3. Replies'
    BY <1>1 DEF Groups, Tick, vars, Replies, Continued, minted
  <2> QED
    BY <2>1, <2>2, <2>3 DEF Groups
<1> QED
  BY <1>1, DeviceTypes, HandlerTypes, OwnerTypes, RestartTypes DEF Next

(* The state of the daemon, of the devices and of the owner's screens stays within   *)
(* its types, whatever restarts and roots files there are: every stage a handler     *)
(* reaches is one the rest of the system knows (handle_inner of daemon.rs).         *)
THEOREM TypeCorrect == Spec => []TypeOK
<1>1. Groups => TypeOK
  BY InGroups
<1> QED
  BY <1>1, InitTypes, StepTypes, PTL DEF Spec

-----------------------------------------------------------------------------
(* One line is written at a time, and while every write was finished, the file has   *)
(* an end but for the line that is being written.                                 *)
OneAppends == \A r, q \in Request : stage[r] = "appending" /\ stage[q] = "appending" => r = q
Whole == /\ roots.ended <=> NoneAppends
         /\ \A r \in Request : stage[r] = "appending" => EndsWith(roots, Asker[r])
Listed == OneAppends /\ (torn \/ (Whole /\ RootedIsListed))

LEMMA FrameListed ==
    ASSUME Listed, UNCHANGED <<roots, rooted>>, torn => torn',
           \A r \in Request : stage'[r] = "appending" <=> stage[r] = "appending"
    PROVE  Listed'
BY DEF Listed, OneAppends, Whole, RootedIsListed, NoneAppends

LEMMA MintListed == ASSUME Groups, Listed, NoneAppends, NEW r \in Request, Mint(r) PROVE Listed'
<1> USE DEF Groups, Attempts, Replies
<1>1. Asker[r] \in Node
  BY PairingAssumption
<1>2. \A q \in Request : q # r => stage'[q] = stage[q]
  BY DEF Mint, Reach
<1>3. OneAppends'
  BY <1>2 DEF OneAppends, NoneAppends
<1>4. CASE torn'
  BY <1>3, <1>4 DEF Listed
<1>5. CASE ~torn'
  <2>1. ~torn /\ roots.ended /\ RootedIsListed
    BY <1>5 DEF Mint, Listed, Whole
  <2>2. CASE UNCHANGED roots
    <3>1. stage'[r] = "replied" /\ \A q \in Request : rooted'[q] => rooted[q] \/ Lists(roots, Asker[q])
      <4>1. ~Continue(roots, Asker[r]).ended /\ ~Continue(roots, Fragment).ended
        BY DEF Continue
      <4> QED
        BY <2>1, <2>2, <4>1 DEF Mint, Reach
    <3>2. NoneAppends'
      BY <1>2, <3>1 DEF NoneAppends
    <3> QED
      BY <1>3, <2>1, <2>2, <3>1, <3>2 DEF Listed, Whole, RootedIsListed, NoneAppends
  <2>3. CASE ~UNCHANGED roots
    <3>1. roots' = Continue(roots, Asker[r]) /\ stage'[r] = "appending" /\ UNCHANGED rooted
      BY <1>5, <2>3 DEF Mint, Reach
    <3>2. /\ EndsWith(roots', Asker[r]) /\ ~roots'.ended
          /\ \A m : Lists(roots, m) => Lists(roots', m)
      BY <1>1, <2>1, <3>1, ContinueEnded
    <3>3. Whole' /\ RootedIsListed'
      BY <1>2, <2>1, <3>1, <3>2 DEF Whole, RootedIsListed, NoneAppends
    <3> QED
      BY <1>3, <3>3 DEF Listed
  <2> QED
    BY <2>2, <2>3
<1> QED
  BY <1>4, <1>5

LEMMA EndAppendListed == ASSUME Groups, Listed, NEW r \in Request, EndAppend(r) PROVE Listed'
<1> USE DEF Groups, Attempts, Replies
<1>1. /\ stage[r] = "appending" /\ stage'[r] = "replied"
      /\ \A q \in Request : q # r => stage'[q] = stage[q]
  BY DEF EndAppend, Reach
<1>2. OneAppends' /\ NoneAppends'
  BY <1>1 DEF Listed, OneAppends, NoneAppends
<1>3. CASE torn'
  BY <1>2, <1>3 DEF Listed
<1>4. CASE ~torn'
  <2>1. roots' = EndLine(roots) /\ rooted' = [rooted EXCEPT ![r] = TRUE] /\ ~torn
    BY <1>4 DEF EndAppend
  <2>2. EndsWith(roots, Asker[r]) /\ RootedIsListed
    BY <1>1, <2>1 DEF Listed, Whole
  <2>3. roots'.ended /\ \A m : Lists(roots, m) \/ EndsWith(roots, m) => Lists(roots', m)
    BY <2>1, EndLineKeeps
  <2>4. RootedIsListed'
    BY <2>1, <2>2, <2>3 DEF RootedIsListed
  <2>5. Whole'
    BY <1>2, <2>3 DEF Whole, NoneAppends
  <2> QED
    BY <1>2, <2>4, <2>5 DEF Listed
<1> QED
  BY <1>3, <1>4

(* A device whose reply says it is a root is on a line of its own in the roots file  *)
(* for good, across restarts and failed writes, for every roots file the daemon may   *)
(* find, unless a line was left without an end, by the id and its newline being two   *)
(* writes or in the file that was found (append_root and mint of daemon.rs).        *)
THEOREM RootedStaysListed == Spec => []RootedUnlessTorn
<1>1. Init => Listed
  BY DEF Init, Listed, OneAppends, Whole, RootedIsListed, NoneAppends
<1>2. ASSUME Groups, Listed, [Next]_vars PROVE Listed'
  <2>1. ASSUME NEW r \in Request, NoneAppends, Mint(r) PROVE Listed'
    BY <1>2, <2>1, MintListed
  <2>2. ASSUME NEW r \in Request, EndAppend(r) PROVE Listed'
    BY <1>2, <2>2, EndAppendListed
  <2>3. ASSUME NEW r \in Request,
               Device(r) \/ Park(r) \/ RefuseOnSight(r) \/ Wake(r) \/ Elapse(r)
                         \/ DropReceiver(r) \/ Deny(r)
        PROVE  Listed'
    <3>1. UNCHANGED <<roots, rooted, torn>>
      BY <2>3 DEF Device, Ask, Receive, GiveUp, Park, RefuseOnSight, Wake, Elapse,
                  DropReceiver, Deny, minted
    <3>2. \/ UNCHANGED stage
          \/ /\ stage[r] # "appending"
             /\ \E to \in Stages \ {"appending"} : stage' = [stage EXCEPT ![r] = to]
      BY <2>3 DEF Device, Ask, Receive, GiveUp, Park, RefuseOnSight, Wake, Elapse,
                  DropReceiver, Deny, Reach, Stages
    <3> QED
      BY <1>2, <3>1, <3>2, FrameListed DEF Groups, Attempts
  <2>4. ASSUME NEW o \in Operator, Look(o) \/ Decide(o) \/ Api(o) PROVE Listed'
    <3>1. UNCHANGED <<stage, roots, rooted, torn>>
      BY <2>4 DEF Decide, Api, Take, NothingToTake, SendDecision, minted
    <3> QED
      BY <1>2, <3>1, FrameListed
  <2>5. CASE Restart
    <3>1. /\ torn' = (torn \/ ~NoneAppends) /\ UNCHANGED <<roots, rooted>>
          /\ \A r \in Request : stage'[r] # "appending"
      BY <2>5 DEF Restart
    <3> QED
      BY <1>2, <3>1, FrameListed DEF Listed, OneAppends, NoneAppends
  <2>6. CASE Tick \/ UNCHANGED vars
    <3>1. UNCHANGED <<stage, roots, rooted, torn>>
      BY <2>6 DEF Tick, vars, minted
    <3> QED
      BY <1>2, <3>1, FrameListed
  <2> QED
    BY <1>2, <2>1, <2>2, <2>3, <2>4, <2>5, <2>6 DEF Next, Handler
<1>3. Listed => RootedUnlessTorn
  BY DEF Listed, RootedUnlessTorn
<1> QED
  BY <1>1, <1>2, <1>3, InitTypes, StepTypes, PTL DEF Spec
=============================================================================
