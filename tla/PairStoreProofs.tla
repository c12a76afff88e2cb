--------------------------- MODULE PairStoreProofs ---------------------------
(* Proofs about PairStore: its wallet is the one of Wallet, so that what is proved   *)
(* of that one holds here, and what the owner is told is true of the peer.         *)
EXTENDS PairStore, WalletProofs

USE DEF Goes, Go, Fail, Truncate

(* How far an attempt has come on this device says how far it has come on the peer, *)
(* and what the file or a copy of it holds was granted.                            *)
Told == /\ \A a \in Adder : verdict[a] = "yes" => <<a, TRUE>> \in said
        /\ \A a \in granted : verdict[a] = "yes"
        /\ \A a \in Adder : stage[a] = "declined" => verdict[a] = "no"
        /\ \A a \in Adder : stage[a] = "storing" => a \in granted
        /\ \A a \in Adder : pc[a] # "paired" => stage[a] = "storing"

Held == /\ \A x \in DOMAIN entries : entries[x] \in granted
        /\ \A a \in Adder : \A x \in DOMAIN wallet[a] : wallet[a][x] \in granted

StageTypeOK ==
    /\ stage \in [Adder -> {"new", "refused", "waiting", "declined", "unanswered", "storing"}]
    /\ said \subseteq Adder \X BOOLEAN /\ verdict \in [Adder -> {"open", "yes", "no"}]
    /\ granted \subseteq Adder

PairInv == IInv /\ StageTypeOK /\ Told /\ Held

LEMMA PairInitInv == PairInit => PairInv
  <1>1. PairInit => IInv
    BY InitIInv DEF PairInit
  <1>2. PairInit => StageTypeOK /\ Told /\ Held
    BY EmptyType DEF PairInit, Init, Peer!Init, StageTypeOK, Told, Held
  <1> QED BY <1>1, <1>2 DEF PairInv

(* The command and the peer leave the wallet alone. *)
LEMMA OthersLeaveWallet ==
    ASSUME NEW a \in Adder,
           Command(a) \/ PeerApproves(a) \/ PeerSettles(a) \/ PeerGrants(a)
    PROVE  UNCHANGED vars
  BY DEF Command, RefuseCommand, Request, ReceiveDenied, ReceiveAccepted, GiveUp,
         PeerApproves, PeerSettles, PeerGrants

LEMMA StepIsWalletStep == PairNext => [Next]_vars
  <1> SUFFICES ASSUME NEW a \in Adder,
                      \/ Command(a) \/ Store(a)
                      \/ PeerApproves(a) \/ PeerSettles(a) \/ PeerGrants(a)
               PROVE  [Next]_vars
    BY DEF PairNext
  <1>1. CASE Store(a)
    BY <1>1 DEF Store, Next
  <1> QED BY <1>1, OthersLeaveWallet

LEMMA StutterIsWalletStutter == UNCHANGED pairVars => UNCHANGED vars
  BY DEF pairVars

(* Unchanged file and copies, and no fewer grants. *)
LEMMA HeldStays == ASSUME Held, UNCHANGED vars, granted \subseteq granted' PROVE Held'
  BY DEF Held, vars

LEMMA CommandKeepsTold == ASSUME PairInv, NEW a \in Adder, Command(a)
                          PROVE  StageTypeOK' /\ Told' /\ Held'
<1> USE DEF PairInv
<1>1. UNCHANGED <<vars, said, verdict, granted>>
  BY DEF Command, RefuseCommand, Request, ReceiveDenied, ReceiveAccepted, GiveUp
<1>2. Held'
  BY <1>1, HeldStays
<1>3. \/ /\ stage[a] \in {"new", "waiting"}
         /\ \E to \in {"refused", "waiting", "unanswered"} : stage' = [stage EXCEPT ![a] = to]
      \/ stage[a] = "waiting" /\ verdict[a] = "no" /\ stage' = [stage EXCEPT ![a] = "declined"]
      \/ stage[a] = "waiting" /\ a \in granted /\ stage' = [stage EXCEPT ![a] = "storing"]
  BY DEF Command, RefuseCommand, Request, ReceiveDenied, ReceiveAccepted, GiveUp
<1>4. StageTypeOK'
  BY <1>1, <1>3 DEF StageTypeOK
<1>5. pc' = pc
  BY <1>1 DEF vars
<1>6. Told'
  BY <1>1, <1>3, <1>5 DEF Told, StageTypeOK
<1> QED BY <1>2, <1>4, <1>6

LEMMA PeerKeepsTold == ASSUME PairInv, NEW a \in Adder,
                              PeerApproves(a) \/ PeerSettles(a) \/ PeerGrants(a)
                       PROVE  StageTypeOK' /\ Told' /\ Held'
<1> USE DEF PairInv
<1>1. UNCHANGED <<vars, stage>> /\ pc' = pc
  BY DEF PeerApproves, PeerSettles, PeerGrants, vars
<1>2. CASE PeerApproves(a)
  <2>1. said' = said \union {<<a, TRUE>>} /\ UNCHANGED <<verdict, granted>>
    BY <1>2 DEF PeerApproves, Peer!Answer
  <2>2. <<a, TRUE>> \in Adder \X BOOLEAN
    OBVIOUS
  <2>3. said' \subseteq Adder \X BOOLEAN
    BY <2>1, <2>2, Zenon DEF StageTypeOK
  <2>4. StageTypeOK'
    BY <1>1, <2>1, <2>3 DEF StageTypeOK
  <2>5. Told'
    BY <1>1, <2>1 DEF Told
  <2> QED BY <1>1, <2>1, <2>4, <2>5, HeldStays
<1>3. CASE PeerSettles(a)
  <2>1. PICK v \in {"yes", "no"} : Peer!Settle(a, v)
    BY <1>3 DEF PeerSettles
  <2>2. /\ verdict[a] = "open"
        /\ v = "yes" => <<a, TRUE>> \in said
        /\ verdict' = [verdict EXCEPT ![a] = v] /\ UNCHANGED <<said, granted>>
    BY <2>1 DEF Peer!Settle
  <2>3. StageTypeOK'
    BY <1>1, <2>2 DEF StageTypeOK
  <2>4. Told'
    BY <1>1, <2>2 DEF Told, StageTypeOK
  <2> QED BY <1>1, <2>2, <2>3, <2>4, HeldStays
<1>4. CASE PeerGrants(a)
  <2>1. /\ verdict[a] = "yes" /\ granted' = granted \union {a} /\ UNCHANGED <<said, verdict>>
    BY <1>4 DEF PeerGrants, Peer!Grant
  <2>2. StageTypeOK' /\ Told'
    BY <1>1, <2>1 DEF StageTypeOK, Told
  <2> QED BY <1>1, <2>1, <2>2, HeldStays
<1> QED BY <1>2, <1>3, <1>4

LEMMA InsertHolds == ASSUME NEW w \in Wallets, NEW a \in Adder,
                            \A x \in DOMAIN w : w[x] \in granted, a \in granted
                     PROVE  \A x \in DOMAIN Insert(w, a) : Insert(w, a)[x] \in granted
  BY DEF Insert

LEMMA UpToHolds == ASSUME NEW w \in Wallets, NEW k, \A x \in DOMAIN w : w[x] \in granted
                   PROVE  \A x \in DOMAIN UpTo(w, k) : UpTo(w, k)[x] \in granted
  BY DEF UpTo, Restrict

LEMMA OverHolds ==
    ASSUME entries \in Wallets, \A x \in DOMAIN entries : entries[x] \in granted,
           NEW w \in Wallets, \A x \in DOMAIN w : w[x] \in granted, NEW v \in WrittenOver(w)
    PROVE  \A x \in DOMAIN v : v[x] \in granted
  BY OverType

LEMMA StoreKeepsTold == ASSUME PairInv, NEW a \in Adder, Store(a)
                        PROVE  StageTypeOK' /\ Told' /\ Held'
<1> USE DEF PairInv, IInv, TypeOK
<1>1. /\ stage[a] = "storing" /\ Add(a) /\ a \in granted
      /\ UNCHANGED <<stage, said, verdict, granted>>
  BY DEF Store, pairing, Told
<1>2. StageTypeOK'
  BY <1>1 DEF StageTypeOK
<1>3. \A b \in Adder : b # a => pc'[b] = pc[b]
  BY <1>1 DEF Add, Load, LoadFails, Open, OpenFails, Write, WriteStops
<1>4. Told'
  BY <1>1, <1>3 DEF Told
<1>5. CASE Load(a)
  <2>1. \A x \in DOMAIN Insert(entries, a) : Insert(entries, a)[x] \in granted
    BY <1>1, InsertHolds DEF Held
  <2>2. entries' = entries /\ wallet' = [wallet EXCEPT ![a] = Insert(entries, a)]
    BY <1>5 DEF Load
  <2>3. \A b \in Adder : wallet'[b] = IF b = a THEN Insert(entries, a) ELSE wallet[b]
    BY <2>2
  <2> QED BY <1>1, <1>2, <1>4, <2>1, <2>2, <2>3 DEF Held
<1>6. CASE Open(a) \/ LoadFails(a) \/ OpenFails(a) \/ Write(a) \/ WriteStops(a)
  <2>1. wallet' = wallet
    BY <1>6 DEF Open, LoadFails, OpenFails, Write, WriteStops
  <2>2. \/ entries' \in {entries, Empty} \union WrittenOver(wallet[a])
        \/ \E k \in Alias : entries' \in WrittenOver(UpTo(wallet[a], k))
    BY <1>6 DEF Open, LoadFails, OpenFails, Write, WriteStops
  <2>3. \A k \in Alias : \A x \in DOMAIN UpTo(wallet[a], k) : UpTo(wallet[a], k)[x] \in granted
    BY UpToHolds DEF Held
  <2>4. /\ \A v \in WrittenOver(wallet[a]) : \A x \in DOMAIN v : v[x] \in granted
        /\ \A k \in Alias : \A v \in WrittenOver(UpTo(wallet[a], k)) : \A x \in DOMAIN v : v[x] \in granted
    BY <2>3, UpToType, OverHolds DEF Held
  <2>5. \A x \in DOMAIN entries' : entries'[x] \in granted
    BY <2>2, <2>4, EmptyType DEF Held
  <2> QED BY <1>1, <1>2, <1>4, <2>1, <2>5 DEF Held
<1> QED BY <1>1, <1>5, <1>6 DEF Add

LEMMA PairNextKeepsInv == PairInv /\ [PairNext]_pairVars => PairInv'
  <1> SUFFICES ASSUME PairInv, [PairNext]_pairVars PROVE PairInv'
    OBVIOUS
  <1>1. IInv'
    BY StepIsWalletStep, StutterIsWalletStutter, NextKeepsIInv DEF PairInv
  <1>2. CASE UNCHANGED pairVars
    <2>1. StageTypeOK' /\ Told' /\ Held'
      BY <1>2 DEF pairVars, vars, pairing, PairInv, StageTypeOK, Told, Held
    <2> QED BY <1>1, <2>1 DEF PairInv
  <1>3. CASE PairNext
    <2>1. StageTypeOK' /\ Told' /\ Held'
      BY <1>3, CommandKeepsTold, PeerKeepsTold, StoreKeepsTold DEF PairNext
    <2> QED BY <1>1, <2>1 DEF PairInv
  <1> QED BY <1>2, <1>3

-----------------------------------------------------------------------------
(* The wallet of pairings that are asked for, granted and stored is a wallet: what   *)
(* is proved of Wallet's adds holds of the command's and the page's.               *)
THEOREM PairingFillsAWallet == PairSpec => Spec
  <1>1. PairInit => Init BY DEF PairInit
  <1>2. [PairNext]_pairVars => [Next]_vars
    BY StepIsWalletStep, StutterIsWalletStutter
  <1> QED BY <1>1, <1>2, PTL DEF PairSpec, Spec

(* Every value of the composition has its type at every moment. *)
THEOREM PairTypeCorrect == PairSpec => []PairTypeOK
  <1>1. PairInv => PairTypeOK BY DEF PairInv, IInv, StageTypeOK, PairTypeOK
  <1> QED BY PairInitInv, PairNextKeepsInv, <1>1, PTL DEF PairSpec

(* An owner of the asking device who reads "denied" was denied, and one who reads    *)
(* "Paired." has a capability that the other owner agreed to, for any number of     *)
(* attempts, with whatever requests and replies are lost.                          *)
THEOREM OwnerIsToldTheTruth == PairSpec => []AnswerIsTrue
  <1>1. PairInv => AnswerIsTrue BY DEF PairInv, StageTypeOK, Told, AnswerIsTrue
  <1> QED BY PairInitInv, PairNextKeepsInv, <1>1, PTL DEF PairSpec

(* However adds overlap or end halfway, nothing is in the wallet that no owner of a  *)
(* peer agreed to.                                                                 *)
THEOREM OnlyGrantsAreHeld == PairSpec => []WalletHoldsGrants
  <1>1. PairInv => WalletHoldsGrants
    BY DEF PairInv, IInv, TypeOK, StageTypeOK, Told, Held, WalletHoldsGrants
  <1> QED BY PairInitInv, PairNextKeepsInv, <1>1, PTL DEF PairSpec

(* A stored pairing stays readable in the wallet, or its alias was taken by a later  *)
(* one, when the pairings came one at a time.                                      *)
THEOREM PairedStays == PairSpec => []StoredStays
  BY PairingFillsAWallet, StoredAlone, PTL

-----------------------------------------------------------------------------
LEMMA WrappedType == ASSUME NEW n \in Nat
                     PROVE  Wrapped(n) \in Time /\ Wrapped(n) <= n
  <1>1. TimeMax + 1 \in Nat \ {0} BY TimeMaxAssumption
  <1>2. n % (TimeMax + 1) \in 0 .. TimeMax BY <1>1, TimeMaxAssumption
  <1>3. n % (TimeMax + 1) <= n BY <1>1, SMT
  <1> QED BY <1>2, <1>3 DEF Wrapped, Time

LEMMA TtlType == ASSUME NEW a \in Adder PROVE Ttl(a) \in Time
  <1>1. Typed[a].number * Typed[a].unit \in Nat
    BY PairStoreAssumption DEF Time
  <1>2. 0 \in Time BY TimeMaxAssumption DEF Time
  <1> QED BY <1>1, <1>2, WrappedType DEF Ttl

(* A sum that wraps around ends sooner than the lifetime that was approved, and one  *)
(* that comes to 0, which stands for no end, does so past the end of time.          *)
LEMMA SumEndsInTime ==
    ASSUME NEW a \in Adder, NEW t \in Time, NotAfter(a) = NoBound \/ t <= NotAfter(a)
    PROVE  Ttl(a) = 0 \/ t <= IssuedAt[a] + Ttl(a)
  <1>1. Ttl(a) \in Nat /\ IssuedAt[a] \in Nat /\ t \in Nat /\ t <= TimeMax
    BY TtlType, TimeMaxAssumption, PairStoreAssumption DEF Time
  <1>2. CASE Ttl(a) = 0 BY <1>2
  <1>3. CASE Ttl(a) # 0
    <2>1. NotAfter(a) = (IssuedAt[a] + Ttl(a)) % (TimeMax + 1)
      BY <1>3 DEF NotAfter, Wrapped
    <2>2. CASE IssuedAt[a] + Ttl(a) > TimeMax BY <1>1, <2>2, TimeMaxAssumption
    <2>3. CASE IssuedAt[a] + Ttl(a) <= TimeMax
      <3>1. (IssuedAt[a] + Ttl(a)) % (TimeMax + 1) = IssuedAt[a] + Ttl(a)
        BY <1>1, <2>3, TimeMaxAssumption
      <3> QED BY <1>1, <1>3, <2>1, <3>1 DEF NoBound
    <2> QED BY <1>1, <2>2, <2>3, TimeMaxAssumption
  <1> QED BY <1>2, <1>3

(* Whatever lifetimes are asked for and whatever the clock says, a capability ends   *)
(* no later than the owner who approved it was told.                               *)
THEOREM ApprovalBoundsLifetime == PairSpec => []NeverOutlivesApproval
  <1>1. PairInv => NeverOutlivesApproval
    BY SumEndsInTime DEF PairInv, StageTypeOK, NeverOutlivesApproval
  <1> QED BY PairInitInv, PairNextKeepsInv, <1>1, PTL DEF PairSpec
=============================================================================
