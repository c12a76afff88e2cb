------------------------------ MODULE PairStore ------------------------------
(* Pairing as the owner of the asking device lives it: `ce-fleet pair` in a        *)
(* terminal, or the Pair button of the page, asks a peer over the mesh and puts    *)
(* the capability it is granted into the wallet (main.rs, api_pair, pair.rs).  It   *)
(* composes Wallet, on this device, with Consent, which is what Pairing shows of    *)
(* each peer's daemon and owner; between them are a mesh that may lose a request   *)
(* or a reply and a command that may give up.                                    *)
EXTENDS Wallet, SaturatingTime

CONSTANTS FromPage,       \* the attempts made with the Pair button
          Typed,          \* the lifetime each command asks for: a number and its unit, 0 = never
          IssuedAt        \* the clock of the peer when it issues

ASSUME PairStoreAssumption ==
    /\ FromPage \subseteq Adder /\ IssuedAt \in [Adder -> Time]
    /\ Typed \in [Adder -> [number : Time, unit : Nat \ {0}]]

VARIABLES stage,                      \* where each attempt stands
          said, verdict, granted      \* the peers: see Consent

pairing == <<stage, said, verdict, granted>>
pairVars == <<vars, pairing>>

Peer == INSTANCE Consent WITH Request <- Adder

PairTypeOK ==
    /\ TypeOK
    /\ stage \in [Adder -> {"new", "refused", "waiting", "declined", "unanswered", "storing"}]
    /\ said \subseteq Adder \X BOOLEAN /\ verdict \in [Adder -> {"open", "yes", "no"}]
    /\ granted \subseteq Adder

(* parse_ttl multiplies and mint adds in u64: a release build wraps around, and a  *)
(* debug build ends there, which RefuseCommand and a peer that never grants cover. *)
Wrapped(n) == n % (TimeMax + 1)

(* The page asks for no lifetime, which is for ever. *)
Ttl(a) == IF a \in FromPage THEN 0 ELSE Wrapped(Typed[a].number * Typed[a].unit)

NotAfterUnboundedBug(a) == NoBound                 \* ttl_secs is lost on the way

NotAfter(a) == IF Ttl(a) = 0 THEN NoBound ELSE Wrapped(IssuedAt[a] + Ttl(a))

-----------------------------------------------------------------------------
Goes(a, from, to) == /\ stage[a] = from
                     /\ stage' = [stage EXCEPT ![a] = to]
                     /\ UNCHANGED <<vars, said, verdict, granted>>

(* No such name, a lifetime that does not parse, no identity: nothing is sent. *)
RefuseCommand(a) == a \notin FromPage /\ Goes(a, "new", "refused")

(* A disabled Pair button holds nobody back: the page draws a new one within two   *)
(* seconds, so any number of attempts may be under way.                          *)
Request(a) == Goes(a, "new", "waiting")

ReceiveDenied(a) == verdict[a] = "no" /\ Goes(a, "waiting", "declined")

ReceiveEarlyBug(a) == verdict[a] = "yes" /\ Goes(a, "waiting", "storing")

ReceiveAccepted(a) == a \in granted /\ Goes(a, "waiting", "storing")

GiveUpNeverBug(a) == FALSE                         \* the request has no timeout
GiveUpDeclinesBug(a) == Goes(a, "waiting", "declined")

(* The timeout, an error of the mesh, a reply that does not decode, or the end of   *)
(* the process: the peer's owner may still answer, and the peer still grant.       *)
GiveUp(a) == Goes(a, "waiting", "unanswered")

Store(a) == stage[a] = "storing" /\ Add(a) /\ UNCHANGED pairing

(* A peer that was asked; it hears of no other attempt. *)
Asked(a) == stage[a] \notin {"new", "refused"}

PeerApproves(a) == Asked(a) /\ verdict[a] = "open" /\ Peer!Answer(a, TRUE) /\ UNCHANGED <<vars, stage>>

(* A no of the owner, its silence and the owner's yes that came too late all settle. *)
PeerSettles(a) == /\ Asked(a) /\ \E v \in {"yes", "no"} : Peer!Settle(a, v)
                  /\ UNCHANGED <<vars, stage>>

PeerGrants(a) == Peer!Grant(a) /\ UNCHANGED <<vars, stage>>

PairInit == Init /\ stage = [a \in Adder |-> "new"] /\ Peer!Init

Command(a) == \/ RefuseCommand(a) \/ Request(a)
              \/ ReceiveDenied(a) \/ ReceiveAccepted(a) \/ GiveUp(a)

PairNext == \E a \in Adder : \/ Command(a) \/ Store(a)
                             \/ PeerApproves(a) \/ PeerSettles(a) \/ PeerGrants(a)

(* The request times out and the process goes on; nobody has to answer. *)
PairFairness == \A a \in Adder : WF_pairVars(GiveUp(a)) /\ WF_pairVars(Store(a))

PairSpec == PairInit /\ [][PairNext]_pairVars /\ PairFairness

-----------------------------------------------------------------------------
(* The command has ended without "Paired." *)
NotPaired(a) == stage[a] \in {"declined", "unanswered"} \/ pc[a] = "failed"

(* What the owner is told is true of the peer: after "Not paired: denied or timed  *)
(* out" there is no capability and there will be none, and after "Paired." the      *)
(* owner of the peer said yes to this attempt and its capability exists.          *)
AnswerIsTrue == \A a \in Adder :
    /\ stage[a] = "declined" => verdict[a] = "no" /\ a \notin granted
    /\ pc[a] = "stored" => <<a, TRUE>> \in said /\ a \in granted

(* Whatever writes overlap or are cut short, every entry of the wallet is a          *)
(* capability that the owner of a peer approved and that was issued.              *)
WalletHoldsGrants == \A x \in DOMAIN entries : entries[x] \in granted /\ <<entries[x], TRUE>> \in said

(* A capability is not valid past the lifetime that was asked for and that its       *)
(* peer's owner approved (proto.rs: "`0` = never expires"), wherever the sums of    *)
(* either device wrap around.                                                    *)
NeverOutlivesApproval == \A a \in granted : \A t \in Time :
    NotAfter(a) = NoBound \/ t <= NotAfter(a) => Ttl(a) = 0 \/ t <= IssuedAt[a] + Ttl(a)

(* Every command ends, whatever the peer's owner does. *)
CommandEnds == \A a \in Adder : stage[a] = "waiting" ~>
    NotPaired(a) \/ pc[a] = "stored"

(* "Not paired: ..." on the page means that nothing was granted; api_pair gives the  *)
(* same answer when the wallet could not be written.                              *)
NotPairedMeansNoGrant == \A a \in FromPage : NotPaired(a) => a \notin granted

(* A capability granted for a command that has ended is in the wallet or was         *)
(* replaced under its alias.                                                      *)
GrantIsHeld == Opened = {} =>
    \A a \in granted : NotPaired(a) => WalletAlias(a) \in DOMAIN entries
=============================================================================
