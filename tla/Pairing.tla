------------------------------- MODULE Pairing -------------------------------
(* Pairing: the daemon on the device that is asked (daemon.rs), the devices that   *)
(* ask (pair.rs) and the owner who decides through the web page or the command     *)
(* line.  The daemon serves all requests in one task, so its steps between two     *)
(* awaits are atomic to each other; the HTTP handlers of the local API run beside  *)
(* it on other threads and interleave with it at every lock.                      *)
EXTENDS Integers, Sequences

CONSTANTS Request, Node,         \* attempts to pair; the devices that make them
          Asker,                 \* who makes each attempt
          WantsRoots,            \* attempts with want_roots
          Operator, Page,        \* open pages and terminals of the owner; the pages
          DecisionTimeout, RequestTimeout,
          MaxDelay,              \* the mesh delivers within this time
          LastAsk,               \* bound on the time of an attempt
          MaxRestarts,           \* bound on restarts of the daemon
          RootsFiles             \* the <data_dir>/roots files it may start with

ASSUME PairingAssumption ==
    /\ Asker \in [Request -> Node] /\ WantsRoots \subseteq Request /\ Page \subseteq Operator
    /\ DecisionTimeout \in Nat /\ RequestTimeout \in Nat /\ MaxDelay \in Nat
    /\ LastAsk \in Nat /\ MaxRestarts \in Nat
    /\ RootsFiles \subseteq [lines : Seq(Seq(Node)), ended : BOOLEAN]
    /\ \A file \in RootsFiles : file.ended \/ file.lines # <<>>

Fragment == "fragment"        \* the first part of a node id, the rest of which was not written
RootsFile == [lines : Seq(Seq(Node \union {Fragment})), ended : BOOLEAN]

VARIABLES now,        \* the clock, in whatever unit the timeouts are given in
          stage,      \* how far each attempt has come
          since,      \* when it got there
          sentAt,     \* when it was made
          outcome,    \* what the device that asked knows of it
          id,         \* the id handle_inner drew for it
          nextId, pending,
          mailbox,    \* the value in its oneshot channel: "empty", TRUE or FALSE
          screen,     \* <<id, attempt>>: the prompts an operator last saw
          call,       \* an operator's POST /api/decide
          capNonce,   \* the nonce of the capability minted for it, 0 before
          rooted,     \* the flag of that name in its reply
          roots,      \* the roots file
          torn,       \* history: its last line was left, or found, without an end
          restarts,
          said,       \* history: <<attempt, accept>> the owner answered a prompt with
          told        \* history: the ones an operator was told took effect

asker == <<sentAt, outcome>>
parked == <<id, nextId, pending>>
owner == <<screen, said>>
minted == <<capNonce, rooted, roots, torn>>
vars == <<now, stage, since, sentAt, outcome, id, nextId, pending, mailbox, screen,
          call, capNonce, rooted, roots, torn, restarts, said, told>>

Stages == {"idle", "sent", "malformed", "parked", "elapsed", "denied", "accepted",
           "appending", "replied", "done", "lost"}
NoCall == [step |-> "none"]
Call == [step : {"called", "taken"}, id : Nat, shown : Request, accept : BOOLEAN, holds : Request]
Entry == [id : Nat, req : Request, open : BOOLEAN]

TypeOK ==
    /\ now \in Nat /\ nextId \in Nat /\ restarts \in 0 .. MaxRestarts
    /\ stage \in [Request -> Stages] /\ since \in [Request -> Nat]
    /\ sentAt \in [Request -> Nat] /\ capNonce \in [Request -> Nat]
    /\ outcome \in [Request -> {"none", "waiting", "accepted", "denied", "timedOut"}]
    /\ id \in [Request -> Nat] /\ pending \in SUBSET Entry
    /\ mailbox \in [Request -> {"empty", "yes", "no"}]
    /\ screen \in [Operator -> SUBSET (Nat \X Request)]
    /\ call \in [Operator -> Call \union {NoCall}]
    /\ rooted \in [Request -> BOOLEAN] /\ torn \in BOOLEAN
    /\ roots \in RootsFile
    /\ said \in SUBSET (Request \X BOOLEAN) /\ told \in SUBSET (Request \X BOOLEAN)

DecisionDueBug(r) == now >= since[r] + RequestTimeout     \* one timeout for both sides

DecisionDue(r) == now >= since[r] + DecisionTimeout

Reach(r, s) == stage' = [stage EXCEPT ![r] = s] /\ since' = [since EXCEPT ![r] = now]

-----------------------------------------------------------------------------
(* The device that asks.  A malformed request claims another sender or names no    *)
(* abilities.                                                                    *)
Ask(r) == /\ stage[r] = "idle" /\ now <= LastAsk
          /\ Reach(r, "sent") \/ Reach(r, "malformed")
          /\ sentAt' = [sentAt EXCEPT ![r] = now]
          /\ outcome' = [outcome EXCEPT ![r] = "waiting"]
          /\ UNCHANGED <<now, parked, mailbox, owner, call, minted, restarts, told>>

Receive(r) == /\ stage[r] = "replied" /\ outcome[r] = "waiting"
              /\ Reach(r, "done")
              /\ outcome' = [outcome EXCEPT ![r] = IF capNonce[r] # 0 THEN "accepted" ELSE "denied"]
              /\ UNCHANGED <<now, sentAt, parked, mailbox, owner, call, minted, restarts, told>>

GiveUp(r) == /\ outcome[r] = "waiting" /\ now >= sentAt[r] + RequestTimeout
             /\ outcome' = [outcome EXCEPT ![r] = "timedOut"]
             /\ UNCHANGED <<now, stage, since, sentAt, parked, mailbox, owner, call, minted, restarts, told>>

-----------------------------------------------------------------------------
(* handle_inner, from one await to the next.                                     *)
Park(r) == /\ stage[r] = "sent"
           /\ Reach(r, "parked")
           /\ id' = [id EXCEPT ![r] = nextId]
           /\ nextId' = nextId + 1
           /\ pending' = pending \union {[id |-> nextId, req |-> r, open |-> TRUE]}
           /\ UNCHANGED <<now, asker, mailbox, owner, call, minted, restarts, told>>

(* A step that only the handler itself notices. *)
Handle(r, from, to) ==
    /\ stage[r] = from /\ Reach(r, to)
    /\ UNCHANGED <<now, asker, parked, mailbox, owner, call, minted, restarts, told>>

RefuseOnSightBug(r) == Handle(r, "malformed", "refused")  \* as if the answer were never written

(* The sender is not who it says it is, or asks for no abilities. *)
RefuseOnSight(r) == Handle(r, "malformed", "replied")

(* timeout polls the channel before the timer, so a decision that is there wins. *)
Wake(r) == /\ mailbox[r] # "empty"
           /\ Handle(r, "parked", IF mailbox[r] = "yes" THEN "accepted" ELSE "denied")

ElapseAcceptsBug(r) == DecisionDue(r) /\ Handle(r, "parked", "accepted")       \* `_ => true`

Elapse(r) == mailbox[r] = "empty" /\ DecisionDue(r) /\ Handle(r, "parked", "elapsed")

(* Only now is the receiving end of the channel dropped. *)
DropReceiver(r) == Handle(r, "elapsed", "denied")

RemoveEntry(r) == pending' = {e \in pending : e.id # id[r]}

DenyKeepsEntryBug(r) == Handle(r, "denied", "replied")    \* the early return comes first

Deny(r) == /\ stage[r] = "denied"
           /\ RemoveEntry(r)
           /\ Reach(r, "replied")
           /\ UNCHANGED <<now, asker, id, nextId, mailbox, owner, call, minted, restarts, told>>

Lists(file, n) == \E k \in 1 .. Len(file.lines) : file.lines[k] = <<n>>

(* Opened for append: a line without an end is continued, and the newline is a      *)
(* write of its own (`writeln!` on a File, which has no buffer).                   *)
Continue(file, part) ==
    LET last == Len(file.lines) IN
    [lines |-> IF file.ended THEN Append(file.lines, <<part>>)
               ELSE [file.lines EXCEPT ![last] = Append(@, part)],
     ended |-> FALSE]

EndLineMissingBug(file) == file                    \* `write!`

EndLine(file) == [file EXCEPT !.ended = TRUE]

(* append_root up to its last write: nothing to do, the id written, or a part of it. *)
AppendRoot(r) ==
    \/ /\ Lists(roots, Asker[r])
       /\ rooted' = [rooted EXCEPT ![r] = TRUE]
       /\ Reach(r, "replied") /\ UNCHANGED <<roots, torn>>
    \/ /\ ~Lists(roots, Asker[r])
       /\ \/ /\ roots' = Continue(roots, Asker[r])
             /\ Reach(r, "appending") /\ UNCHANGED torn
          \/ /\ roots' = Continue(roots, Fragment)
             /\ torn' = TRUE /\ Reach(r, "replied")
       /\ UNCHANGED rooted

(* The entry is removed, the capability issued and, if asked for, the root added,  *)
(* for which the file may not even open.                                         *)
Mint(r) == /\ stage[r] = "accepted"
           /\ RemoveEntry(r)
           /\ capNonce' = [capNonce EXCEPT ![r] = now]
           /\ \/ r \in WantsRoots /\ AppendRoot(r)
              \/ Reach(r, "replied") /\ UNCHANGED <<rooted, roots, torn>>
           /\ UNCHANGED <<now, asker, id, nextId, mailbox, owner, call, restarts, told>>

(* The last write of append_root, which may fail too. *)
EndAppend(r) == /\ stage[r] = "appending" /\ Reach(r, "replied")
                /\ \/ /\ roots' = EndLine(roots)
                      /\ rooted' = [rooted EXCEPT ![r] = TRUE] /\ UNCHANGED torn
                   \/ torn' = TRUE /\ UNCHANGED <<roots, rooted>>
                /\ UNCHANGED <<now, asker, parked, mailbox, owner, call, capNonce, restarts, told>>

-----------------------------------------------------------------------------
(* The owner: GET /api/pending, then POST /api/decide.                           *)
Snapshot == {<<e.id, e.req>> : e \in {f \in pending : f.open}}

See(o) == /\ screen' = [screen EXCEPT ![o] = Snapshot]
          /\ UNCHANGED <<now, stage, since, asker, parked, mailbox, call, minted, restarts, said, told>>

(* The page draws its prompts anew every two seconds, whatever it waits for. *)
RefreshPage(o) == o \in Page /\ See(o)

(* A terminal lists them between two commands, and the list stays on it. *)
ListPending(o) == o \notin Page /\ call[o] = NoCall /\ See(o)

Look(o) == RefreshPage(o) \/ ListPending(o)

Decide(o) == \E p \in screen[o], accept \in BOOLEAN :
    /\ call[o] = NoCall
    /\ call' = [call EXCEPT ![o] = [step |-> "called", id |-> p[1], shown |-> p[2],
                                    accept |-> accept, holds |-> p[2]]]
    /\ said' = said \union {<<p[2], accept>>}
    /\ UNCHANGED <<now, stage, since, asker, parked, mailbox, screen, minted, restarts, told>>

AnswersAnyBug(o, e) == e.open                      \* the only prompt, whatever its id
AnswersAgainBug(o, e) == e.id = call[o].id         \* an entry that was answered before

(* The entry with this id, if its sender is still there. *)
Answers(o, e) == e.id = call[o].id /\ e.open

(* Under the lock: take the sender out of the entry. *)
Take(o) == /\ call[o].step = "called"
           /\ \E e \in pending :
                /\ Answers(o, e)
                /\ pending' = (pending \ {e}) \union {[e EXCEPT !.open = FALSE]}
                /\ call' = [call EXCEPT ![o].step = "taken", ![o].holds = e.req]
           /\ UNCHANGED <<now, stage, since, asker, id, nextId, mailbox, owner, minted, restarts, told>>

NothingToTake(o) == /\ call[o].step = "called"
                    /\ ~ \E e \in pending : Answers(o, e)
                    /\ call' = [call EXCEPT ![o] = NoCall]
                    /\ UNCHANGED <<now, stage, since, asker, parked, mailbox, owner, minted, restarts, told>>

(* After the lock: the send succeeds if the receiving end still exists. *)
SendDecision(o) ==
    /\ call[o].step = "taken"
    /\ call' = [call EXCEPT ![o] = NoCall]
    /\ IF stage[call[o].holds] \in {"parked", "elapsed"}
       THEN /\ mailbox' = [mailbox EXCEPT ![call[o].holds] = IF call[o].accept THEN "yes" ELSE "no"]
            /\ told' = told \union {<<call[o].shown, call[o].accept>>}
       ELSE UNCHANGED <<mailbox, told>>
    /\ UNCHANGED <<now, stage, since, asker, parked, owner, minted, restarts>>

-----------------------------------------------------------------------------
(* The one task of the daemon is not in the middle of a write. *)
NoneAppends == \A r \in Request : stage[r] # "appending"

(* The daemon process is replaced; pages stay open and terminals keep their text.  *)
(* A reply on its way out may be lost with it, and so is the end of a line that is  *)
(* being written.                                                                *)
Restart == /\ restarts < MaxRestarts
           /\ restarts' = restarts + 1
           /\ \E kept \in SUBSET {r \in Request : stage[r] = "replied"} :
                stage' = [r \in Request |->
                            IF stage[r] \in {"idle", "sent", "malformed", "done"} \/ r \in kept
                            THEN stage[r] ELSE "lost"]
           /\ nextId' = 1 /\ pending' = {}
           /\ mailbox' = [r \in Request |-> "empty"]
           /\ call' = [o \in Operator |-> NoCall]
           /\ torn' = (torn \/ ~NoneAppends)
           /\ UNCHANGED <<now, since, asker, id, owner, capNonce, rooted, roots, told>>

(* Time passes when nothing is overdue: steps of the daemon take no time to speak  *)
(* of, and the mesh keeps to MaxDelay.                                           *)
Overdue(r) ==
    \/ stage[r] \in {"sent", "malformed"} /\ now >= since[r] + MaxDelay
    \/ stage[r] = "replied" /\ outcome[r] = "waiting" /\ now >= since[r] + MaxDelay
    \/ stage[r] = "parked" /\ (mailbox[r] # "empty" \/ DecisionDue(r))
    \/ stage[r] \in {"elapsed", "denied", "accepted", "appending"}
    \/ outcome[r] = "waiting" /\ now >= sentAt[r] + RequestTimeout

Horizon == LastAsk + MaxDelay + DecisionTimeout + RequestTimeout

Tick == /\ now < Horizon
        /\ \A r \in Request : ~Overdue(r)
        /\ now' = now + 1
        /\ UNCHANGED <<stage, since, asker, parked, mailbox, owner, call, minted, restarts, told>>

Init == /\ now = 1 /\ nextId = 1 /\ restarts = 0
        /\ stage = [r \in Request |-> "idle"] /\ since = [r \in Request |-> 0]
        /\ sentAt = [r \in Request |-> 0] /\ outcome = [r \in Request |-> "none"]
        /\ id = [r \in Request |-> 0] /\ pending = {}
        /\ mailbox = [r \in Request |-> "empty"]
        /\ screen = [o \in Operator |-> {}] /\ call = [o \in Operator |-> NoCall]
        /\ capNonce = [r \in Request |-> 0] /\ rooted = [r \in Request |-> FALSE]
        /\ roots \in RootsFiles /\ torn = ~roots.ended
        /\ said = {} /\ told = {}

Handler(r) == \/ EndAppend(r)
              \/ /\ NoneAppends
                 /\ \/ Park(r) \/ RefuseOnSight(r) \/ Wake(r) \/ Elapse(r)
                    \/ DropReceiver(r) \/ Deny(r) \/ Mint(r)

Device(r) == Ask(r) \/ Receive(r) \/ GiveUp(r)

Api(o) == Take(o) \/ NothingToTake(o) \/ SendDecision(o)

Next == \/ \E r \in Request : Device(r) \/ Handler(r)
        \/ \E o \in Operator : Look(o) \/ Decide(o) \/ Api(o)
        \/ Restart \/ Tick

(* The runtime polls what is ready and time passes; no owner has to look. *)
Fairness == /\ WF_vars(Tick)
            /\ \A r \in Request : WF_vars(Handler(r)) /\ WF_vars(Receive(r)) /\ WF_vars(GiveUp(r))
            /\ \A o \in Operator : WF_vars(Api(o))

Spec == Init /\ [][Next]_vars /\ Fairness
-----------------------------------------------------------------------------
(* A capability is handed out only for an attempt whose prompt the owner accepted, *)
(* whatever the ids, races and timeouts do in between (proto.rs: "B's operator     *)
(* sees and approves these").                                                    *)
GrantedWasApproved == \A r \in Request : capNonce[r] # 0 => <<r, TRUE>> \in said

(* When an owner with two pages open gives both answers, the one that took effect   *)
(* stands: what was denied is never granted, and nothing is both.                 *)
DenyIsFinal == \A r \in Request :
    <<r, FALSE>> \in told => capNonce[r] = 0 /\ <<r, TRUE>> \notin told

(* "Accepted request {id}." is printed only for an attempt that is not denied.     *)
AcceptIsObeyed == \A r \in Request : <<r, TRUE>> \in told => stage[r] \notin {"elapsed", "denied"}

(* The device that asks learns the owner's answer, and never just times out        *)
(* (daemon.rs: "so A always gets a clean answer").                                *)
CleanAnswer == \A r \in Request : outcome[r] # "timedOut"

(* A device that was told it is a root is on a line of its own in the roots file,  *)
(* and stays there (daemon.rs: "Returns true if the file now lists it").  A line    *)
(* left without an end breaks this: README, part 6.                               *)
RootedIsListed == \A r \in Request : rooted[r] => Lists(roots, Asker[r])

(* It can go wrong only after a line was left without an end: by a write of          *)
(* append_root that failed or was cut off by a restart, or in the file the daemon    *)
(* found.                                                                        *)
RootedUnlessTorn == torn \/ RootedIsListed

(* Each capability can be revoked by its nonce alone (daemon.rs: "revoke with `ce   *)
(* revoke <nonce>`"; proto.rs: "names the issued capability").                     *)
NonceNamesOne == \A r, q \in Request : r # q /\ capNonce[r] # 0 => capNonce[r] # capNonce[q]

(* No prompt stays for ever, and no entry outlives its handler, even if no owner   *)
(* ever looks, or looks and answers at the last moment, or the daemon restarts.    *)
PromptsEnd == \A r \in Request :
    stage[r] = "parked" ~> (\A e \in pending : e.req # r)

(* The promise to the owner, kept as long as the daemon lives.                     *)
Promise == INSTANCE Consent WITH
    granted <- {r \in Request : capNonce[r] # 0},
    verdict <- [r \in Request |->
        IF capNonce[r] # 0 \/ stage[r] = "accepted" THEN "yes"
        ELSE IF stage[r] \in {"idle", "sent", "malformed", "parked"} THEN "open" ELSE "no"]
KeepsConsent == Promise!Spec
=============================================================================
