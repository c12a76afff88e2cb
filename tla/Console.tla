------------------------------- MODULE Console -------------------------------
(* The console's store and the delegates it polls.  A refresh asks every delegate   *)
(* for its health and its rollup, then the first healthy one for the revoked set,  *)
(* and replaces what is shown.  It starts on a timer whether or not the one before  *)
(* has ended, and no fetch has a timeout, so refreshes overlap.                   *)
EXTENDS Rollup

CONSTANTS Delegates,       \* the configured delegates, in order
          Atlases,         \* the atlases a delegate's node may show
          InitialAtlas,    \* the one each shows at first
          Flaky,           \* the sets of nodes whose history may fail to be read
          Revocation,      \* what may be revoked on chain
          Slot,            \* refreshes under way at once, at most
          MaxChanges       \* bound on changes of the world around the console

Delegate == Range(Delegates)

ASSUME ConsoleAssumption == /\ Delegates \in Seq(Delegate) /\ Delegates # <<>>
                            /\ IsInjective(Delegates)
                            /\ \A a \in Atlases : a \subseteq AtlasEntry /\ IsFiniteSet(a)
                            /\ InitialAtlas \in [Delegate -> Atlases] /\ MaxChanges \in Nat

VARIABLES mode,            \* a delegate: "up", "noMesh" (its CE node is gone), "down"
          atlas, onChain,  \* what the delegates' nodes know
          changes,
          stage,           \* where each refresh stands
          asked,           \* and, while it polls, what it waits for from each delegate
          health, parts, errors,
          known,           \* its local variable "revoked"
          delegateHealth, rollup, revoked, lastUpdated, lastError,   \* FleetState
          shown,           \* history: the parts of what is shown
          overtaken        \* history: another refresh has shown its revoked set since
                           \* this one took its copy

world == <<mode, atlas, onChain, changes>>
locals == <<health, parts, errors, known>>
refreshes == <<stage, asked, locals, overtaken>>
state == <<delegateHealth, rollup, revoked, lastUpdated, lastError, shown>>
vars == <<world, refreshes, state>>

(* What /fleet/rollup may answer: a pass over an atlas, whatever histories it reads. *)
Answers == {[atlas |-> a, rollup |-> RollupOf(a, f)] : a \in Atlases, f \in Flaky}
Part == [from : Delegate, answer : Answers]

TypeOK == /\ mode \in [Delegate -> {"up", "noMesh", "down"}]
          /\ atlas \in [Delegate -> Atlases] /\ onChain \subseteq Revocation
          /\ stage \in [Slot -> {"idle", "polling", "reading", "read", "unread"}]
          /\ asked \in [Slot -> [Delegate -> {"health", "rollup", "settled"}]]
          /\ health \in [Slot -> [Delegate -> BOOLEAN]]
          /\ \A s \in Slot : Len(parts[s]) <= Len(Delegates) /\ Range(parts[s]) \subseteq Part
          /\ errors \in [Slot -> SUBSET Delegate] /\ known \in [Slot -> SUBSET Revocation]
          /\ delegateHealth \in [Delegate -> BOOLEAN] /\ rollup.nodes \subseteq NodeView
          /\ revoked \subseteq Revocation /\ lastUpdated \in BOOLEAN
          /\ lastError \subseteq Delegate /\ Range(shown) \subseteq Part
          /\ overtaken \in [Slot -> BOOLEAN]

-----------------------------------------------------------------------------
(* The world: delegates and their nodes come and go, atlases and the chain move on. *)
Change == changes < MaxChanges /\ changes' = changes + 1

ModeChanges(d) == /\ Change
                  /\ \E m \in {"up", "noMesh", "down"} \ {mode[d]} : mode' = [mode EXCEPT ![d] = m]
                  /\ UNCHANGED <<atlas, onChain, refreshes, state>>

AtlasChanges(d) == /\ Change
                   /\ \E a \in Atlases \ {atlas[d]} : atlas' = [atlas EXCEPT ![d] = a]
                   /\ UNCHANGED <<mode, onChain, refreshes, state>>

Revoke == /\ Change
          /\ \E x \in Revocation \ onChain : onChain' = onChain \union {x}
          /\ UNCHANGED <<mode, atlas, refreshes, state>>

-----------------------------------------------------------------------------
(* A refresh.                                                                    *)
Start(s) == /\ stage[s] = "idle"
            /\ stage' = [stage EXCEPT ![s] = "polling"]
            /\ asked' = [asked EXCEPT ![s] = [d \in Delegate |-> "health"]]
            /\ UNCHANGED <<locals, overtaken, world, state>>

Healthz(s, d) == /\ stage[s] = "polling" /\ asked[s][d] = "health"
                 /\ health' = [health EXCEPT ![s][d] = mode[d] # "down"]
                 /\ asked' = [asked EXCEPT ![s][d] = "rollup"]
                 /\ UNCHANGED <<stage, parts, errors, known, overtaken, world, state>>

(* The rollup is asked for whatever the health check said. *)
FetchRollup(s, d) ==
    /\ stage[s] = "polling" /\ asked[s][d] = "rollup" /\ mode[d] = "up"
    /\ \E x \in Answers : /\ x.atlas = atlas[d]
                          /\ parts' = [parts EXCEPT ![s] = Append(@, [from |-> d, answer |-> x])]
    /\ asked' = [asked EXCEPT ![s][d] = "settled"]
    /\ UNCHANGED <<stage, health, errors, known, overtaken, world, state>>

NoteNothingBug(s, d) == UNCHANGED errors                     \* the error is swallowed

Note(s, d) == errors' = [errors EXCEPT ![s] = @ \union {d}]

FetchFails(s, d) ==
    /\ stage[s] = "polling" /\ asked[s][d] = "rollup" /\ mode[d] # "up"
    /\ Note(s, d)
    /\ asked' = [asked EXCEPT ![s][d] = "settled"]
    /\ UNCHANGED <<stage, health, parts, known, overtaken, world, state>>

ErrorLineSticksBug(s) == IF errors[s] = {} THEN lastError ELSE errors[s]

ErrorLine(s) == errors[s]

(* The five assignments at the end of refresh: no other code runs between them. *)
Show(s, rev) ==
    /\ delegateHealth' = health[s] /\ revoked' = rev
    /\ IF parts[s] = <<>>
       THEN UNCHANGED <<rollup, lastUpdated, shown>>
       ELSE /\ rollup' = MergeRollups([i \in DOMAIN parts[s] |-> parts[s][i].answer.rollup])
            /\ lastUpdated' = TRUE /\ shown' = parts[s]
    /\ lastError' = ErrorLine(s)

KeepPartsBug(s) == UNCHANGED parts                           \* one list for all refreshes

DropParts(s) == parts' = [parts EXCEPT ![s] = <<>>]

(* The refresh returns, and its local variables are gone. *)
End(s) ==
    /\ stage' = [stage EXCEPT ![s] = "idle"]
    /\ health' = [health EXCEPT ![s] = [d \in Delegate |-> FALSE]]
    /\ DropParts(s)
    /\ errors' = [errors EXCEPT ![s] = {}] /\ known' = [known EXCEPT ![s] = {}]

Healthy(s) == {i \in DOMAIN Delegates : health[s][Delegates[i]]}
FirstHealthy(s) == Delegates[Min(Healthy(s))]

CopyOfNothingBug == {}                                       \* a list begun afresh

Copy == revoked

(* Promise.all has returned; without a healthy delegate the refresh ends here. *)
AllSettled(s) ==
    /\ stage[s] = "polling" /\ \A d \in Delegate : asked[s][d] = "settled"
    /\ IF Healthy(s) = {}
       THEN Show(s, Copy) /\ End(s)
       ELSE /\ stage' = [stage EXCEPT ![s] = "reading"]
            /\ known' = [known EXCEPT ![s] = Copy]
            /\ UNCHANGED <<health, parts, errors, state>>
    /\ UNCHANGED <<asked, overtaken, world>>

(* The delegate answers fetchRevoked, or does not; the answer is on its way. *)
FetchRevoked(s) ==
    /\ stage[s] = "reading"
    /\ IF mode[FirstHealthy(s)] = "up"
       THEN /\ known' = [known EXCEPT ![s] = onChain]
            /\ stage' = [stage EXCEPT ![s] = "read"]
       ELSE /\ stage' = [stage EXCEPT ![s] = "unread"]
            /\ UNCHANGED known
    /\ UNCHANGED <<asked, health, parts, errors, overtaken, world, state>>

Finish(s) == /\ stage[s] \in {"read", "unread"}
             /\ Show(s, known[s]) /\ End(s)
             /\ overtaken' = [q \in Slot |-> q # s /\ stage[q] \in {"reading", "unread"}]
             /\ UNCHANGED <<asked, world>>

Init == /\ mode \in [Delegate -> {"up", "down"}] /\ atlas = InitialAtlas
        /\ onChain \in SUBSET Revocation /\ changes = 0
        /\ stage = [s \in Slot |-> "idle"] /\ asked = [s \in Slot |-> [d \in Delegate |-> "settled"]]
        /\ health = [s \in Slot |-> [d \in Delegate |-> FALSE]] /\ parts = [s \in Slot |-> <<>>]
        /\ errors = [s \in Slot |-> {}] /\ known = [s \in Slot |-> {}]
        /\ delegateHealth = [d \in Delegate |-> FALSE] /\ rollup = EmptyRollup /\ revoked = {}
        /\ lastUpdated = FALSE /\ lastError = {} /\ shown = <<>>
        /\ overtaken = [s \in Slot |-> FALSE]

Refresh(s) == \/ Start(s) \/ AllSettled(s) \/ FetchRevoked(s) \/ Finish(s)
              \/ \E d \in Delegate : Healthz(s, d) \/ FetchRollup(s, d) \/ FetchFails(s, d)

World == Revoke \/ \E d \in Delegate : ModeChanges(d) \/ AtlasChanges(d)

Next == World \/ \E s \in Slot : Refresh(s)

(* The timer goes on, and every fetch is answered or fails at last. *)
Fairness == \A s \in Slot : WF_vars(Refresh(s))

Spec == Init /\ [][Next]_vars /\ Fairness

-----------------------------------------------------------------------------
(* The grid and the headline show each node of the delegates that answered once,    *)
(* as the delegate that heard of it last saw it, with counters that agree, however  *)
(* refreshes overlap and answers arrive (mergeRollups: "Prefer the freshest").     *)
ShownIsWhatDelegatesSaw ==
    lastUpdated => Reflects(rollup, UNION {p.answer.atlas : p \in Range(shown)})

(* A delegate whose nodes are not shown is named in the error line: without an      *)
(* error the fleet is shown whole.                                               *)
MissingIsReported == lastUpdated => Delegate \subseteq {p.from : p \in Range(shown)} \union lastError

Current == /\ {<<p.from, p.answer.atlas>> : p \in Range(shown)} = {<<d, atlas[d]>> : d \in Delegate}
           /\ revoked = onChain /\ lastError = {} /\ \A d \in Delegate : delegateHealth[d]

(* When every delegate stays up and nothing changes any more (MaxChanges), the      *)
(* console comes to show the fleet as it is and stays there: no failed or late      *)
(* refresh sticks.                                                               *)
Converges == <>[](\A d \in Delegate : mode[d] = "up") => <>[]Current

(* A refresh that could not read the revoked set leaves it as it is shown (store.ts: *)
(* "keep previous on a transient failure"), unless another refresh has shown one    *)
(* since the first took its copy.                                                *)
KeptUnlessOvertaken ==
    [][\A s \in Slot : stage[s] = "unread" /\ stage'[s] = "idle" /\ ~overtaken[s]
                        => revoked' = revoked]_vars

(* Without that condition it is false: an overtaken refresh puts its old copy back. *)
KeptOnFailure == [][\A s \in Slot : stage[s] = "unread" /\ stage'[s] = "idle" => revoked' = revoked]_vars
=============================================================================
