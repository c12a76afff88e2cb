------------------------------- MODULE Consent -------------------------------
(* What pairing promises the owner of a device: each request is settled once, with *)
(* a yes only when the owner said yes to that very request, and a capability is    *)
(* handed out at most once and only after the yes.  Saying nothing settles it too. *)
EXTENDS Naturals

CONSTANT Request

VARIABLES said,      \* the answers <<request, yes or no>> the owner ever gave
          verdict,   \* how each request was settled
          granted    \* the requests a capability was handed out for

vars == <<said, verdict, granted>>

Init == said = {} /\ verdict = [r \in Request |-> "open"] /\ granted = {}

Answer(r, accept) == /\ said' = said \union {<<r, accept>>}
                     /\ UNCHANGED <<verdict, granted>>

Settle(r, v) == /\ verdict[r] = "open"
                /\ v = "yes" => <<r, TRUE>> \in said
                /\ verdict' = [verdict EXCEPT ![r] = v]
                /\ UNCHANGED <<said, granted>>

Grant(r) == /\ verdict[r] = "yes" /\ r \notin granted
            /\ granted' = granted \union {r}
            /\ UNCHANGED <<said, verdict>>

Next == \E r \in Request : \/ \E accept \in BOOLEAN : Answer(r, accept)
                           \/ \E v \in {"yes", "no"} : Settle(r, v)
                           \/ Grant(r)

Spec == Init /\ [][Next]_vars
=============================================================================
